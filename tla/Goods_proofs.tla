---------------------------- MODULE Goods_proofs -----------------------------
(***************************************************************************)
(* Proofs about the goods: the connection to the database (ResultSet), the *)
(* way of a question to the rows it asks for, and the way of a row to the  *)
(* screen (GoodsStore), for every set of rows, tags and questions.         *)
(***************************************************************************)
EXTENDS GoodsStore, Wire_proofs

-----------------------------------------------------------------------------
(* The connection to the database.                                         *)

(* Until a ping fails while a result is held, no error is pending while    *)
(* one is, so that SQLClose always forgets what it freed.                  *)
Held ==
  /\ pResult # "null" => conn # "none"
  /\ ~pinged =>
       /\ ~freed
       /\ pResult # "dangling"
       /\ pResult # "null" => ~errno

(* A query frees the result before it, and forgets it unless an error is   *)
(* pending.                                                                *)
LEMMA QueryHeld ==
  ASSUME Held, NEW ok \in BOOLEAN, NEW result \in {"null", "held"}, SQLExec(ok, result)
  PROVE  Held'
  <1>1. UNCHANGED <<conn, pinged>>
    BY DEF SQLExec
  <1>2. CASE CloseFails
    <2>1. pinged /\ conn # "none"
      BY <1>2 DEF Held, CloseFails
    <2> QED
      BY <1>1, <2>1 DEF Held
  <1>3. CASE ~CloseFails
    <2>1. /\ ok => conn = "up"
          /\ errno' = ~ok
          /\ pResult' = IF ok THEN result ELSE "null"
          /\ UNCHANGED freed
      BY <1>3 DEF SQLExec
    <2> QED
      BY <1>1, <2>1 DEF Held
  <1> QED
    BY <1>2, <1>3

(* Held is kept by whatever happens to the connection.                     *)
LEMMA DbHeld == Held /\ [DbNext]_db => Held'
  <1> SUFFICES ASSUME Held, [DbNext]_db PROVE Held'
    OBVIOUS
  <1>1. CASE DbConnect
    BY <1>1 DEF DbConnect, Held
  <1>2. CASE DbLose
    BY <1>2 DEF DbLose, Held
  <1>3. CASE CheckConnect
    BY <1>3 DEF CheckConnect, Held
  <1>4. CASE \E ok \in BOOLEAN, result \in {"null", "held"} : SQLExec(ok, result)
    BY <1>4, QueryHeld
  <1>5. CASE UNCHANGED db
    BY <1>5 DEF db, Held
  <1> QED
    BY <1>1, <1>2, <1>3, <1>4, <1>5 DEF DbNext

(* However the queries go, whenever the connection is lost: a result that  *)
(* is freed twice takes a ping that failed.                                *)
THEOREM NotFreedTwice == DbSpec => []FreedOnce
  <1>1. DbInit => Held
    BY DEF DbInit, Held
  <1>2. Held => FreedOnce
    BY DEF Held, FreedOnce
  <1> QED
    BY <1>1, <1>2, DbHeld, PTL DEF DbSpec

(* What the calls of the control thread do to the connection is what any   *)
(* queries may do.                                                         *)
THEOREM RefinesDb == StoreSpec => DbSpec
  <1>1. StoreInit => DbInit
    BY DEF StoreInit
  <1>2. [StoreNext]_storeVars => [DbNext]_db
    <2>1. ASSUME Connection PROVE [DbNext]_db
      BY <2>1 DEF Connection, DbNext
    <2>2. ASSUME InsertValueIntoTable PROVE [DbNext]_db
      BY <2>2 DEF InsertValueIntoTable, DbNext
    <2>3. ASSUME DeleteValueFromTable PROVE [DbNext]_db
      BY <2>3 DEF DeleteValueFromTable, DbNext
    <2>4. ASSUME ReportTag PROVE [DbNext]_db
      BY <2>4 DEF ReportTag, DbNext
    <2>5. ASSUME UNCHANGED storeVars PROVE [DbNext]_db
      BY <2>5 DEF storeVars
    <2> QED
      BY <2>1, <2>2, <2>3, <2>4, <2>5 DEF StoreNext
  <1> QED
    BY <1>1, <1>2, PTL DEF StoreSpec, DbSpec

(* So no result is freed twice behind the calls of the control thread,     *)
(* unless a ping failed while a result was held.                           *)
THEOREM StoreFreesOnce == StoreSpec => []FreedOnce
  BY RefinesDb, NotFreedTwice, PTL

-----------------------------------------------------------------------------
(* Questions and rows as documents.                                        *)

(* Texts, numbers and words, and objects that have such values under       *)
(* different keys.                                                         *)
Single == [type : Type, val : Chars, keys : {<<>>}, kids : {<<>>}]
Listed(v, n, keys, kids) ==
  /\ v = Object(keys, kids)
  /\ n \in Nat /\ keys \in Seq(Chars) /\ kids \in Seq(Single) /\ Len(keys) = n /\ Len(kids) = n
  /\ \A i, j \in 1 .. n : keys[i] = keys[j] => i = j
Sheet(v) == \E n, keys, kids : Listed(v, n, keys, kids)

(* v and r have the same under k.                                          *)
SameAt(v, r, k) ==
  /\ IsKeyExist(r, k) <=> IsKeyExist(v, k)
  /\ IsKeyExist(v, k) => At(r, k) = At(v, k)
(* v has become r, which has w under k.                                    *)
Became(v, k, w, r) ==
  /\ Sheet(r)
  /\ IsKeyExist(r, k) /\ At(r, k) = w
  /\ \A j : j # k => SameAt(v, r, j)

(* Where a key is, and what is there.                                      *)
LEMMA OnSheet ==
  ASSUME NEW v, NEW n, NEW keys, NEW kids, Listed(v, n, keys, kids), NEW k
  PROVE  /\ v.type = "OBJECT" /\ v.keys = keys /\ v.kids = kids
         /\ GetKeyIndex(v, k) \in 0 .. n
         /\ GetKeyIndex(v, k) # 0 => keys[GetKeyIndex(v, k)] = k
         /\ IsKeyExist(v, k) <=> \E i \in 1 .. n : keys[i] = k
         /\ \A i \in 1 .. n : keys[i] = k => GetKeyIndex(v, k) = i /\ At(v, k) = kids[i]
  <1>1. /\ v.type = "OBJECT" /\ v.keys = keys /\ v.kids = kids /\ n \in Nat /\ Len(v.keys) = n
        /\ \A i, j \in 1 .. n : keys[i] = keys[j] => i = j
    BY DEF Listed, Object, Value
  <1>2. /\ GetKeyIndex(v, k) \in 0 .. n
        /\ GetKeyIndex(v, k) # 0 => keys[GetKeyIndex(v, k)] = k
        /\ GetKeyIndex(v, k) = 0 => \A i \in 1 .. n : keys[i] # k
    <2>1. PICK m \in Nat : m = n
      BY ONLY <1>1
    <2>2. Len(v.keys) = m
      BY ONLY <1>1, <2>1
    <2>3. /\ GetKeyIndex(v, k) \in 0 .. m
          /\ GetKeyIndex(v, k) # 0 => v.keys[GetKeyIndex(v, k)] = k
          /\ GetKeyIndex(v, k) = 0 => \A i \in 1 .. m : v.keys[i] # k
      BY ONLY <1>1, <2>2, m \in Nat, KeyPlace
    <2> QED
      BY ONLY <1>1, <2>1, <2>3
  <1>3. IsKeyExist(v, k) <=> GetKeyIndex(v, k) # 0
    BY DEF IsKeyExist
  <1>4. ASSUME NEW i \in 1 .. n, keys[i] = k
        PROVE  GetKeyIndex(v, k) = i /\ At(v, k) = kids[i]
    <2>1. GetKeyIndex(v, k) = i /\ GetKeyIndex(v, k) # 0
      BY ONLY <1>1, <1>2, <1>4
    <2>2. At(v, k) = v.kids[GetKeyIndex(v, k)]
      <3>1. IsKeyExist(v, k) /\ ~(v.type # "OBJECT")
        BY ONLY <1>1, <1>3, <2>1
      <3> QED
        BY ONLY <3>1, Zenon DEF At
    <2> QED
      BY ONLY <1>1, <2>1, <2>2
  <1>5. IsKeyExist(v, k) <=> \E i \in 1 .. n : keys[i] = k
    BY ONLY <1>1, <1>2, <1>3, <1>4
  <1> QED
    BY ONLY <1>1, <1>2, <1>4, <1>5

(* One value of a sheet is replaced,                                       *)
LEMMA SheetReplaced ==
  ASSUME NEW v, Sheet(v), NEW k, IsKeyExist(v, k), NEW w \in Single, NEW r,
         r = [v EXCEPT !.kids[GetKeyIndex(v, k)] = w]
  PROVE  Became(v, k, w, r)
  <1>1. PICK n, keys, kids : Listed(v, n, keys, kids)
    BY DEF Sheet
  <1>2. /\ v = Object(keys, kids) /\ v.kids = kids
        /\ n \in Nat /\ keys \in Seq(Chars) /\ kids \in Seq(Single) /\ Len(keys) = n /\ Len(kids) = n
        /\ \A i, j \in 1 .. n : keys[i] = keys[j] => i = j
    BY <1>1 DEF Listed, Object, Value
  <1>3. PICK p \in 1 .. n : keys[p] = k /\ GetKeyIndex(v, k) = p
    BY <1>1, OnSheet
  <1>4. PICK new \in Seq(Single) : new = [kids EXCEPT ![p] = w] /\ Len(new) = n
    <2>1. DOMAIN kids = 1 .. n /\ \A i \in 1 .. n : kids[i] \in Single
      BY ONLY <1>2
    <2>2. PICK u : u = [kids EXCEPT ![p] = w]
      OBVIOUS
    <2>3. DOMAIN u = 1 .. n /\ u = [i \in 1 .. n |-> IF i = p THEN w ELSE kids[i]]
      BY ONLY <1>2, <2>1, <2>2
    <2>4. u \in [1 .. n -> Single]
      BY ONLY <2>1, <2>3, w \in Single
    <2>5. u \in Seq(Single) /\ Len(u) = n
      BY ONLY <1>2, <2>4
    <2> QED
      BY ONLY <2>2, <2>5
  <1>5. r = Object(keys, new)
    BY ONLY <1>2, <1>3, <1>4, r = [v EXCEPT !.kids[GetKeyIndex(v, k)] = w] DEF Object, Value
  <1>6. Listed(r, n, keys, new)
    BY ONLY <1>2, <1>4, <1>5 DEF Listed
  <1>7. Sheet(r)
    BY ONLY <1>6 DEF Sheet
  <1>8. \A i \in 1 .. n : new[i] = IF i = p THEN w ELSE kids[i]
    BY ONLY <1>2, <1>4
  <1>9. IsKeyExist(r, k) /\ At(r, k) = w
    <2>1. /\ IsKeyExist(r, k) <=> \E i \in 1 .. n : keys[i] = k
          /\ \A i \in 1 .. n : keys[i] = k => At(r, k) = new[i]
      BY ONLY <1>6, OnSheet
    <2> QED
      BY ONLY <1>3, <1>8, <2>1
  <1>10. ASSUME NEW j, j # k PROVE SameAt(v, r, j)
    <2>1. /\ IsKeyExist(r, j) <=> \E i \in 1 .. n : keys[i] = j
          /\ \A i \in 1 .. n : keys[i] = j => At(r, j) = new[i]
      BY ONLY <1>6, OnSheet
    <2>2. /\ IsKeyExist(v, j) <=> \E i \in 1 .. n : keys[i] = j
          /\ \A i \in 1 .. n : keys[i] = j => At(v, j) = kids[i]
      BY ONLY <1>1, OnSheet
    <2>3. \A i \in 1 .. n : keys[i] = j => new[i] = kids[i]
      BY ONLY <1>3, <1>8, j # k
    <2> QED
      BY ONLY <2>1, <2>2, <2>3 DEF SameAt
  <1> QED
    BY ONLY <1>7, <1>9, <1>10 DEF Became

(* or there is one more;                                                   *)
LEMMA SheetGrown ==
  ASSUME NEW v, Sheet(v), NEW k \in Chars, ~IsKeyExist(v, k), NEW w \in Single, NEW r,
         r = Object(Append(v.keys, k), Append(v.kids, w))
  PROVE  Became(v, k, w, r)
  <1>1. PICK n, keys, kids : Listed(v, n, keys, kids)
    BY DEF Sheet
  <1>2. /\ v.keys = keys /\ v.kids = kids
        /\ n \in Nat /\ keys \in Seq(Chars) /\ kids \in Seq(Single) /\ Len(keys) = n /\ Len(kids) = n
        /\ \A i, j \in 1 .. n : keys[i] = keys[j] => i = j
    BY <1>1 DEF Listed, Object, Value
  <1>3. \A i \in 1 .. n : keys[i] # k
    BY ONLY <1>1, ~IsKeyExist(v, k), OnSheet
  <1>4. PICK ks \in Seq(Chars) : /\ ks = Append(keys, k) /\ Len(ks) = n + 1 /\ ks[n + 1] = k
                                 /\ \A i \in 1 .. n : ks[i] = keys[i]
    <2>1. PICK u : u = Append(keys, k)
      OBVIOUS
    <2>2. /\ u \in Seq(Chars) /\ Len(u) = Len(keys) + 1 /\ u[Len(keys) + 1] = k
          /\ \A i \in 1 .. Len(keys) : u[i] = keys[i]
      BY ONLY <1>2, <2>1, k \in Chars, AppendProperties
    <2> QED
      BY ONLY <1>2, <2>1, <2>2
  <1>5. PICK vs \in Seq(Single) : /\ vs = Append(kids, w) /\ Len(vs) = n + 1 /\ vs[n + 1] = w
                                  /\ \A i \in 1 .. n : vs[i] = kids[i]
    <2>1. PICK u : u = Append(kids, w)
      OBVIOUS
    <2>2. /\ u \in Seq(Single) /\ Len(u) = Len(kids) + 1 /\ u[Len(kids) + 1] = w
          /\ \A i \in 1 .. Len(kids) : u[i] = kids[i]
      BY ONLY <1>2, <2>1, w \in Single, AppendProperties
    <2> QED
      BY ONLY <1>2, <2>1, <2>2
  <1>6. Listed(r, n + 1, ks, vs)
    <2>1. r = Object(ks, vs)
      BY ONLY <1>2, <1>4, <1>5, r = Object(Append(v.keys, k), Append(v.kids, w))
    <2>2. \A i, j \in 1 .. n + 1 : ks[i] = ks[j] => i = j
      BY ONLY <1>2, <1>3, <1>4
    <2> QED
      BY ONLY <1>2, <1>4, <1>5, <2>1, <2>2 DEF Listed
  <1>7. Sheet(r)
    BY ONLY <1>6 DEF Sheet
  <1>8. IsKeyExist(r, k) /\ At(r, k) = w
    <2>1. PICK m \in Nat : m = n + 1
      BY ONLY <1>2
    <2>2. Listed(r, m, ks, vs) /\ m \in 1 .. m
      BY ONLY <1>2, <1>6, <2>1
    <2>3. /\ IsKeyExist(r, k) <=> \E i \in 1 .. m : ks[i] = k
          /\ \A i \in 1 .. m : ks[i] = k => At(r, k) = vs[i]
      BY ONLY <2>2, OnSheet
    <2> QED
      BY ONLY <1>4, <1>5, <2>1, <2>2, <2>3
  <1>9. ASSUME NEW j, j # k PROVE SameAt(v, r, j)
    <2>1. PICK m \in Nat : m = n + 1
      BY ONLY <1>2
    <2>2. Listed(r, m, ks, vs)
      BY ONLY <1>6, <2>1
    <2>3. /\ IsKeyExist(r, j) <=> \E i \in 1 .. m : ks[i] = j
          /\ \A i \in 1 .. m : ks[i] = j => At(r, j) = vs[i]
      BY ONLY <2>2, OnSheet
    <2>4. /\ IsKeyExist(v, j) <=> \E i \in 1 .. n : keys[i] = j
          /\ \A i \in 1 .. n : keys[i] = j => At(v, j) = kids[i]
      BY ONLY <1>1, OnSheet
    <2>5. /\ \A i \in 1 .. m : ks[i] = j => i \in 1 .. n /\ keys[i] = j
          /\ \A i \in 1 .. n : i \in 1 .. m /\ ks[i] = keys[i] /\ vs[i] = kids[i]
      BY ONLY <1>2, <1>4, <1>5, <2>1, j # k
    <2> QED
      BY ONLY <2>3, <2>4, <2>5 DEF SameAt
  <1> QED
    BY ONLY <1>7, <1>8, <1>9 DEF Became

(* so it is when a property is added,                                      *)
LEMMA AddsToSheet ==
  ASSUME NEW v, Sheet(v), NEW k \in Chars, NEW t, NEW w \in Single, Says(t, w)
  PROVE  Became(v, k, w, AddElementKey(v, k, t))
  <1>1. v.type = "OBJECT"
    BY DEF Sheet, Listed, Object, Value
  <1>2. PICK r : r = AddElementKey(v, k, t)
    OBVIOUS
  <1>3. AddedKey(v, k, w, r)
    <2>1. v.type # "MAX"
      BY ONLY <1>1
    <2>2. AddedKey(v, k, w, AddElementKey(v, k, t))
      BY ONLY <2>1, Says(t, w), AddElementKeyIs
    <2> QED
      BY ONLY <1>2, <2>2
  <1>4. IsKeyExist(v, k) <=> GetKeyIndex(v, k) # 0
    BY DEF IsKeyExist
  <1>5. CASE IsKeyExist(v, k)
    <2>1. r = [v EXCEPT !.kids[GetKeyIndex(v, k)] = w]
      BY ONLY <1>1, <1>3, <1>4, <1>5 DEF AddedKey
    <2>2. Became(v, k, w, r)
      BY ONLY <1>5, <2>1, Sheet(v), w \in Single, SheetReplaced
    <2> QED
      BY ONLY <1>2, <2>2
  <1>6. CASE ~IsKeyExist(v, k)
    <2>1. r = Object(Append(v.keys, k), Append(v.kids, w))
      BY ONLY <1>1, <1>3, <1>4, <1>6 DEF AddedKey
    <2>2. Became(v, k, w, r)
      BY ONLY <1>6, <2>1, Sheet(v), k \in Chars, w \in Single, SheetGrown
    <2> QED
      BY ONLY <1>2, <2>2
  <1> QED
    BY ONLY <1>5, <1>6

(* and when one that is there is assigned.                                 *)
LEMMA AssignsOnSheet ==
  ASSUME NEW v, Sheet(v), NEW k, IsKeyExist(v, k), NEW w \in Single
  PROVE  Became(v, k, w, Assign(v, k, w))
  <1>1. v.type = "OBJECT"
    BY DEF Sheet, Listed, Object, Value
  <1>2. PICK r : r = Assign(v, k, w)
    OBVIOUS
  <1>3. r = [v EXCEPT !.kids[GetKeyIndex(v, k)] = w]
    <2>1. ~(v.type # "OBJECT")
      BY ONLY <1>1
    <2> QED
      BY ONLY <1>2, <2>1, IsKeyExist(v, k), Zenon DEF Assign
  <1>4. Became(v, k, w, r)
    BY ONLY <1>3, Sheet(v), IsKeyExist(v, k), w \in Single, SheetReplaced
  <1> QED
    BY ONLY <1>2, <1>4

(* The object without properties is the first sheet.                       *)
LEMMA EmptySheet == Sheet(Object(<<>>, <<>>)) /\ \A k : ~IsKeyExist(Object(<<>>, <<>>), k)
  <1>1. PICK v, n, s : v = Object(<<>>, <<>>) /\ n = 0 /\ s = <<>>
    OBVIOUS
  <1>2. s \in Seq(Chars) /\ s \in Seq(Single) /\ Len(s) = 0
    BY ONLY <1>1
  <1>3. Listed(v, n, s, s)
    BY ONLY <1>1, <1>2 DEF Listed
  <1>4. ASSUME NEW k PROVE ~IsKeyExist(v, k)
    <2>1. IsKeyExist(v, k) <=> \E i \in 1 .. n : s[i] = k
      BY ONLY <1>3, OnSheet
    <2> QED
      BY ONLY <1>1, <2>1
  <1> QED
    BY <1>1, <1>3, <1>4 DEF Sheet

(* Two changes, and three, one after another.                              *)
LEMMA TwoChanges ==
  ASSUME NEW v, NEW a, NEW x, NEW v1, Became(v, a, x, v1), NEW b, b # a, NEW y, NEW r,
         Became(v1, b, y, r)
  PROVE  /\ Sheet(r) /\ IsKeyExist(r, a) /\ At(r, a) = x /\ IsKeyExist(r, b) /\ At(r, b) = y
         /\ \A j : j \notin {a, b} => SameAt(v, r, j)
  BY DEF Became, SameAt

(* The same for three changes.                                             *)
LEMMA ThreeChanges ==
  ASSUME NEW v, NEW a, NEW x, NEW v1, Became(v, a, x, v1), NEW b, b # a, NEW y, NEW v2,
         Became(v1, b, y, v2), NEW c, c # a, c # b, NEW z, NEW r, Became(v2, c, z, r)
  PROVE  /\ Sheet(r) /\ IsKeyExist(r, a) /\ At(r, a) = x /\ IsKeyExist(r, b) /\ At(r, b) = y
         /\ IsKeyExist(r, c) /\ At(r, c) = z
         /\ \A j : j \notin {a, b, c} => SameAt(v, r, j)
  <1>1. /\ Sheet(v2) /\ IsKeyExist(v2, a) /\ At(v2, a) = x /\ IsKeyExist(v2, b) /\ At(v2, b) = y
        /\ \A j : j \notin {a, b} => SameAt(v, v2, j)
    BY ONLY Became(v, a, x, v1), b # a, Became(v1, b, y, v2), TwoChanges
  <1> QED
    BY <1>1 DEF Became, SameAt

(* Short texts.                                                            *)
LEMMA Short ==
  /\ <<>> \in Chars
  /\ \A c \in Char : <<c>> \in Chars
  /\ \A c, e \in Char : <<c, e>> \in Chars
  <1>1. PICK S : S = Char
    OBVIOUS
  <1>2. <<>> \in Seq(S) /\ \A c \in S : <<c>> \in Seq(S)
    OBVIOUS
  <1>3. \A c, e \in S : <<c, e>> \in Seq(S)
    OBVIOUS
  <1> QED
    BY ONLY <1>1, <1>2, <1>3 DEF Chars

(* What can be a single value.                                             *)
LEMMA SinglesAre ==
  /\ \A raw \in Chars : Str(raw) \in Single
  /\ \A t \in Chars : SetStr(t, TRUE) \in Single /\ Stored(t, TRUE) \in Chars
  /\ \A n \in Nat : SetInt(n) \in Single
  /\ Value("BOOL", <<"true">>, <<>>, <<>>) \in Single
  <1>1. ASSUME NEW raw \in Chars PROVE Str(raw) \in Single
    BY DEF Single, Str, Value, Type
  <1>2. ASSUME NEW t \in Chars PROVE SetStr(t, TRUE) \in Single /\ Stored(t, TRUE) \in Chars
    <2>1. MayStore(t, TRUE)
      BY DEF MayStore
    <2>2. PICK yes \in BOOLEAN : yes = TRUE
      OBVIOUS
    <2>3. Stored(t, yes) \in Escaped
      BY ONLY <2>1, <2>2, t \in Chars, StoredIsEscaped
    <2>4. Stored(t, TRUE) \in Chars
      BY ONLY <2>2, <2>3 DEF Escaped
    <2> QED
      BY ONLY <1>1, <2>4 DEF SetStr
  <1>3. ASSUME NEW n \in Nat PROVE SetInt(n) \in Single
    <2>1. Printed(n) \in Seq(Digit)
      BY PrintedAre
    <2>2. PICK s \in Seq(Digit) : s = Printed(n)
      BY ONLY <2>1
    <2>3. s \in Chars
      <3>1. Digit \subseteq Char
        BY CharAssumption
      <3>2. s \in Seq(Char)
        BY ONLY <3>1, s \in Seq(Digit)
      <3> QED
        BY ONLY <3>2 DEF Chars
    <2>4. Value("DIGITAL", s, <<>>, <<>>) \in Single
      BY ONLY <2>3 DEF Single, Value, Type
    <2> QED
      BY ONLY <2>2, <2>3, <2>4 DEF SetInt
  <1>4. Value("BOOL", <<"true">>, <<>>, <<>>) \in Single
    <2>1. <<"true">> \in Chars
      BY ONLY CharAssumption, Short DEF Bool
    <2> QED
      BY ONLY <2>1 DEF Single, Value, Type
  <1> QED
    BY ONLY <1>1, <1>2, <1>3, <1>4

(* What is read where a number or a text was stored.                       *)
LEMMA NumberIsRead ==
  ASSUME NEW n \in Nat, n <= 999999999
  PROVE  ToInt(SetInt(n)) = n
  <1>1. Atoi(Digits(n)) = n
    BY n <= 2147483647, NumberComesBack, SMT
  <1>2. Printed(n) = Digits(n)
    BY PrintedIs, SMT
  <1>3. SetInt(n).val = Printed(n)
    BY ONLY Zenon DEF SetInt, Value
  <1> QED
    BY ONLY <1>1, <1>2, <1>3, Zenon DEF ToInt

(* A text is read from a STRING as it was written.                         *)
LEMMA TextIsRead ==
  ASSUME NEW t \in Chars
  PROVE  SetStr(t, TRUE).type = "STRING" /\ ToStr(SetStr(t, TRUE)) = t
  <1>1. MayStore(t, TRUE)
    BY DEF MayStore
  <1>2. PICK yes \in BOOLEAN : yes = TRUE
    OBVIOUS
  <1>3. Decode(Stored(t, yes)) = t
    BY ONLY <1>1, <1>2, t \in Chars, StoredIsEscaped
  <1>4. SetStr(t, TRUE).type = "STRING" /\ SetStr(t, TRUE).val = Stored(t, TRUE)
    BY DEF SetStr, Str, Value
  <1> QED
    BY ONLY <1>2, <1>3, <1>4 DEF ToStr

(* No and yes.                                                             *)
LEMMA YesAndNo ==
  /\ <<"false">> \in Chars /\ ~ToBool(SetStr(<<"false">>, TRUE))
  /\ ToBool(Value("BOOL", <<"true">>, <<>>, <<>>))
  <1>1. PICK t \in Chars : t = <<"false">>
    BY ONLY CharAssumption, Short DEF Bool
  <1>2. Encode(t) = t
    <2>1. PICK u \in [0 .. Len(t) -> Chars] :
            /\ u[0] = <<>>
            /\ \A i \in 1 .. Len(t) : u[i] = u[i - 1] \o EncodeChar(t[i])
            /\ Encode(t) = u[Len(t)]
      BY EncodeIs
    <2>2. Len(t) = 1 /\ t[1] = "false" /\ 1 \in 1 .. Len(t) /\ 1 - 1 = 0
      BY ONLY <1>1
    <2>3. PICK c : c = "false"
      OBVIOUS
    <2>4. EncodeChar(c) = <<c>>
      <3>1. c # Quote /\ c # Backslash /\ c # "\n"
        BY ONLY <2>3 DEF Quote, Backslash
      <3> QED
        BY ONLY <3>1, Zenon DEF EncodeChar
    <2>5. u[1] = u[0] \o <<c>>
      BY ONLY <2>1, <2>2, <2>3, <2>4
    <2>6. u[1] = <<c>>
      BY ONLY <2>1, <2>5
    <2> QED
      BY ONLY <1>1, <2>1, <2>2, <2>3, <2>6
  <1>3. Stored(t, TRUE) = t
    BY ONLY <1>2 DEF Stored
  <1>4. PICK w : w = SetStr(t, TRUE)
    OBVIOUS
  <1>5. w.val = t
    BY ONLY <1>3, <1>4 DEF SetStr, Str, Value
  <1>6. t[1] # "true"
    BY ONLY <1>1
  <1>7. ~ToBool(w)
    BY ONLY <1>5, <1>6 DEF ToBool
  <1>8. ToBool(Value("BOOL", <<"true">>, <<>>, <<>>))
    BY DEF ToBool, Value
  <1> QED
    BY ONLY <1>1, <1>4, <1>7, <1>8

(* AddProperty adds a text to a sheet,                                     *)
LEMMA AddsText ==
  ASSUME NEW v, Sheet(v), NEW k \in Chars, NEW t \in Chars
  PROVE  Became(v, k, SetStr(t, TRUE), AddProperty(v, k, t, TRUE))
  <1>1. PICK yes \in BOOLEAN : yes = TRUE
    OBVIOUS
  <1>2. MayStore(t, yes)
    BY <1>1 DEF MayStore
  <1>3. Says(Quoted(Stored(t, yes)), SetStr(t, yes))
    BY ONLY <1>2, t \in Chars, yes \in BOOLEAN, TextSays
  <1>4. PICK w \in Single : w = SetStr(t, TRUE)
    BY ONLY SinglesAre, t \in Chars
  <1>5. PICK s : s = Quoted(Stored(t, TRUE))
    OBVIOUS
  <1>6. Says(s, w)
    BY ONLY <1>1, <1>3, <1>4, <1>5
  <1>7. Became(v, k, w, AddElementKey(v, k, s))
    BY ONLY <1>6, Sheet(v), k \in Chars, w \in Single, AddsToSheet
  <1> QED
    BY ONLY <1>4, <1>5, <1>7 DEF AddProperty

(* and AddPropertyInt a number.                                            *)
LEMMA AddsNumber ==
  ASSUME NEW v, Sheet(v), NEW k \in Chars, NEW n \in Nat
  PROVE  Became(v, k, SetInt(n), AddPropertyInt(v, k, n))
  <1>1. PICK w \in Single : w = SetInt(n)
    BY ONLY SinglesAre, n \in Nat
  <1>2. PICK s : s = Printed(n)
    OBVIOUS
  <1>3. Says(Printed(n), SetInt(n))
    BY ONLY n \in Nat, NumberSays
  <1>4. Says(s, w)
    BY ONLY <1>1, <1>2, <1>3
  <1>5. Became(v, k, w, AddElementKey(v, k, s))
    BY ONLY <1>4, Sheet(v), k \in Chars, w \in Single, AddsToSheet
  <1> QED
    BY ONLY <1>1, <1>2, <1>5 DEF AddPropertyInt

(* The keys that a question has for a column.                              *)
Flag(col) == IF col \in TextColumn THEN CheckKey(col) ELSE BoolKey(col)
FlagKey(col) == K(Flag(col))
KeysOf(col) ==
  IF col \in TextColumn THEN {FlagKey(col), FromKey(col)}
                        ELSE {FlagKey(col), FromKey(col), ToKey(col)}

(* Their names.                                                            *)
LEMMA Flags ==
  /\ Flag("goodsType") = "bGoodsType" /\ Flag("goodsID") = "bGoodsID"
  /\ Flag("goodsProperty") = "bGoodsProperty" /\ Flag("cost") = "bCost"
  /\ Flag("costoff") = "bCostoff" /\ Flag("putInTime") = "bPutInTime"
  /\ Flag("goodsName") = "iGoodsName" /\ Flag("goodsSIC") = "iGoodsSIC"
  BY DEF Flag, TextColumn, CheckKey, BoolKey

(* There are eight columns.                                                *)
LEMMA Columns8 ==
  ASSUME NEW col \in AllColumn
  PROVE  \/ col = "goodsType" \/ col = "goodsID" \/ col = "goodsProperty" \/ col = "cost"
         \/ col = "costoff" \/ col = "putInTime" \/ col = "goodsName" \/ col = "goodsSIC"
  BY DEF AllColumn, NumberColumn, TextColumn

(* No two columns share a key.                                             *)
LEMMA KeysDiffer ==
  ASSUME NEW col \in AllColumn
  PROVE  /\ KeysOf(col) \subseteq Chars /\ FlagKey(col) \in Chars /\ FromKey(col) \in Chars
         /\ ToKey(col) \in Chars
         /\ FlagKey(col) # FromKey(col) /\ FlagKey(col) # ToKey(col) /\ FromKey(col) # ToKey(col)
         /\ \A d \in AllColumn : d # col => KeysOf(d) \cap KeysOf(col) = {}
  <1>1. \A d \in AllColumn : Flag(d) = Flag(col) => d = col
    BY Flags, Columns8
  <1>2. \A d \in AllColumn : d \in Char /\ Flag(d) \in Char /\ "From" \in Char /\ "To" \in Char
    BY Flags, Columns8, NameAssumption
  <1>3. \A d : FlagKey(d) = <<Flag(d)>> /\ FromKey(d) = <<d, "From">> /\ ToKey(d) = <<d, "To">>
    BY DEF FlagKey, K, FromKey, ToKey
  <1>4. \A d \in AllColumn : FlagKey(d) \in Chars /\ FromKey(d) \in Chars /\ ToKey(d) \in Chars
    BY ONLY <1>2, <1>3, Short
  <1>5. \A d \in AllColumn : KeysOf(d) \subseteq {FlagKey(d), FromKey(d), ToKey(d)}
    BY ONLY Zenon DEF KeysOf
  <1>6. \A a, b, c, e : /\ <<a>> # <<b, "From">> /\ <<a>> # <<b, "To">>
                        /\ <<a>> = <<b>> => a = b
                        /\ <<b, "From">> # <<c, "To">>
                        /\ <<b, "From">> = <<c, "From">> => b = c
                        /\ <<b, "To">> = <<c, "To">> => b = c
    OBVIOUS
  <1>7. ASSUME NEW d \in AllColumn, d # col, NEW k \in KeysOf(d) PROVE k \notin KeysOf(col)
    <2>1. k = <<Flag(d)>> \/ k = <<d, "From">> \/ k = <<d, "To">>
      BY ONLY <1>3, <1>5, <1>7
    <2>2. k \in KeysOf(col) => k = <<Flag(col)>> \/ k = <<col, "From">> \/ k = <<col, "To">>
      BY ONLY <1>3, <1>5, col \in AllColumn
    <2>3. Flag(d) # Flag(col)
      BY ONLY <1>1, <1>7
    <2> QED
      BY ONLY <1>6, <1>7, <2>1, <2>2, <2>3
  <1>8. FlagKey(col) # FromKey(col) /\ FlagKey(col) # ToKey(col) /\ FromKey(col) # ToKey(col)
    BY ONLY <1>3, <1>6
  <1>9. KeysOf(col) \subseteq Chars
    BY ONLY <1>4, <1>5, col \in AllColumn
  <1> QED
    BY ONLY <1>4, <1>7, <1>8, <1>9, col \in AllColumn

(* A question has every key, and one column of it is changed.              *)
Complete(v) == Sheet(v) /\ \A col \in AllColumn : \A k \in KeysOf(col) : IsKeyExist(v, k)
Changes(v, r, col) ==
  /\ Sheet(r)
  /\ \A k \in KeysOf(col) : IsKeyExist(r, k)
  /\ \A k : k \notin KeysOf(col) => SameAt(v, r, k)

(* What a question asks of a column.                                       *)
Item(q, col) == SetCheckItems(q)[col]

(* setCheckItems reads each column by its kind.                            *)
LEMMA ItemIs ==
  ASSUME NEW q, NEW col \in AllColumn
  PROVE  /\ col \in NumberColumn => Item(q, col) = RangeItem(q, col)
         /\ col \in TextColumn => Item(q, col) = TextItem(q, col)
         /\ col = "putInTime" => Item(q, col) = TimeItem(q)
  <1>1. Item(q, col) = IF col \in NumberColumn THEN RangeItem(q, col)
                       ELSE IF col \in TextColumn THEN TextItem(q, col)
                       ELSE TimeItem(q)
    BY Zenon DEF Item, SetCheckItems
  <1>2. /\ col \in TextColumn => col \notin NumberColumn
        /\ col = "putInTime" => col \notin NumberColumn /\ col \notin TextColumn
    BY DEF NumberColumn, TextColumn
  <1> QED
    BY ONLY <1>1, <1>2

(* What a question asks of a column is in the keys of the column.          *)
LEMMA SameItem ==
  ASSUME NEW q, NEW r, NEW col \in AllColumn, \A k \in KeysOf(col) : At(r, k) = At(q, k)
  PROVE  Item(r, col) = Item(q, col)
  <1>1. col \in NumberColumn \/ col \in TextColumn \/ col = "putInTime"
    BY DEF AllColumn
  <1>2. CASE col \in NumberColumn
    <2>1. KeysOf(col) = {K(BoolKey(col)), FromKey(col), ToKey(col)}
      BY ONLY <1>2 DEF KeysOf, FlagKey, Flag, NumberColumn, TextColumn
    <2>2. RangeItem(r, col) = RangeItem(q, col)
      BY ONLY <2>1, \A k \in KeysOf(col) : At(r, k) = At(q, k) DEF RangeItem
    <2> QED
      BY ONLY <1>2, <2>2, col \in AllColumn, ItemIs
  <1>3. CASE col \in TextColumn
    <2>1. KeysOf(col) = {K(CheckKey(col)), FromKey(col)}
      BY ONLY <1>3 DEF KeysOf, FlagKey, Flag
    <2>2. TextItem(r, col) = TextItem(q, col)
      BY ONLY <2>1, \A k \in KeysOf(col) : At(r, k) = At(q, k) DEF TextItem
    <2> QED
      BY ONLY <1>3, <2>2, col \in AllColumn, ItemIs
  <1>4. CASE col = "putInTime"
    <2>1. KeysOf(col) = {K("bPutInTime"), FromKey("putInTime"), ToKey("putInTime")}
      BY ONLY <1>4, Flags DEF KeysOf, FlagKey, TextColumn
    <2>2. TimeItem(r) = TimeItem(q)
      BY ONLY <2>1, \A k \in KeysOf(col) : At(r, k) = At(q, k) DEF TimeItem
    <2> QED
      BY ONLY <1>4, <2>2, col \in AllColumn, ItemIs
  <1> QED
    BY ONLY <1>1, <1>2, <1>3, <1>4

(* A change of one column leaves the others as they were.                  *)
LEMMA OthersStay ==
  ASSUME NEW v, NEW r, NEW col \in AllColumn, Changes(v, r, col),
         NEW d \in AllColumn, d # col, \A k \in KeysOf(d) : IsKeyExist(v, k)
  PROVE  (\A k \in KeysOf(d) : IsKeyExist(r, k)) /\ Item(r, d) = Item(v, d)
  <1>1. \A k \in KeysOf(d) : SameAt(v, r, k)
    <2>1. \A e \in AllColumn : e # col => KeysOf(e) \cap KeysOf(col) = {}
      BY ONLY col \in AllColumn, KeysDiffer
    <2> QED
      BY ONLY <2>1, d \in AllColumn, d # col, Changes(v, r, col) DEF Changes
  <1>2. \A k \in KeysOf(d) : IsKeyExist(r, k) /\ At(r, k) = At(v, k)
    BY ONLY <1>1, \A k \in KeysOf(d) : IsKeyExist(v, k) DEF SameAt
  <1>3. Item(r, d) = Item(v, d)
    BY ONLY <1>2, d \in AllColumn, SameItem
  <1> QED
    BY ONLY <1>2, <1>3

(* A question to which a column is added does not ask for it: a number,    *)
LEMMA AddRangeIs ==
  ASSUME NEW v, Sheet(v), NEW col \in NumberColumn
  PROVE  Changes(v, AddRange(v, col), col) /\ Item(AddRange(v, col), col).mode = "NOCHECK"
  <1>0. col \in AllColumn
    BY DEF AllColumn
  <1>1. /\ FlagKey(col) \in Chars /\ FromKey(col) \in Chars /\ ToKey(col) \in Chars
        /\ FlagKey(col) # FromKey(col) /\ FlagKey(col) # ToKey(col) /\ FromKey(col) # ToKey(col)
    BY ONLY <1>0, KeysDiffer
  <1>2. PICK a \in Chars, b \in Chars, c \in Chars :
          a = FlagKey(col) /\ b = FromKey(col) /\ c = ToKey(col) /\ b # a /\ c # a /\ c # b
    BY ONLY <1>1
  <1>3. KeysOf(col) = {a, b, c} /\ K(BoolKey(col)) = a
    BY ONLY <1>2, col \in NumberColumn DEF KeysOf, FlagKey, Flag, NumberColumn, TextColumn
  <1>4. PICK no \in Chars : no = <<"false">> /\ ~ToBool(SetStr(no, TRUE))
    BY ONLY YesAndNo
  <1>5. PICK zero \in Nat : zero = 0
    OBVIOUS
  <1>6. PICK v1 : v1 = AddProperty(v, a, no, TRUE)
    OBVIOUS
  <1>7. PICK v2 : v2 = AddPropertyInt(v1, b, zero)
    OBVIOUS
  <1>8. PICK r : r = AddPropertyInt(v2, c, zero)
    OBVIOUS
  <1>9. PICK x : x = SetStr(no, TRUE)
    OBVIOUS
  <1>10. PICK y : y = SetInt(zero)
    OBVIOUS
  <1>11. Became(v, a, x, v1)
    BY ONLY <1>6, <1>9, Sheet(v), a \in Chars, no \in Chars, AddsText
  <1>12. Became(v1, b, y, v2)
    <2>1. Sheet(v1)
      BY ONLY <1>11 DEF Became
    <2> QED
      BY ONLY <1>7, <1>10, <2>1, b \in Chars, zero \in Nat, AddsNumber
  <1>13. Became(v2, c, y, r)
    <2>1. Sheet(v2)
      BY ONLY <1>12 DEF Became
    <2> QED
      BY ONLY <1>8, <1>10, <2>1, c \in Chars, zero \in Nat, AddsNumber
  <1>14. /\ Sheet(r) /\ IsKeyExist(r, a) /\ At(r, a) = x /\ IsKeyExist(r, b) /\ IsKeyExist(r, c)
         /\ \A j : j \notin {a, b, c} => SameAt(v, r, j)
    BY ONLY <1>2, <1>11, <1>12, <1>13, ThreeChanges
  <1>15. Changes(v, r, col)
    BY ONLY <1>3, <1>14 DEF Changes
  <1>16. Item(r, col).mode = "NOCHECK"
    <2>1. Item(r, col) = RangeItem(r, col)
      BY ONLY <1>0, col \in NumberColumn, ItemIs
    <2>2. RangeItem(r, col) = NoCriterion
      BY ONLY <1>3, <1>4, <1>9, <1>14 DEF RangeItem
    <2> QED
      BY ONLY <2>1, <2>2 DEF NoCriterion, Criterion
  <1>17. AddRange(v, col) = r
    BY ONLY <1>2, <1>3, <1>4, <1>5, <1>6, <1>7, <1>8 DEF AddRange
  <1> QED
    BY ONLY <1>15, <1>16, <1>17
(* a text,                                                                 *)
LEMMA AddCheckIs ==
  ASSUME NEW v, Sheet(v), NEW col \in TextColumn
  PROVE  Changes(v, AddCheck(v, col), col) /\ Item(AddCheck(v, col), col).mode = "NOCHECK"
  <1>0. col \in AllColumn
    BY DEF AllColumn
  <1>1. FlagKey(col) \in Chars /\ FromKey(col) \in Chars /\ FlagKey(col) # FromKey(col)
    BY ONLY <1>0, KeysDiffer
  <1>2. PICK a \in Chars, b \in Chars : a = FlagKey(col) /\ b = FromKey(col) /\ b # a
    BY ONLY <1>1
  <1>3. KeysOf(col) = {a, b} /\ K(CheckKey(col)) = a
    BY ONLY <1>2, col \in TextColumn DEF KeysOf, FlagKey, Flag
  <1>4. PICK none \in Chars : none = <<>>
    BY ONLY Short
  <1>5. PICK zero \in Nat : zero = 0 /\ ToInt(SetInt(zero)) = 0
    <2>1. PICK zero \in Nat : zero = 0
      OBVIOUS
    <2>2. zero <= 999999999
      BY ONLY <2>1, SMT
    <2>3. ToInt(SetInt(zero)) = zero
      BY ONLY <2>2, zero \in Nat, NumberIsRead, SMT
    <2> QED
      BY ONLY <2>1, <2>3
  <1>6. PICK v1 : v1 = AddPropertyInt(v, a, zero)
    OBVIOUS
  <1>7. PICK r : r = AddProperty(v1, b, none, TRUE)
    OBVIOUS
  <1>8. PICK x : x = SetInt(zero)
    OBVIOUS
  <1>9. PICK y : y = SetStr(none, TRUE)
    OBVIOUS
  <1>10. Became(v, a, x, v1)
    BY ONLY <1>6, <1>8, Sheet(v), a \in Chars, zero \in Nat, AddsNumber
  <1>11. Became(v1, b, y, r)
    <2>1. Sheet(v1)
      BY ONLY <1>10 DEF Became
    <2> QED
      BY ONLY <1>7, <1>9, <2>1, b \in Chars, none \in Chars, AddsText
  <1>12. /\ Sheet(r) /\ IsKeyExist(r, a) /\ At(r, a) = x /\ IsKeyExist(r, b)
         /\ \A j : j \notin {a, b} => SameAt(v, r, j)
    BY ONLY <1>2, <1>10, <1>11, TwoChanges
  <1>13. Changes(v, r, col)
    BY ONLY <1>3, <1>12 DEF Changes
  <1>14. Item(r, col).mode = "NOCHECK"
    <2>1. Item(r, col) = TextItem(r, col)
      BY ONLY <1>0, col \in TextColumn, ItemIs
    <2>2. TextItem(r, col) = NoCriterion
      BY ONLY <1>3, <1>5, <1>8, <1>12 DEF TextItem, NOCHECK
    <2> QED
      BY ONLY <2>1, <2>2 DEF NoCriterion, Criterion
  <1>15. AddCheck(v, col) = r
    BY ONLY <1>2, <1>3, <1>4, <1>5, <1>6, <1>7 DEF AddCheck, NOCHECK
  <1> QED
    BY ONLY <1>13, <1>14, <1>15
(* or the time.                                                            *)
LEMMA AddTimeIs ==
  ASSUME NEW v, Sheet(v)
  PROVE  /\ Changes(v, AddTime(v), "putInTime")
         /\ Item(AddTime(v), "putInTime").mode = "NOCHECK"
  <1>0. PICK col \in AllColumn : col = "putInTime"
    BY DEF AllColumn
  <1>1. /\ FlagKey(col) \in Chars /\ FromKey(col) \in Chars /\ ToKey(col) \in Chars
        /\ FlagKey(col) # FromKey(col) /\ FlagKey(col) # ToKey(col) /\ FromKey(col) # ToKey(col)
    BY ONLY col \in AllColumn, KeysDiffer
  <1>2. PICK a \in Chars, b \in Chars, c \in Chars :
          a = FlagKey(col) /\ b = FromKey(col) /\ c = ToKey(col) /\ b # a /\ c # a /\ c # b
    BY ONLY <1>1
  <1>3. KeysOf(col) = {a, b, c} /\ K("bPutInTime") = a
    BY ONLY <1>0, <1>2, Flags DEF KeysOf, FlagKey, TextColumn
  <1>4. PICK no \in Chars : no = <<"false">> /\ ~ToBool(SetStr(no, TRUE))
    BY ONLY YesAndNo
  <1>5. PICK none \in Chars : none = <<>>
    BY ONLY Short
  <1>6. PICK v1 : v1 = AddProperty(v, a, no, TRUE)
    OBVIOUS
  <1>7. PICK v2 : v2 = AddProperty(v1, b, none, TRUE)
    OBVIOUS
  <1>8. PICK r : r = AddProperty(v2, c, none, TRUE)
    OBVIOUS
  <1>9. PICK x : x = SetStr(no, TRUE)
    OBVIOUS
  <1>10. PICK y : y = SetStr(none, TRUE)
    OBVIOUS
  <1>11. Became(v, a, x, v1)
    BY ONLY <1>6, <1>9, Sheet(v), a \in Chars, no \in Chars, AddsText
  <1>12. Became(v1, b, y, v2)
    <2>1. Sheet(v1)
      BY ONLY <1>11 DEF Became
    <2> QED
      BY ONLY <1>7, <1>10, <2>1, b \in Chars, none \in Chars, AddsText
  <1>13. Became(v2, c, y, r)
    <2>1. Sheet(v2)
      BY ONLY <1>12 DEF Became
    <2> QED
      BY ONLY <1>8, <1>10, <2>1, c \in Chars, none \in Chars, AddsText
  <1>14. /\ Sheet(r) /\ IsKeyExist(r, a) /\ At(r, a) = x /\ IsKeyExist(r, b) /\ IsKeyExist(r, c)
         /\ \A j : j \notin {a, b, c} => SameAt(v, r, j)
    BY ONLY <1>2, <1>11, <1>12, <1>13, ThreeChanges
  <1>15. Changes(v, r, col)
    BY ONLY <1>3, <1>14 DEF Changes
  <1>16. Item(r, col).mode = "NOCHECK"
    <2>1. Item(r, col) = TimeItem(r)
      BY ONLY <1>0, col \in AllColumn, ItemIs
    <2>2. TimeItem(r) = NoCriterion
      BY ONLY <1>3, <1>4, <1>9, <1>14 DEF TimeItem
    <2> QED
      BY ONLY <2>1, <2>2 DEF NoCriterion, Criterion
  <1>17. AddTime(v) = r
    BY ONLY <1>0, <1>2, <1>3, <1>4, <1>5, <1>6, <1>7, <1>8 DEF AddTime
  <1> QED
    BY ONLY <1>0, <1>15, <1>16, <1>17

(* Columns that a question has and does not ask for.                       *)
Unasked(v, C) ==
  /\ Sheet(v)
  /\ \A col \in C : /\ \A k \in KeysOf(col) : IsKeyExist(v, k)
                    /\ Item(v, col).mode = "NOCHECK"

(* A column that is added without being asked for joins them.              *)
LEMMA OneColumnMore ==
  ASSUME NEW C \in SUBSET AllColumn, NEW v, Unasked(v, C), NEW col \in AllColumn,
         NEW r, Changes(v, r, col), Item(r, col).mode = "NOCHECK"
  PROVE  Unasked(r, C \union {col})
  <1>1. ASSUME NEW d \in C, d # col
        PROVE  (\A k \in KeysOf(d) : IsKeyExist(r, k)) /\ Item(r, d).mode = "NOCHECK"
    <2>1. d \in AllColumn /\ (\A k \in KeysOf(d) : IsKeyExist(v, k)) /\ Item(v, d).mode = "NOCHECK"
      BY ONLY <1>1, C \in SUBSET AllColumn, Unasked(v, C) DEF Unasked
    <2>2. (\A k \in KeysOf(d) : IsKeyExist(r, k)) /\ Item(r, d) = Item(v, d)
      BY ONLY <1>1, <2>1, col \in AllColumn, Changes(v, r, col), OthersStay
    <2> QED
      BY ONLY <2>1, <2>2
  <1>2. Sheet(r) /\ \A k \in KeysOf(col) : IsKeyExist(r, k)
    BY ONLY Changes(v, r, col) DEF Changes
  <1> QED
    BY ONLY <1>1, <1>2, Item(r, col).mode = "NOCHECK" DEF Unasked

(* The question of the control thread asks for nothing at first.           *)
LEMMA NothingAsked ==
  Complete(NoQuestion) /\ \A col \in AllColumn : Item(NoQuestion, col).mode = "NOCHECK"
  <1>1. ASSUME NEW C \in SUBSET AllColumn, NEW v, Unasked(v, C), NEW col \in NumberColumn
        PROVE  Unasked(AddRange(v, col), C \union {col})
    <2>1. Sheet(v) /\ col \in AllColumn
      BY ONLY Unasked(v, C), col \in NumberColumn DEF Unasked, AllColumn
    <2>2. PICK r : r = AddRange(v, col)
      OBVIOUS
    <2>3. Changes(v, r, col) /\ Item(r, col).mode = "NOCHECK"
      BY ONLY <2>1, <2>2, col \in NumberColumn, AddRangeIs
    <2> QED
      BY ONLY <2>1, <2>2, <2>3, C \in SUBSET AllColumn, Unasked(v, C), OneColumnMore
  <1>2. ASSUME NEW C \in SUBSET AllColumn, NEW v, Unasked(v, C), NEW col \in TextColumn
        PROVE  Unasked(AddCheck(v, col), C \union {col})
    <2>1. Sheet(v) /\ col \in AllColumn
      BY ONLY Unasked(v, C), col \in TextColumn DEF Unasked, AllColumn
    <2>2. PICK r : r = AddCheck(v, col)
      OBVIOUS
    <2>3. Changes(v, r, col) /\ Item(r, col).mode = "NOCHECK"
      BY ONLY <2>1, <2>2, col \in TextColumn, AddCheckIs
    <2> QED
      BY ONLY <2>1, <2>2, <2>3, C \in SUBSET AllColumn, Unasked(v, C), OneColumnMore
  <1>3. ASSUME NEW C \in SUBSET AllColumn, NEW v, Unasked(v, C)
        PROVE  Unasked(AddTime(v), C \union {"putInTime"})
    <2>1. Sheet(v)
      BY ONLY Unasked(v, C) DEF Unasked
    <2>2. PICK r : r = AddTime(v)
      OBVIOUS
    <2>3. PICK col \in AllColumn : col = "putInTime"
      BY DEF AllColumn
    <2>4. Changes(v, r, col) /\ Item(r, col).mode = "NOCHECK"
      BY ONLY <2>1, <2>2, <2>3, AddTimeIs
    <2>5. Unasked(r, C \union {col})
      BY ONLY <2>4, col \in AllColumn, C \in SUBSET AllColumn, Unasked(v, C), OneColumnMore
    <2> QED
      BY ONLY <2>2, <2>3, <2>5
  <1>4. PICK C0, C1, C2, C3, C4, C5, C6, C7, C8 :
          /\ C0 = {} /\ C1 = C0 \union {"goodsProperty"} /\ C2 = C1 \union {"goodsType"}
          /\ C3 = C2 \union {"goodsName"} /\ C4 = C3 \union {"putInTime"}
          /\ C5 = C4 \union {"goodsID"} /\ C6 = C5 \union {"costoff"}
          /\ C7 = C6 \union {"cost"} /\ C8 = C7 \union {"goodsSIC"}
    OBVIOUS
  <1>5. /\ {C0, C1, C2, C3, C4, C5, C6, C7} \subseteq SUBSET AllColumn /\ C8 = AllColumn
        /\ {"goodsProperty", "goodsType", "goodsID", "costoff", "cost"} \subseteq NumberColumn
        /\ "goodsName" \in TextColumn /\ "goodsSIC" \in TextColumn
    BY ONLY <1>4 DEF AllColumn, NumberColumn, TextColumn
  <1>6. PICK v0, v1, v2, v3, v4, v5, v6, v7, v8 :
          /\ v0 = Object(<<>>, <<>>) /\ v1 = AddRange(v0, "goodsProperty")
          /\ v2 = AddRange(v1, "goodsType") /\ v3 = AddCheck(v2, "goodsName")
          /\ v4 = AddTime(v3) /\ v5 = AddRange(v4, "goodsID")
          /\ v6 = AddRange(v5, "costoff") /\ v7 = AddRange(v6, "cost")
          /\ v8 = AddCheck(v7, "goodsSIC")
    OBVIOUS
  <1>7. NoQuestion = v8
    BY ONLY <1>6, Zenon DEF NoQuestion, CreateJsonDate
  <1>8. Unasked(v0, C0)
    BY ONLY <1>4, <1>6, EmptySheet DEF Unasked
  <1>9. Unasked(v1, C1)
    BY ONLY <1>1, <1>4, <1>5, <1>6, <1>8
  <1>10. Unasked(v2, C2)
    BY ONLY <1>1, <1>4, <1>5, <1>6, <1>9
  <1>11. Unasked(v3, C3)
    BY ONLY <1>2, <1>4, <1>5, <1>6, <1>10
  <1>12. Unasked(v4, C4)
    BY ONLY <1>3, <1>4, <1>5, <1>6, <1>11
  <1>13. Unasked(v5, C5)
    BY ONLY <1>1, <1>4, <1>5, <1>6, <1>12
  <1>14. Unasked(v6, C6)
    BY ONLY <1>1, <1>4, <1>5, <1>6, <1>13
  <1>15. Unasked(v7, C7)
    BY ONLY <1>1, <1>4, <1>5, <1>6, <1>14
  <1>16. Unasked(v8, C8)
    BY ONLY <1>2, <1>4, <1>5, <1>6, <1>15
  <1> QED
    BY ONLY <1>5, <1>7, <1>16 DEF Unasked, Complete

(* A complete question stays complete.                                     *)
LEMMA StaysComplete ==
  ASSUME NEW v, Complete(v), NEW col \in AllColumn, NEW r, Changes(v, r, col)
  PROVE  /\ Complete(r)
         /\ \A d \in AllColumn : d # col => Item(r, d) = Item(v, d)
  <1>1. ASSUME NEW d \in AllColumn, d # col
        PROVE  (\A k \in KeysOf(d) : IsKeyExist(r, k)) /\ Item(r, d) = Item(v, d)
    <2>1. \A k \in KeysOf(d) : IsKeyExist(v, k)
      BY ONLY Complete(v), d \in AllColumn DEF Complete
    <2> QED
      BY ONLY <1>1, <2>1, col \in AllColumn, Changes(v, r, col), OthersStay
  <1>2. Sheet(r) /\ \A k \in KeysOf(col) : IsKeyExist(r, k)
    BY ONLY Changes(v, r, col) DEF Changes
  <1>3. \A d \in AllColumn : \A k \in KeysOf(d) : IsKeyExist(r, k)
    BY ONLY <1>1, <1>2
  <1> QED
    BY ONLY <1>1, <1>2, <1>3 DEF Complete

(* Three values of a column are assigned, or two.                          *)
LEMMA ThreeAssigned ==
  ASSUME NEW v, Complete(v), NEW col \in AllColumn, col \notin TextColumn,
         NEW x \in Single, NEW y \in Single, NEW z \in Single, NEW r,
         r = Assign(Assign(Assign(v, FlagKey(col), x), FromKey(col), y), ToKey(col), z)
  PROVE  /\ Changes(v, r, col)
         /\ At(r, FlagKey(col)) = x /\ At(r, FromKey(col)) = y /\ At(r, ToKey(col)) = z
  <1>1. FlagKey(col) # FromKey(col) /\ FlagKey(col) # ToKey(col) /\ FromKey(col) # ToKey(col)
    BY ONLY col \in AllColumn, KeysDiffer
  <1>2. PICK a, b, c : a = FlagKey(col) /\ b = FromKey(col) /\ c = ToKey(col) /\ b # a /\ c # a /\ c # b
    BY ONLY <1>1
  <1>3. KeysOf(col) = {a, b, c}
    BY ONLY <1>2, col \notin TextColumn DEF KeysOf
  <1>4. Sheet(v) /\ IsKeyExist(v, a) /\ IsKeyExist(v, b) /\ IsKeyExist(v, c)
    BY ONLY <1>3, Complete(v), col \in AllColumn DEF Complete
  <1>5. PICK v1 : v1 = Assign(v, a, x)
    OBVIOUS
  <1>6. PICK v2 : v2 = Assign(v1, b, y)
    OBVIOUS
  <1>7. r = Assign(v2, c, z)
    BY ONLY <1>2, <1>5, <1>6,
            r = Assign(Assign(Assign(v, FlagKey(col), x), FromKey(col), y), ToKey(col), z)
  <1>8. Became(v, a, x, v1)
    BY ONLY <1>4, <1>5, x \in Single, AssignsOnSheet
  <1>9. Became(v1, b, y, v2)
    <2>1. Sheet(v1) /\ IsKeyExist(v1, b)
      BY ONLY <1>2, <1>4, <1>8 DEF Became, SameAt
    <2> QED
      BY ONLY <1>6, <2>1, y \in Single, AssignsOnSheet
  <1>10. Became(v2, c, z, r)
    <2>1. Sheet(v2) /\ IsKeyExist(v2, c)
      BY ONLY <1>2, <1>4, <1>8, <1>9 DEF Became, SameAt
    <2> QED
      BY ONLY <1>7, <2>1, z \in Single, AssignsOnSheet
  <1>11. /\ Sheet(r) /\ IsKeyExist(r, a) /\ At(r, a) = x /\ IsKeyExist(r, b) /\ At(r, b) = y
         /\ IsKeyExist(r, c) /\ At(r, c) = z
         /\ \A j : j \notin {a, b, c} => SameAt(v, r, j)
    BY ONLY <1>2, <1>8, <1>9, <1>10, ThreeChanges
  <1>12. Changes(v, r, col)
    BY ONLY <1>3, <1>11 DEF Changes
  <1> QED
    BY ONLY <1>2, <1>11, <1>12

(* Two values are assigned: how, and the text that is searched for.        *)
LEMMA TwoAssigned ==
  ASSUME NEW v, Complete(v), NEW col \in TextColumn, NEW x \in Single, NEW y \in Single, NEW r,
         r = Assign(Assign(v, FlagKey(col), x), FromKey(col), y)
  PROVE  /\ Changes(v, r, col)
         /\ At(r, FlagKey(col)) = x /\ At(r, FromKey(col)) = y
  <1>0. col \in AllColumn
    BY DEF AllColumn
  <1>1. FlagKey(col) # FromKey(col)
    BY ONLY <1>0, KeysDiffer
  <1>2. PICK a, b : a = FlagKey(col) /\ b = FromKey(col) /\ b # a
    BY ONLY <1>1
  <1>3. KeysOf(col) = {a, b}
    BY ONLY <1>2, col \in TextColumn DEF KeysOf
  <1>4. Sheet(v) /\ IsKeyExist(v, a) /\ IsKeyExist(v, b)
    BY ONLY <1>0, <1>3, Complete(v) DEF Complete
  <1>5. PICK v1 : v1 = Assign(v, a, x)
    OBVIOUS
  <1>6. r = Assign(v1, b, y)
    BY ONLY <1>2, <1>5, r = Assign(Assign(v, FlagKey(col), x), FromKey(col), y)
  <1>7. Became(v, a, x, v1)
    BY ONLY <1>4, <1>5, x \in Single, AssignsOnSheet
  <1>8. Became(v1, b, y, r)
    <2>1. Sheet(v1) /\ IsKeyExist(v1, b)
      BY ONLY <1>2, <1>4, <1>7 DEF Became, SameAt
    <2> QED
      BY ONLY <1>6, <2>1, y \in Single, AssignsOnSheet
  <1>9. /\ Sheet(r) /\ IsKeyExist(r, a) /\ At(r, a) = x /\ IsKeyExist(r, b) /\ At(r, b) = y
        /\ \A j : j \notin {a, b} => SameAt(v, r, j)
    BY ONLY <1>2, <1>7, <1>8, TwoChanges
  <1>10. Changes(v, r, col)
    BY ONLY <1>3, <1>9 DEF Changes
  <1> QED
    BY ONLY <1>2, <1>9, <1>10

(* What is asked of a column is what the caller asked for.                 *)
Meets(item, c) ==
  /\ item.mode = c.mode
  /\ c.mode \in {"RANGE", "BETWEEN"} => item.from = c.from /\ item.to = c.to
  /\ c.mode \in {"FUZZY", "EXACT"} => item.from = c.from

(* A range of numbers,                                                     *)
LEMMA RangeIsAsked ==
  ASSUME NEW v, Complete(v), NEW col \in NumberColumn, NEW c, c.mode = "RANGE",
         c.from \in Nat, c.from <= 999999999, c.to \in Nat, c.to <= 999999999
  PROVE  Changes(v, Ask(v, col, c), col) /\ Meets(Item(Ask(v, col, c), col), c)
  <1>1. col \in AllColumn /\ col \notin TextColumn /\ K(BoolKey(col)) = FlagKey(col)
    BY DEF AllColumn, NumberColumn, TextColumn, FlagKey, Flag
  <1>2. PICK f \in Nat, t \in Nat : f = c.from /\ t = c.to
    BY ONLY c.from \in Nat, c.to \in Nat
  <1>3. f <= 999999999 /\ t <= 999999999
    BY ONLY <1>2, c.from <= 999999999, c.to <= 999999999, SMT
  <1>4. ToInt(SetInt(f)) = f
    BY ONLY <1>3, f \in Nat, NumberIsRead, SMT
  <1>5. ToInt(SetInt(t)) = t
    BY ONLY <1>3, t \in Nat, NumberIsRead, SMT
  <1>6. PICK x \in Single : x = Value("BOOL", <<"true">>, <<>>, <<>>) /\ ToBool(x)
    BY ONLY SinglesAre, YesAndNo
  <1>7. PICK y \in Single : y = SetInt(f)
    BY ONLY SinglesAre, f \in Nat
  <1>8. PICK z \in Single : z = SetInt(t)
    BY ONLY SinglesAre, t \in Nat
  <1>9. PICK r : r = Ask(v, col, c)
    OBVIOUS
  <1>10. r = Assign(Assign(Assign(v, FlagKey(col), x), FromKey(col), y), ToKey(col), z)
    <2>1. /\ c.mode # "NOCHECK" /\ c.mode # "BETWEEN" /\ c.mode \notin {"FUZZY", "EXACT"}
      BY ONLY c.mode = "RANGE"
    <2> QED
      BY ONLY <1>1, <1>2, <1>6, <1>7, <1>8, <1>9, <2>1, c.mode = "RANGE", Zenon DEF Ask
  <1>11. /\ Changes(v, r, col)
         /\ At(r, FlagKey(col)) = x /\ At(r, FromKey(col)) = y /\ At(r, ToKey(col)) = z
    BY ONLY <1>1, <1>10, Complete(v), x \in Single, y \in Single, z \in Single, ThreeAssigned
  <1>12. Item(r, col) = RangeItem(r, col)
    BY ONLY <1>1, col \in NumberColumn, ItemIs
  <1>13. RangeItem(r, col) = Criterion("RANGE", f, t)
    BY ONLY <1>1, <1>4, <1>5, <1>6, <1>7, <1>8, <1>11 DEF RangeItem
  <1>14. Meets(Item(r, col), c)
    BY ONLY <1>2, <1>12, <1>13, c.mode = "RANGE" DEF Meets, Criterion
  <1> QED
    BY ONLY <1>9, <1>11, <1>14

(* a span of time,                                                         *)
LEMMA TimeIsAsked ==
  ASSUME NEW v, Complete(v), NEW col, col = "putInTime", NEW c, c.mode = "BETWEEN",
         c.from \in Chars, c.to \in Chars
  PROVE  Changes(v, Ask(v, col, c), col) /\ Meets(Item(Ask(v, col, c), col), c)
  <1>1. col \in AllColumn /\ col \notin TextColumn /\ K(BoolKey(col)) = FlagKey(col)
        /\ K("bPutInTime") = FlagKey(col)
    BY Flags DEF AllColumn, TextColumn, FlagKey, Flag
  <1>2. PICK f \in Chars, t \in Chars : f = c.from /\ t = c.to
    BY ONLY c.from \in Chars, c.to \in Chars
  <1>3. PICK x \in Single : x = Value("BOOL", <<"true">>, <<>>, <<>>) /\ ToBool(x)
    BY ONLY SinglesAre, YesAndNo
  <1>4. PICK y \in Single : y = SetStr(f, TRUE) /\ y.type = "STRING" /\ ToStr(y) = f
    BY ONLY SinglesAre, TextIsRead, f \in Chars
  <1>5. PICK z \in Single : z = SetStr(t, TRUE) /\ z.type = "STRING" /\ ToStr(z) = t
    BY ONLY SinglesAre, TextIsRead, t \in Chars
  <1>6. PICK r : r = Ask(v, col, c)
    OBVIOUS
  <1>7. r = Assign(Assign(Assign(v, FlagKey(col), x), FromKey(col), y), ToKey(col), z)
    <2>1. /\ c.mode # "NOCHECK" /\ c.mode # "RANGE" /\ c.mode \notin {"FUZZY", "EXACT"}
      BY ONLY c.mode = "BETWEEN"
    <2> QED
      BY ONLY <1>1, <1>2, <1>3, <1>4, <1>5, <1>6, <2>1, c.mode = "BETWEEN", Zenon DEF Ask
  <1>8. /\ Changes(v, r, col)
        /\ At(r, FlagKey(col)) = x /\ At(r, FromKey(col)) = y /\ At(r, ToKey(col)) = z
    BY ONLY <1>1, <1>7, Complete(v), x \in Single, y \in Single, z \in Single, ThreeAssigned
  <1>9. Item(r, col) = TimeItem(r)
    BY ONLY <1>1, col = "putInTime", ItemIs
  <1>10. TimeItem(r) = Criterion("BETWEEN", f, t)
    BY ONLY <1>1, <1>3, <1>4, <1>5, <1>8, col = "putInTime" DEF TimeItem
  <1>11. Meets(Item(r, col), c)
    BY ONLY <1>2, <1>9, <1>10, c.mode = "BETWEEN" DEF Meets, Criterion
  <1> QED
    BY ONLY <1>6, <1>8, <1>11

(* a text: for the tag, itself says how.                                   *)
TextAsked(item, col, t, m) ==
  /\ item.from = t
  /\ col = "goodsName" => item.mode = IF m = FUZZY_CHECK THEN "FUZZY" ELSE "EXACT"
  /\ col = "goodsSIC" =>
       item.mode = IF Atoi(Stored(t, TRUE)) = FUZZY_CHECK THEN "FUZZY" ELSE "EXACT"

(* Asking for a text makes TextAsked true of the column.                   *)
LEMMA TextIsAsked ==
  ASSUME NEW v, Complete(v), NEW col \in TextColumn, NEW t \in Chars,
         NEW m \in {FUZZY_CHECK, EXACT_CHECK}, NEW r,
         r = Assign(Assign(v, K(CheckKey(col)), SetInt(m)), FromKey(col), SetStr(t, TRUE))
  PROVE  Changes(v, r, col) /\ TextAsked(Item(r, col), col, t, m)
  <1>1. col \in AllColumn /\ K(CheckKey(col)) = FlagKey(col)
    BY DEF AllColumn, FlagKey, Flag
  <1>2. m \in Nat /\ m # NOCHECK
    BY DEF FUZZY_CHECK, EXACT_CHECK, NOCHECK
  <1>3. ToInt(SetInt(m)) = m
    <2>1. m <= 999999999
      BY SMT DEF FUZZY_CHECK, EXACT_CHECK
    <2> QED
      BY ONLY <1>2, <2>1, NumberIsRead, SMT
  <1>4. PICK x \in Single : x = SetInt(m) /\ ToInt(x) = m
    BY ONLY <1>2, <1>3, SinglesAre
  <1>5. PICK y \in Single : y = SetStr(t, TRUE) /\ y.type = "STRING" /\ ToStr(y) = t
    BY ONLY SinglesAre, TextIsRead, t \in Chars
  <1>6. ToInt(y) = Atoi(Stored(t, TRUE))
    BY ONLY <1>5 DEF ToInt, SetStr, Str, Value
  <1>7. r = Assign(Assign(v, FlagKey(col), x), FromKey(col), y)
    BY ONLY <1>1, <1>4, <1>5,
            r = Assign(Assign(v, K(CheckKey(col)), SetInt(m)), FromKey(col), SetStr(t, TRUE))
  <1>8. /\ Changes(v, r, col)
        /\ At(r, FlagKey(col)) = x /\ At(r, FromKey(col)) = y
    BY ONLY <1>7, Complete(v), col \in TextColumn, x \in Single, y \in Single, TwoAssigned
  <1>9. Item(r, col) = TextItem(r, col)
    BY ONLY <1>1, col \in TextColumn, ItemIs
  <1>10. TextItem(r, col) =
           Criterion(IF ToInt(IF col = "goodsName" THEN x ELSE y) = FUZZY_CHECK
                       THEN "FUZZY" ELSE "EXACT", t, 0)
    BY ONLY <1>1, <1>2, <1>4, <1>5, <1>8 DEF TextItem
  <1>11. Item(r, col).from = t
    BY ONLY <1>9, <1>10 DEF Criterion
  <1>12. col = "goodsName" => Item(r, col).mode = IF m = FUZZY_CHECK THEN "FUZZY" ELSE "EXACT"
    BY ONLY <1>4, <1>9, <1>10 DEF Criterion
  <1>13. col = "goodsSIC" => Item(r, col).mode =
           IF Atoi(Stored(t, TRUE)) = FUZZY_CHECK THEN "FUZZY" ELSE "EXACT"
    BY ONLY <1>6, <1>9, <1>10 DEF Criterion
  <1> QED
    BY ONLY <1>8, <1>11, <1>12, <1>13 DEF TextAsked

(* A criterion that can be asked for in full.                              *)
Asks(col, c) == Askable(col, c) /\ Sayable(c)

(* So every criterion that can be asked for is asked for, and nothing else *)
(* is.                                                                     *)
LEMMA AskIs ==
  ASSUME NEW v, Complete(v), NEW col \in AllColumn, Item(v, col).mode = "NOCHECK",
         NEW c, Asks(col, c)
  PROVE  /\ Complete(Ask(v, col, c))
         /\ \A d \in AllColumn : d # col => Item(Ask(v, col, c), d) = Item(v, d)
         /\ Meets(Item(Ask(v, col, c), col), c)
  <1>1. PICK r : r = Ask(v, col, c)
    OBVIOUS
  <1>2. CASE c.mode = "NOCHECK"
    <2>1. r = v
      <3>1. c.mode # "RANGE" /\ c.mode # "BETWEEN" /\ c.mode \notin {"FUZZY", "EXACT"}
        BY ONLY <1>2
      <3> QED
        BY ONLY <1>1, <1>2, <3>1, Zenon DEF Ask
    <2>2. Meets(Item(v, col), c)
      BY ONLY <1>2, Item(v, col).mode = "NOCHECK" DEF Meets
    <2> QED
      BY ONLY <1>1, <2>1, <2>2, Complete(v)
  <1>3. CASE c.mode # "NOCHECK"
    <2>1. Changes(v, r, col) /\ Meets(Item(r, col), c)
      <3>1. CASE /\ col \in NumberColumn /\ c.mode = "RANGE"
                 /\ c.from \in Nat /\ c.from < IntLimit /\ c.to \in Nat /\ c.to < IntLimit
        <4>1. c.from <= 999999999 /\ c.to <= 999999999
          <5>1. c.from <= NineDigits /\ c.to <= NineDigits
            BY ONLY <3>1, Asks(col, c) DEF Asks, Sayable
          <5> QED
            BY ONLY <3>1, <5>1, SMT DEF NineDigits
        <4> QED
          BY ONLY <1>1, <3>1, <4>1, Complete(v), RangeIsAsked
      <3>2. CASE col = "putInTime" /\ c.mode = "BETWEEN" /\ c.from \in Chars /\ c.to \in Chars
        BY ONLY <1>1, <3>2, Complete(v), TimeIsAsked
      <3>3. CASE /\ col \in TextColumn /\ c.mode \in {"FUZZY", "EXACT"} /\ c.from \in Chars
                 /\ col = "goodsName" \/ (/\ col = "goodsSIC" /\ EncodeCheck(c.from) = -1
                                          /\ c.mode = IF Atoi(c.from) = FUZZY_CHECK
                                                        THEN "FUZZY" ELSE "EXACT")
        <4>1. PICK t \in Chars : t = c.from
          BY ONLY <3>3
        <4>2. PICK m \in {FUZZY_CHECK, EXACT_CHECK} :
                m = IF c.mode = "FUZZY" THEN FUZZY_CHECK ELSE EXACT_CHECK
          OBVIOUS
        <4>3. r = Assign(Assign(v, K(CheckKey(col)), SetInt(m)), FromKey(col), SetStr(t, TRUE))
          <5>1. c.mode # "NOCHECK" /\ c.mode # "RANGE" /\ c.mode # "BETWEEN"
            BY ONLY <3>3
          <5> QED
            BY ONLY <1>1, <3>3, <4>1, <4>2, <5>1, Zenon DEF Ask
        <4>4. /\ Changes(v, r, col)
              /\ Item(r, col).from = t
              /\ col = "goodsName" =>
                   Item(r, col).mode = IF m = FUZZY_CHECK THEN "FUZZY" ELSE "EXACT"
              /\ col = "goodsSIC" => Item(r, col).mode =
                   IF Atoi(Stored(t, TRUE)) = FUZZY_CHECK THEN "FUZZY" ELSE "EXACT"
          <5>1. PICK e \in TextColumn : e = col
            BY ONLY <3>3
          <5>2. r = Assign(Assign(v, K(CheckKey(e)), SetInt(m)), FromKey(e), SetStr(t, TRUE))
            BY ONLY <4>3, <5>1
          <5>3. Changes(v, r, e) /\ TextAsked(Item(r, e), e, t, m)
            BY ONLY <5>2, Complete(v), TextIsAsked, e \in TextColumn, t \in Chars,
                    m \in {FUZZY_CHECK, EXACT_CHECK}
          <5> QED
            BY ONLY <5>1, <5>3 DEF TextAsked
        <4>5. m = FUZZY_CHECK <=> c.mode = "FUZZY"
          BY ONLY <4>2 DEF FUZZY_CHECK, EXACT_CHECK
        <4>6. col = "goodsSIC" => Stored(t, TRUE) = t
          BY ONLY <3>3, <4>1 DEF Stored
        <4>7. Item(r, col).mode = c.mode
          <5>1. c.mode = "FUZZY" \/ c.mode = "EXACT"
            BY ONLY <3>3
          <5>2. CASE col = "goodsName"
            BY ONLY <4>4, <4>5, <5>1, <5>2
          <5>3. CASE col = "goodsSIC"
            BY ONLY <3>3, <4>1, <4>4, <4>6, <5>3
          <5> QED
            BY ONLY <3>3, <5>2, <5>3
        <4>8. Meets(Item(r, col), c)
          BY ONLY <3>3, <4>1, <4>4, <4>7 DEF Meets
        <4> QED
          BY ONLY <4>4, <4>8
      <3>4. col \in TextColumn <=> col = "goodsName" \/ col = "goodsSIC"
        BY DEF TextColumn
      <3> QED
        BY ONLY <1>3, <3>1, <3>2, <3>3, <3>4, Asks(col, c) DEF Asks, Askable
    <2>2. /\ Complete(r)
          /\ \A d \in AllColumn : d # col => Item(r, d) = Item(v, d)
      BY ONLY <2>1, Complete(v), col \in AllColumn, StaysComplete
    <2> QED
      BY ONLY <1>1, <2>1, <2>2
  <1> QED
    BY ONLY <1>2, <1>3

(* A question is asked one column after another,                           *)
LEMMA AskAllIs ==
  ASSUME NEW question
  PROVE  \E u : /\ u[0] = NoQuestion
                /\ \A i \in 1 .. 8 : u[i] = Ask(u[i - 1], ColumnOrder[i], question[ColumnOrder[i]])
                /\ AskAll(question) = u[8]
  <1> DEFINE Step(i, x) == Ask(x, ColumnOrder[i], question[ColumnOrder[i]])
             Is(m, f) == f = [i \in 0 .. m |-> IF i = 0 THEN NoQuestion ELSE Step(i, f[i - 1])]
             P == {m \in Nat : m <= 8 => \E f : Is(m, f)}
  <1>1. PICK n \in Nat : n = 8 /\ Len(ColumnOrder) = n
    BY DEF ColumnOrder
  <1>2. AskAll(question) = (CHOOSE f : Is(n, f))[n]
    BY <1>1, Zenon DEF AskAll
  <1> HIDE DEF Step
  <1>3. 0 \in P
    <2>1. Is(0, [i \in 0 .. 0 |-> NoQuestion])
      OBVIOUS
    <2> QED
      BY <2>1
  <1>4. ASSUME NEW m \in Nat, m < 8, m \in P PROVE m + 1 \in P
    <2>1. PICK f : Is(m, f)
      BY <1>4
    <2> DEFINE h == [i \in 0 .. m + 1 |-> IF i = m + 1 THEN Step(m + 1, f[m]) ELSE f[i]]
    <2>2. h[m + 1] = Step(m + 1, f[m]) /\ \A i \in 0 .. m : h[i] = f[i]
      OBVIOUS
    <2>3. ASSUME NEW i \in 0 .. m + 1
          PROVE  h[i] = IF i = 0 THEN NoQuestion ELSE Step(i, h[i - 1])
      <3> HIDE DEF h
      <3>1. CASE i = m + 1
        <4>1. i # 0 /\ i - 1 = m /\ h[m] = f[m]
          BY <2>2, <3>1
        <4> QED
          BY <2>2, <3>1, <4>1
      <3>2. CASE i \in 0 .. m
        <4>1. f[i] = IF i = 0 THEN NoQuestion ELSE Step(i, f[i - 1])
          BY <2>1, <3>2
        <4>2. h[i] = f[i] /\ (i # 0 => h[i - 1] = f[i - 1])
          BY <2>2, <3>2
        <4> QED
          BY <4>1, <4>2
      <3> QED
        BY <3>1, <3>2
    <2>4. h = [i \in 0 .. m + 1 |-> h[i]]
      OBVIOUS
    <2> HIDE DEF h
    <2>5. Is(m + 1, h)
      BY <2>3, <2>4
    <2> QED
      BY <2>5
  <1>5. \E f : Is(n, f)
    <2> HIDE DEF P
    <2>1. PICK m \in Nat : m = 8
      OBVIOUS
    <2>2. \A i \in Nat : i < m /\ i \in P => i + 1 \in P
      BY ONLY <1>4, <2>1
    <2>3. 0 .. m \subseteq P
      BY ONLY m \in Nat, <1>3, <2>2, UpTo
    <2>4. m \in P
      BY ONLY <2>3, m \in Nat
    <2> QED
      BY <1>1, <2>1, <2>4 DEF P
  <1>6. PICK f : Is(n, f) /\ AskAll(question) = f[n]
    BY <1>2, <1>5
  <1>7. f[0] = NoQuestion /\ \A i \in 1 .. n : f[i] = Step(i, f[i - 1])
    BY <1>6
  <1> QED
    BY <1>1, <1>6, <1>7 DEF Step

(* The document of a row is written one column after another.              *)
WithColumn(v, row, missing, i) ==
  IF ColumnOrder[i] = missing THEN v
  ELSE AddProperty(v, K(ColumnOrder[i]), Column(row, ColumnOrder[i]), TRUE)

(* RowDocument is the last of these steps.                                 *)
LEMMA RowDocumentIs ==
  ASSUME NEW row, NEW missing
  PROVE  \E u : /\ u[0] = Object(<<>>, <<>>)
                /\ \A i \in 1 .. 8 : u[i] = WithColumn(u[i - 1], row, missing, i)
                /\ RowDocument(row, missing) = u[8]
  <1> DEFINE Step(i, x) == WithColumn(x, row, missing, i)
             Is(m, f) == f = [i \in 0 .. m |-> IF i = 0 THEN Object(<<>>, <<>>) ELSE Step(i, f[i - 1])]
             P == {m \in Nat : m <= 8 => \E f : Is(m, f)}
  <1>1. PICK n \in Nat : n = 8 /\ Len(ColumnOrder) = n
    BY DEF ColumnOrder
  <1>2. RowDocument(row, missing) = (CHOOSE f : Is(n, f))[n]
    BY <1>1, Zenon DEF RowDocument, WithColumn
  <1> HIDE DEF Step
  <1>3. 0 \in P
    <2>1. Is(0, [i \in 0 .. 0 |-> Object(<<>>, <<>>)])
      OBVIOUS
    <2> QED
      BY <2>1
  <1>4. ASSUME NEW m \in Nat, m < 8, m \in P PROVE m + 1 \in P
    <2>1. PICK f : Is(m, f)
      BY <1>4
    <2> DEFINE h == [i \in 0 .. m + 1 |-> IF i = m + 1 THEN Step(m + 1, f[m]) ELSE f[i]]
    <2>2. h[m + 1] = Step(m + 1, f[m]) /\ \A i \in 0 .. m : h[i] = f[i]
      OBVIOUS
    <2>3. ASSUME NEW i \in 0 .. m + 1
          PROVE  h[i] = IF i = 0 THEN Object(<<>>, <<>>) ELSE Step(i, h[i - 1])
      <3> HIDE DEF h
      <3>1. CASE i = m + 1
        <4>1. i # 0 /\ i - 1 = m /\ h[m] = f[m]
          BY <2>2, <3>1
        <4> QED
          BY <2>2, <3>1, <4>1
      <3>2. CASE i \in 0 .. m
        <4>1. f[i] = IF i = 0 THEN Object(<<>>, <<>>) ELSE Step(i, f[i - 1])
          BY <2>1, <3>2
        <4>2. h[i] = f[i] /\ (i # 0 => h[i - 1] = f[i - 1])
          BY <2>2, <3>2
        <4> QED
          BY <4>1, <4>2
      <3> QED
        BY <3>1, <3>2
    <2>4. h = [i \in 0 .. m + 1 |-> h[i]]
      OBVIOUS
    <2> HIDE DEF h
    <2>5. Is(m + 1, h)
      BY <2>3, <2>4
    <2> QED
      BY <2>5
  <1>5. \E f : Is(n, f)
    <2> HIDE DEF P
    <2>1. PICK m \in Nat : m = 8
      OBVIOUS
    <2>2. \A i \in Nat : i < m /\ i \in P => i + 1 \in P
      BY ONLY <1>4, <2>1
    <2>3. 0 .. m \subseteq P
      BY ONLY m \in Nat, <1>3, <2>2, UpTo
    <2>4. m \in P
      BY ONLY <2>3, m \in Nat
    <2> QED
      BY <1>1, <2>1, <2>4 DEF P
  <1>6. PICK f : Is(n, f) /\ RowDocument(row, missing) = f[n]
    BY <1>2, <1>5
  <1>7. f[0] = Object(<<>>, <<>>) /\ \A i \in 1 .. n : f[i] = Step(i, f[i - 1])
    BY <1>6
  <1> QED
    BY <1>1, <1>6, <1>7 DEF Step

(* Every column has its place.                                             *)
LEMMA Order ==
  /\ Len(ColumnOrder) = 8 /\ DOMAIN ColumnOrder = 1 .. 8
  /\ \A i \in 1 .. 8 : ColumnOrder[i] \in AllColumn
  /\ \A i, j \in 1 .. 8 : ColumnOrder[i] = ColumnOrder[j] => i = j
  /\ \A col \in AllColumn : \E i \in 1 .. 8 : ColumnOrder[i] = col
  /\ ColumnOrder \in Seq(AllColumn)
  <1>1. /\ ColumnOrder[1] = "goodsType" /\ ColumnOrder[2] = "goodsName"
        /\ ColumnOrder[3] = "goodsID" /\ ColumnOrder[4] = "putInTime"
        /\ ColumnOrder[5] = "goodsProperty" /\ ColumnOrder[6] = "goodsSIC"
        /\ ColumnOrder[7] = "cost" /\ ColumnOrder[8] = "costoff"
        /\ Len(ColumnOrder) = 8 /\ DOMAIN ColumnOrder = 1 .. 8
    BY DEF ColumnOrder
  <1>2. \A i \in 1 .. 8 : i = 1 \/ i = 2 \/ i = 3 \/ i = 4 \/ i = 5 \/ i = 6 \/ i = 7 \/ i = 8
    OBVIOUS
  <1>3. \A i \in 1 .. 8 : ColumnOrder[i] \in AllColumn
    BY <1>1, <1>2 DEF AllColumn, NumberColumn, TextColumn
  <1>4. \A i, j \in 1 .. 8 : ColumnOrder[i] = ColumnOrder[j] => i = j
    BY ONLY <1>1, <1>2
  <1>5. \A col \in AllColumn : \E i \in 1 .. 8 : ColumnOrder[i] = col
    BY <1>1, Columns8
  <1>6. ColumnOrder \in Seq(AllColumn)
    <2>1. {"goodsType", "goodsName", "goodsID", "putInTime", "goodsProperty", "goodsSIC", "cost",
           "costoff"} \subseteq AllColumn
      BY DEF AllColumn, NumberColumn, TextColumn
    <2> QED
      BY ONLY <2>1 DEF ColumnOrder
  <1> QED
    BY ONLY <1>1, <1>3, <1>4, <1>5, <1>6

(* The columns up to the i-th one are asked for as the caller wants.       *)
AskedUpTo(v, i, question) ==
  /\ Complete(v)
  /\ \A j \in 1 .. 8 :
       IF j <= i THEN Meets(Item(v, ColumnOrder[j]), question[ColumnOrder[j]])
                 ELSE Item(v, ColumnOrder[j]).mode = "NOCHECK"

(* A question says what the caller asks for, column by column.             *)
LEMMA AllAsked ==
  ASSUME NEW question, \A col \in AllColumn : Asks(col, question[col])
  PROVE  \A col \in AllColumn : Meets(Item(AskAll(question), col), question[col])
  <1>1. PICK u : /\ u[0] = NoQuestion
                 /\ \A i \in 1 .. 8 : u[i] = Ask(u[i - 1], ColumnOrder[i], question[ColumnOrder[i]])
                 /\ AskAll(question) = u[8]
    BY ONLY AskAllIs
  <1>2. AskedUpTo(u[0], 0, question)
    <2>1. \A j \in 1 .. 8 : ~(j <= 0)
      OBVIOUS
    <2> QED
      BY ONLY <1>1, <2>1, NothingAsked, Order DEF AskedUpTo
  <1>3. ASSUME NEW i \in 1 .. 8, AskedUpTo(u[i - 1], i - 1, question)
        PROVE  AskedUpTo(u[i], i, question)
    <2>1. PICK v : v = u[i - 1]
      OBVIOUS
    <2>2. PICK col \in AllColumn : col = ColumnOrder[i]
      BY ONLY Order, i \in 1 .. 8
    <2>3. PICK c : c = question[col]
      OBVIOUS
    <2>4. Complete(v) /\ Item(v, col).mode = "NOCHECK"
      <3>1. ~(i <= i - 1)
        BY ONLY i \in 1 .. 8
      <3> QED
        BY ONLY <1>3, <2>1, <2>2, <3>1 DEF AskedUpTo
    <2>5. Asks(col, c)
      BY ONLY <2>3, col \in AllColumn, \A e \in AllColumn : Asks(e, question[e])
    <2>6. /\ Complete(Ask(v, col, c))
          /\ \A d \in AllColumn : d # col => Item(Ask(v, col, c), d) = Item(v, d)
          /\ Meets(Item(Ask(v, col, c), col), c)
      BY ONLY <2>4, <2>5, col \in AllColumn, AskIs
    <2>7. u[i] = Ask(v, col, c)
      BY ONLY <1>1, <2>1, <2>2, <2>3, i \in 1 .. 8
    <2>8. ASSUME NEW j \in 1 .. 8
          PROVE  IF j <= i THEN Meets(Item(u[i], ColumnOrder[j]), question[ColumnOrder[j]])
                           ELSE Item(u[i], ColumnOrder[j]).mode = "NOCHECK"
      <3>1. CASE j = i
        BY ONLY <2>2, <2>3, <2>6, <2>7, <3>1, i \in 1 .. 8
      <3>2. CASE j # i
        <4>1. ColumnOrder[j] \in AllColumn /\ ColumnOrder[j] # col
          BY ONLY <2>2, <3>2, Order, i \in 1 .. 8, j \in 1 .. 8
        <4>2. Item(u[i], ColumnOrder[j]) = Item(v, ColumnOrder[j])
          BY ONLY <2>6, <2>7, <4>1
        <4>3. j <= i <=> j <= i - 1
          BY ONLY <3>2, i \in 1 .. 8, j \in 1 .. 8
        <4>4. IF j <= i - 1 THEN Meets(Item(v, ColumnOrder[j]), question[ColumnOrder[j]])
                            ELSE Item(v, ColumnOrder[j]).mode = "NOCHECK"
          BY ONLY <1>3, <2>1, j \in 1 .. 8 DEF AskedUpTo
        <4> QED
          BY ONLY <4>2, <4>3, <4>4
      <3> QED
        BY ONLY <3>1, <3>2
    <2> QED
      BY ONLY <2>6, <2>7, <2>8 DEF AskedUpTo
  <1>4. AskedUpTo(u[8], 8, question)
    <2> DEFINE S == {i \in 0 .. 8 : AskedUpTo(u[i], i, question)}
    <2>1. 0 \in S
      BY ONLY <1>2
    <2>2. PICK m \in Nat : m = 8
      OBVIOUS
    <2>3. ASSUME NEW i \in Nat, i < m, i \in S PROVE i + 1 \in S
      <3>1. PICK h \in 1 .. 8 : h = i + 1 /\ h - 1 = i
        BY ONLY <2>2, <2>3
      <3>2. AskedUpTo(u[h - 1], h - 1, question)
        BY ONLY <2>3, <3>1
      <3>3. AskedUpTo(u[h], h, question)
        BY ONLY <1>3, <3>2
      <3> QED
        BY ONLY <3>1, <3>3
    <2> HIDE DEF S
    <2>4. 0 .. m \subseteq S
      BY ONLY m \in Nat, <2>1, <2>3, UpTo
    <2>5. 8 \in S
      BY ONLY <2>2, <2>4
    <2> QED
      BY ONLY <2>5 DEF S
  <1>5. ASSUME NEW col \in AllColumn
        PROVE  Meets(Item(AskAll(question), col), question[col])
    <2>1. PICK j \in 1 .. 8 : ColumnOrder[j] = col
      BY ONLY Order, col \in AllColumn
    <2>2. j <= 8
      OBVIOUS
    <2> QED
      BY ONLY <1>1, <1>4, <2>1, <2>2 DEF AskedUpTo
  <1> QED
    BY ONLY <1>5

(* What the code and the table let be in a row.                            *)
Typed(row) ==
  /\ row = [col \in AllColumn |-> row[col]]
  /\ \A col \in NumberColumn : row[col] \in Nat /\ row[col] < IntLimit
  /\ \A col \in AllColumn \ NumberColumn : row[col] \in Chars

(* A column as text, and back.                                             *)
LEMMA ColumnIsRead ==
  ASSUME NEW row, Typed(row), NEW col \in AllColumn
  PROVE  /\ Column(row, col) \in Chars
         /\ (IF col \in NumberColumn THEN Atoi(Column(row, col)) ELSE Column(row, col)) = row[col]
  <1>1. CASE col \in NumberColumn
    <2>1. PICK n \in Nat : n = row[col] /\ n < IntLimit
      BY ONLY <1>1, Typed(row) DEF Typed
    <2>2. n <= 2147483647
      BY ONLY <2>1, LimitAssumption, SMT
    <2>3. Atoi(Digits(n)) = n
      BY ONLY <2>2, n \in Nat, NumberComesBack, SMT
    <2>4. Digits(n) \in Chars
      <3>1. Digit \subseteq Char
        BY CharAssumption
      <3>2. Digits(n) \in Seq(Digit)
        BY ONLY n \in Nat, DigitsAre
      <3>3. Digits(n) \in Seq(Char)
        BY ONLY <3>1, <3>2
      <3> QED
        BY ONLY <3>3 DEF Chars
    <2>5. Column(row, col) = Digits(n)
      BY ONLY <1>1, <2>1 DEF Column
    <2> QED
      BY ONLY <1>1, <2>1, <2>3, <2>4, <2>5
  <1>2. CASE col \notin NumberColumn
    BY ONLY <1>2, Typed(row), col \in AllColumn DEF Typed, Column
  <1> QED
    BY ONLY <1>1, <1>2

(* The first i columns are in the document, but for the missing one.       *)
WrittenUpTo(v, i, row, missing) ==
  /\ Sheet(v)
  /\ \A j \in 1 .. 8 :
       IF j <= i /\ ColumnOrder[j] # missing
         THEN /\ IsKeyExist(v, K(ColumnOrder[j]))
              /\ At(v, K(ColumnOrder[j])) = SetStr(Column(row, ColumnOrder[j]), TRUE)
         ELSE ~IsKeyExist(v, K(ColumnOrder[j]))

(* The document of a row has every column but the missing one.             *)
LEMMA RowIsWritten ==
  ASSUME NEW row, Typed(row), NEW missing
  PROVE  WrittenUpTo(RowDocument(row, missing), 8, row, missing)
  <1>1. PICK u : /\ u[0] = Object(<<>>, <<>>)
                 /\ \A i \in 1 .. 8 : u[i] = WithColumn(u[i - 1], row, missing, i)
                 /\ RowDocument(row, missing) = u[8]
    BY ONLY RowDocumentIs
  <1>2. WrittenUpTo(u[0], 0, row, missing)
    <2>1. \A j \in 1 .. 8 : ~(j <= 0)
      OBVIOUS
    <2> QED
      BY ONLY <1>1, <2>1, EmptySheet DEF WrittenUpTo
  <1>3. ASSUME NEW i \in 1 .. 8, WrittenUpTo(u[i - 1], i - 1, row, missing)
        PROVE  WrittenUpTo(u[i], i, row, missing)
    <2>1. PICK v, r : v = u[i - 1] /\ r = u[i]
      OBVIOUS
    <2>2. PICK col \in AllColumn : col = ColumnOrder[i]
      BY ONLY Order, i \in 1 .. 8
    <2>3. WrittenUpTo(v, i - 1, row, missing)
      BY ONLY <1>3, <2>1
    <2>4. \A j \in 1 .. 8 : (j # i => (j <= i <=> j <= i - 1)) /\ ~(i <= i - 1) /\ i <= i
      BY ONLY i \in 1 .. 8
    <2>5. CASE col = missing
      <3>1. r = v
        BY ONLY <1>1, <2>1, <2>2, <2>5, i \in 1 .. 8 DEF WithColumn
      <3> QED
        BY ONLY <2>1, <2>2, <2>3, <2>4, <2>5, <3>1 DEF WrittenUpTo
    <2>6. CASE col # missing
      <3>1. PICK t \in Chars : t = Column(row, col)
        BY ONLY Typed(row), col \in AllColumn, ColumnIsRead
      <3>2. PICK k \in Chars : k = K(col)
        <4>1. col \in Char
          BY ONLY NameAssumption, col \in AllColumn
        <4> QED
          BY ONLY <4>1, Short DEF K
      <3>3. PICK w : w = SetStr(t, TRUE)
        OBVIOUS
      <3>4. r = AddProperty(v, k, t, TRUE)
        BY ONLY <1>1, <2>1, <2>2, <2>6, <3>1, <3>2, i \in 1 .. 8 DEF WithColumn
      <3>5. Became(v, k, w, r)
        <4>1. Sheet(v)
          BY ONLY <2>3 DEF WrittenUpTo
        <4> QED
          BY ONLY <3>3, <3>4, <4>1, k \in Chars, t \in Chars, AddsText
      <3>6. ASSUME NEW j \in 1 .. 8
            PROVE  IF j <= i /\ ColumnOrder[j] # missing
                     THEN /\ IsKeyExist(r, K(ColumnOrder[j]))
                          /\ At(r, K(ColumnOrder[j])) = SetStr(Column(row, ColumnOrder[j]), TRUE)
                     ELSE ~IsKeyExist(r, K(ColumnOrder[j]))
        <4>1. CASE j = i
          BY ONLY <2>2, <2>4, <2>6, <3>1, <3>2, <3>3, <3>5, <4>1 DEF Became
        <4>2. CASE j # i
          <5>1. K(ColumnOrder[j]) # k
            BY ONLY <2>2, <3>2, <4>2, Order, i \in 1 .. 8, j \in 1 .. 8 DEF K
          <5>2. SameAt(v, r, K(ColumnOrder[j]))
            BY ONLY <3>5, <5>1 DEF Became
          <5>3. IF j <= i - 1 /\ ColumnOrder[j] # missing
                  THEN /\ IsKeyExist(v, K(ColumnOrder[j]))
                       /\ At(v, K(ColumnOrder[j])) = SetStr(Column(row, ColumnOrder[j]), TRUE)
                  ELSE ~IsKeyExist(v, K(ColumnOrder[j]))
            BY ONLY <2>3, j \in 1 .. 8 DEF WrittenUpTo
          <5> QED
            BY ONLY <2>4, <4>2, <5>2, <5>3, j \in 1 .. 8 DEF SameAt
        <4> QED
          BY ONLY <4>1, <4>2
      <3>7. Sheet(r)
        BY ONLY <3>5 DEF Became
      <3> QED
        BY ONLY <2>1, <3>6, <3>7 DEF WrittenUpTo
    <2> QED
      BY ONLY <2>5, <2>6
  <1>4. WrittenUpTo(u[8], 8, row, missing)
    <2> DEFINE S == {i \in 0 .. 8 : WrittenUpTo(u[i], i, row, missing)}
    <2>1. 0 \in S
      BY ONLY <1>2
    <2>2. PICK m \in Nat : m = 8
      OBVIOUS
    <2>3. ASSUME NEW i \in Nat, i < m, i \in S PROVE i + 1 \in S
      <3>1. PICK h \in 1 .. 8 : h = i + 1 /\ h - 1 = i
        BY ONLY <2>2, <2>3
      <3>2. WrittenUpTo(u[h - 1], h - 1, row, missing)
        BY ONLY <2>3, <3>1
      <3>3. WrittenUpTo(u[h], h, row, missing)
        BY ONLY <1>3, <3>2
      <3> QED
        BY ONLY <3>1, <3>3
    <2> HIDE DEF S
    <2>4. 0 .. m \subseteq S
      BY ONLY m \in Nat, <2>1, <2>3, UpTo
    <2>5. 8 \in S
      BY ONLY <2>2, <2>4
    <2> QED
      BY ONLY <2>5 DEF S
  <1> QED
    BY ONLY <1>1, <1>4

(* A row goes into the table as its document says; with a value missing    *)
(* there is nothing to insert.                                             *)
LEMMA RowComesBack ==
  ASSUME NEW row, Typed(row), NEW missing
  PROVE  /\ missing \in AllColumn => ~CanInsert(RowDocument(row, missing))
         /\ missing \notin AllColumn => InsertValue(RowDocument(row, missing)) = row
  <1>1. PICK q : q = RowDocument(row, missing)
    OBVIOUS
  <1>2. WrittenUpTo(q, 8, row, missing)
    BY ONLY <1>1, Typed(row), RowIsWritten
  <1>3. q.type = "OBJECT"
    BY ONLY <1>2 DEF WrittenUpTo, Sheet, Listed, Object, Value
  <1>4. ASSUME NEW col \in AllColumn
        PROVE  IF col # missing THEN /\ IsKeyExist(q, K(col))
                                     /\ At(q, K(col)) = SetStr(Column(row, col), TRUE)
                                ELSE ~IsKeyExist(q, K(col))
    <2>1. PICK j \in 1 .. 8 : ColumnOrder[j] = col
      BY ONLY Order, col \in AllColumn
    <2>2. j <= 8
      OBVIOUS
    <2> QED
      BY ONLY <1>2, <2>1, <2>2 DEF WrittenUpTo
  <1>5. ASSUME missing \in AllColumn PROVE ~CanInsert(q)
    <2>1. ~IsKeyExist(q, K(missing))
      BY ONLY <1>4, <1>5
    <2>2. At(q, K(missing)) = q
      <3>1. ~(q.type # "OBJECT")
        BY ONLY <1>3
      <3> QED
        BY ONLY <2>1, <3>1, Zenon DEF At
    <2>3. At(q, K(missing)).type # "STRING"
      BY ONLY <1>3, <2>2
    <2> QED
      BY ONLY <1>5, <2>3 DEF CanInsert
  <1>6. ASSUME missing \notin AllColumn PROVE InsertValue(q) = row
    <2>1. ASSUME NEW col \in AllColumn
          PROVE  (IF col \in NumberColumn THEN Atoi(ToStr(At(q, K(col)))) ELSE ToStr(At(q, K(col))))
                   = row[col]
      <3>1. PICK t \in Chars : t = Column(row, col)
        BY ONLY Typed(row), col \in AllColumn, ColumnIsRead
      <3>2. (IF col \in NumberColumn THEN Atoi(t) ELSE t) = row[col]
        BY ONLY <3>1, Typed(row), col \in AllColumn, ColumnIsRead
      <3>3. ToStr(At(q, K(col))) = t
        <4>1. At(q, K(col)) = SetStr(t, TRUE)
          BY ONLY <1>4, <1>6, <3>1, col \in AllColumn
        <4> QED
          BY ONLY <4>1, t \in Chars, TextIsRead
      <3> QED
        BY ONLY <3>2, <3>3
    <2>2. InsertValue(q) =
            [col \in AllColumn |->
               IF col \in NumberColumn THEN Atoi(ToStr(At(q, K(col)))) ELSE ToStr(At(q, K(col)))]
      BY ONLY Zenon DEF InsertValue
    <2>3. InsertValue(q) = [col \in AllColumn |-> row[col]]
      BY ONLY <2>1, <2>2
    <2> QED
      BY ONLY <2>3, Typed(row) DEF Typed
  <1> QED
    BY ONLY <1>1, <1>5, <1>6

-----------------------------------------------------------------------------
(* The elements at some places.                                            *)
Chosen(s, which, i) == IF i \in which THEN <<s[i]>> ELSE <<>>
Choosing(u, S, s, which) ==
  /\ u \in [0 .. Len(s) -> Seq(S)]
  /\ u[0] = <<>>
  /\ \A i \in 1 .. Len(s) : u[i] = u[i - 1] \o Chosen(s, which, i)
  /\ InOrder(s, which) = u[Len(s)]

(* InOrder takes one place after another.                                  *)
LEMMA InOrderIs ==
  ASSUME NEW S, NEW s \in Seq(S), NEW which
  PROVE  \E u : Choosing(u, S, s, which)
  <1> DEFINE Step(i, x) == x \o Chosen(s, which, i)
             D(u) == [i \in 0 .. Len(s) |-> IF i = 0 THEN <<>> ELSE Step(i, u[i - 1])]
             f == CHOOSE u : u = D(u)
  <1>1. PICK n \in Nat : n = Len(s)
    OBVIOUS
  <1>2. <<>> \in Seq(S)
    OBVIOUS
  <1>3. \A i \in 1 .. n : \A x \in Seq(S) : Step(i, x) \in Seq(S)
    <2>1. ASSUME NEW i \in 1 .. n PROVE Chosen(s, which, i) \in Seq(S)
      <3>1. s[i] \in S
        BY <1>1, ElementOfSeq
      <3> QED
        BY ONLY <3>1 DEF Chosen
    <2> QED
      BY ONLY <2>1, ConcatProperties
  <1>4. InOrder(s, which) = f[n]
    BY <1>1 DEF InOrder, Chosen
  <1> HIDE DEF f, Step
  <1>5. PICK g \in [1 .. n -> [Seq(S) -> Seq(S)]] :
          \A i \in 1 .. n : \A x \in Seq(S) : g[i][x] = Step(i, x)
    <2> DEFINE h == [i \in 1 .. n |-> [x \in Seq(S) |-> Step(i, x)]]
    <2>1. h \in [1 .. n -> [Seq(S) -> Seq(S)]]
      BY <1>3
    <2> QED
      BY <2>1
  <1>6. PICK w \in [0 .. n -> Seq(S)] : w[0] = <<>> /\ \A i \in 1 .. n : w[i] = g[i][w[i - 1]]
    <2>1. PICK T, e : T = Seq(S) /\ e = <<>> /\ e \in T /\ g \in [1 .. n -> [T -> T]]
      BY <1>2
    <2>2. \E u : IsLeftFold(T, e, n, g, u)
      BY ONLY <2>1, n \in Nat, FromTheLeft
    <2> QED
      BY ONLY <2>1, <2>2 DEF IsLeftFold
  <1>7. ASSUME NEW i \in 1 .. n PROVE w[i] = Step(i, w[i - 1])
    <2>1. w[i - 1] \in Seq(S)
      BY ONLY w \in [0 .. n -> Seq(S)], i \in 1 .. n, n \in Nat
    <2> QED
      BY ONLY <1>5, <1>6, <2>1, i \in 1 .. n
  <1>8. w = D(w)
    <2>1. \A i \in 0 .. n : w[i] = IF i = 0 THEN <<>> ELSE Step(i, w[i - 1])
      BY ONLY <1>6, <1>7, n \in Nat
    <2> QED
      BY ONLY <1>1, <2>1, w \in [0 .. n -> Seq(S)]
  <1>9. f = D(f)
    BY <1>8 DEF f
  <1>10. f[0] = <<>> /\ \A i \in 1 .. n : f[i] = Step(i, f[i - 1])
    <2>1. D(f)[0] = <<>> /\ \A i \in 1 .. n : D(f)[i] = Step(i, f[i - 1])
      BY ONLY <1>1, n \in Nat
    <2> HIDE DEF D
    <2> QED
      BY ONLY <1>9, <2>1
  <1>11. f[n] = w[n]
    <2>1. ASSUME NEW i \in 1 .. n, f[i - 1] = w[i - 1] PROVE f[i] = w[i]
      BY ONLY <1>7, <1>10, <2>1
    <2>2. f[0] = w[0] /\ \A i \in 1 .. n : f[i - 1] = w[i - 1] => f[i] = w[i]
      BY ONLY <1>6, <1>10, <2>1
    <2>3. PICK z : z = f
      OBVIOUS
    <2>4. z[0] = w[0] /\ \A i \in 1 .. n : z[i - 1] = w[i - 1] => z[i] = w[i]
      BY ONLY <2>2, <2>3
    <2>5. z[n] = w[n]
      BY ONLY <2>4, n \in Nat, SameFromTheLeft
    <2> QED
      BY ONLY <2>3, <2>5
  <1>12. w \in [0 .. Len(s) -> Seq(S)] /\ w[0] = <<>> /\ InOrder(s, which) = w[Len(s)]
    BY ONLY <1>1, <1>4, <1>6, <1>11, w \in [0 .. n -> Seq(S)]
  <1>13. \A i \in 1 .. Len(s) : w[i] = w[i - 1] \o Chosen(s, which, i)
    BY ONLY <1>1, <1>7 DEF Step
  <1>14. Choosing(w, S, s, which)
    BY ONLY <1>12, <1>13 DEF Choosing
  <1> QED
    BY ONLY <1>14

(* r has what s has at the places up to i that are in "which".             *)
Picked(r, s, which, i) ==
  /\ \A j \in 1 .. Len(r) : \E h \in 1 .. i : h \in which /\ r[j] = s[h]
  /\ \A h \in 1 .. i : h \in which => \E j \in 1 .. Len(r) : r[j] = s[h]

(* InOrder has what stands at the places in "which", and nothing else.     *)
LEMMA InOrderHas ==
  ASSUME NEW S, NEW s \in Seq(S), NEW which
  PROVE  InOrder(s, which) \in Seq(S) /\ Picked(InOrder(s, which), s, which, Len(s))
  <1>0. PICK u : Choosing(u, S, s, which)
    BY ONLY s \in Seq(S), InOrderIs
  <1>1. /\ u \in [0 .. Len(s) -> Seq(S)]
        /\ u[0] = <<>>
        /\ \A i \in 1 .. Len(s) : u[i] = u[i - 1] \o Chosen(s, which, i)
        /\ InOrder(s, which) = u[Len(s)]
    BY ONLY <1>0 DEF Choosing
  <1>2. PICK n \in Nat : n = Len(s)
    OBVIOUS
  <1> DEFINE P == {i \in 0 .. n : Picked(u[i], s, which, i)}
  <1>3. 0 \in P
    <2>1. Len(u[0]) = 0 /\ 0 \in 0 .. n
      BY ONLY <1>1, n \in Nat
    <2> QED
      BY ONLY <2>1 DEF Picked
  <1>4. ASSUME NEW h \in Nat, h < n, h \in P PROVE h + 1 \in P
    <2>1. PICK i \in 1 .. n : i = h + 1 /\ i - 1 = h
      BY ONLY <1>4, n \in Nat
    <2>2. PICK x \in Seq(S) : x = u[h]
      <3>1. h \in 0 .. n
        BY ONLY <2>1, n \in Nat, h \in Nat
      <3>2. u[h] \in Seq(S)
        BY ONLY <1>1, <1>2, <3>1
      <3> QED
        BY ONLY <3>2
    <2>3. Picked(x, s, which, h)
      BY ONLY <1>4, <2>2
    <2>4. PICK y : y = u[i]
      OBVIOUS
    <2>5. y = x \o (IF i \in which THEN <<s[i]>> ELSE <<>>)
      BY ONLY <1>1, <1>2, <2>1, <2>2, <2>4 DEF Chosen
    <2>6. CASE i \in which
      <3>1. PICK e \in S : e = s[i]
        BY ONLY <1>2, s \in Seq(S), i \in 1 .. n, ElementOfSeq
      <3>2. y = Append(x, e)
        <4>1. y = x \o <<e>>
          BY ONLY <2>5, <2>6, <3>1
        <4> QED
          BY ONLY <4>1, x \in Seq(S), e \in S, AppendIsConcat
      <3>3. /\ Len(y) = Len(x) + 1 /\ y[Len(x) + 1] = e /\ Len(x) \in Nat
            /\ \A j \in 1 .. Len(x) : y[j] = x[j]
        BY ONLY <3>2, x \in Seq(S), e \in S, AppendProperties, LenProperties
      <3>4. ASSUME NEW j \in 1 .. Len(y) PROVE \E k \in 1 .. i : k \in which /\ y[j] = s[k]
        <4>1. CASE j = Len(x) + 1
          BY ONLY <2>6, <3>1, <3>3, <4>1, i \in 1 .. n
        <4>2. CASE j # Len(x) + 1
          <5>1. j \in 1 .. Len(x) /\ y[j] = x[j]
            BY ONLY <3>3, <4>2, j \in 1 .. Len(y)
          <5>2. PICK k \in 1 .. h : k \in which /\ x[j] = s[k]
            BY ONLY <2>3, <5>1 DEF Picked
          <5>3. k \in 1 .. i
            BY ONLY <2>1, h \in Nat, k \in 1 .. h
          <5> QED
            BY ONLY <5>1, <5>2, <5>3
        <4> QED
          BY ONLY <4>1, <4>2
      <3>5. ASSUME NEW k \in 1 .. i, k \in which PROVE \E j \in 1 .. Len(y) : y[j] = s[k]
        <4>1. CASE k = i
          <5>1. Len(x) + 1 \in 1 .. Len(y)
            BY ONLY <3>3
          <5> QED
            BY ONLY <3>1, <3>3, <4>1, <5>1
        <4>2. CASE k # i
          <5>1. k \in 1 .. h
            BY ONLY <2>1, <4>2, h \in Nat, k \in 1 .. i
          <5>2. PICK j \in 1 .. Len(x) : x[j] = s[k]
            BY ONLY <2>3, <3>5, <5>1 DEF Picked
          <5>3. j \in 1 .. Len(y) /\ y[j] = x[j]
            BY ONLY <3>3, j \in 1 .. Len(x)
          <5> QED
            BY ONLY <5>2, <5>3
        <4> QED
          BY ONLY <4>1, <4>2
      <3>6. Picked(y, s, which, i)
        BY ONLY <3>4, <3>5 DEF Picked
      <3> QED
        BY ONLY <2>1, <2>4, <3>6, n \in Nat
    <2>7. CASE i \notin which
      <3>1. y = x
        BY ONLY <2>5, <2>7, x \in Seq(S), ConcatEmptySeq
      <3>2. \A k \in 1 .. i : k \in which => k \in 1 .. h
        BY ONLY <2>1, <2>7, h \in Nat
      <3>3. \A k \in 1 .. h : k \in 1 .. i
        BY ONLY <2>1, h \in Nat
      <3>4. Picked(y, s, which, i)
        BY ONLY <2>3, <3>1, <3>2, <3>3 DEF Picked
      <3> QED
        BY ONLY <2>1, <2>4, <3>4, n \in Nat
    <2> QED
      BY ONLY <2>6, <2>7
  <1> HIDE DEF P
  <1>5. 0 .. n \subseteq P
    BY ONLY n \in Nat, <1>3, <1>4, UpTo
  <1>6. Picked(u[n], s, which, n)
    BY ONLY <1>5, n \in Nat DEF P
  <1>7. u[n] \in Seq(S)
    BY ONLY <1>1, <1>2, n \in Nat
  <1> QED
    BY ONLY <1>1, <1>2, <1>6, <1>7

-----------------------------------------------------------------------------
(* A question finds what it asks for.                                      *)

(* The rows of the module are what a row may be.                           *)
LEMMA RowsAreTyped == \A row \in Row : Typed(row)
  BY RowAssumption DEF Typed

(* Only rows are inserted, and deleting leaves some of them, so that the   *)
(* table always consists of rows.                                          *)
LEMMA TableStays ==
  ASSUME table \in Seq(Row), [StoreNext]_storeVars
  PROVE  table' \in Seq(Row)
  <1>1. CASE InsertValueIntoTable
    <2>1. PICK row \in Row, missing \in {"none"} \union NumberColumn, ok \in BOOLEAN :
            /\ ok => CanInsert(RowDocument(row, missing))
            /\ table' = IF ok THEN Append(table, InsertValue(RowDocument(row, missing)))
                              ELSE table
      BY <1>1 DEF InsertValueIntoTable
    <2>2. CASE ok
      <3>1. missing \notin AllColumn
        BY <2>1, <2>2, RowsAreTyped, RowComesBack
      <3>2. InsertValue(RowDocument(row, missing)) = row
        BY <3>1, RowsAreTyped, RowComesBack
      <3>3. table' = Append(table, row)
        BY ONLY <2>1, <2>2, <3>2
      <3> QED
        BY ONLY <3>3, table \in Seq(Row), row \in Row, AppendProperties
    <2> QED
      BY <2>1, <2>2
  <1>2. CASE DeleteValueFromTable
    <2>1. PICK row \in Row, ok \in BOOLEAN :
            table' = IF ok
                      THEN InOrder(table, {i \in DOMAIN table : table[i].goodsID # row.goodsID})
                      ELSE table
      BY <1>2 DEF DeleteValueFromTable
    <2>2. PICK which : which = {i \in DOMAIN table : table[i].goodsID # row.goodsID}
      OBVIOUS
    <2>3. InOrder(table, which) \in Seq(Row)
      BY ONLY table \in Seq(Row), InOrderHas
    <2> QED
      BY ONLY <2>1, <2>2, <2>3, table \in Seq(Row)
  <1>3. CASE Connection \/ ReportTag \/ UNCHANGED storeVars
    BY <1>3 DEF Connection, ReportTag, storeVars
  <1> QED
    BY <1>1, <1>2, <1>3 DEF StoreNext

(* So does the table that was loaded.                                      *)
LEMMA LoadedAre == StoreInit => table \in Seq(Row)
  <1>1. \A row \in Row : <<row>> \in Seq(Row)
    OBVIOUS
  <1>2. <<>> \in Seq(Row)
    BY ONLY EmptySeq
  <1> QED
    BY ONLY <1>1, <1>2 DEF StoreInit

(* The columns of the conditions are those that are asked for.             *)
LEMMA AskedAre ==
  ASSUME NEW items
  PROVE  /\ Asked(items) \in Seq(AllColumn)
         /\ \A i \in 1 .. Len(Asked(items)) : items[Asked(items)[i]].mode # "NOCHECK"
         /\ \A col \in AllColumn : items[col].mode # "NOCHECK" =>
              \E i \in 1 .. Len(Asked(items)) : Asked(items)[i] = col
  <1>1. PICK which :
          which = {i \in DOMAIN ColumnOrder : items[ColumnOrder[i]].mode # "NOCHECK"}
    OBVIOUS
  <1>2. PICK a : a = InOrder(ColumnOrder, which)
    OBVIOUS
  <1>3. Asked(items) = a
    BY ONLY <1>1, <1>2 DEF Asked
  <1>4. a \in Seq(AllColumn) /\ Picked(a, ColumnOrder, which, Len(ColumnOrder))
    BY ONLY <1>2, Order, InOrderHas
  <1>5. /\ \A j \in 1 .. Len(a) : \E h \in 1 .. 8 : h \in which /\ a[j] = ColumnOrder[h]
        /\ \A h \in 1 .. 8 : h \in which => \E j \in 1 .. Len(a) : a[j] = ColumnOrder[h]
    BY ONLY <1>4, Order DEF Picked
  <1>6. \A i \in 1 .. Len(a) : items[a[i]].mode # "NOCHECK"
    BY ONLY <1>1, <1>5
  <1>7. ASSUME NEW col \in AllColumn, items[col].mode # "NOCHECK"
        PROVE  \E i \in 1 .. Len(a) : a[i] = col
    <2>1. PICK h \in 1 .. 8 : ColumnOrder[h] = col
      BY ONLY Order, col \in AllColumn
    <2>2. h \in which
      BY ONLY <1>1, <1>7, <2>1, Order
    <2> QED
      BY ONLY <1>5, <2>1, <2>2
  <1> QED
    BY ONLY <1>3, <1>4, <1>6, <1>7

(* A condition, for each kind of it.                                       *)
LEMMA HoldsIs ==
  ASSUME NEW cond, NEW x
  PROVE  /\ cond.mode = "EQUAL" => (Holds(cond, x) <=> x = cond.from)
         /\ cond.mode = "RANGE" => (Holds(cond, x) <=> cond.from <= x /\ x <= cond.to)
         /\ cond.mode = "BETWEEN" =>
              (Holds(cond, x) <=> Atoi(cond.from) <= Atoi(x) /\ Atoi(x) <= Atoi(cond.to))
         /\ cond.mode = "EXACT" => (Holds(cond, x) <=> SameText(x, cond.from))
         /\ cond.mode = "FUZZY" /\ NoPattern(cond.from) =>
              (Holds(cond, x) <=> StartsWith(x, cond.from))
  <1>1. CASE cond.mode = "EQUAL"
    BY ONLY <1>1 DEF Holds
  <1>2. CASE cond.mode = "RANGE"
    BY ONLY <1>2 DEF Holds
  <1>3. CASE cond.mode = "BETWEEN"
    BY ONLY <1>3 DEF Holds
  <1>4. CASE cond.mode = "EXACT"
    BY ONLY <1>4 DEF Holds
  <1>5. CASE cond.mode = "FUZZY" /\ NoPattern(cond.from)
    BY ONLY <1>5 DEF Holds
  <1> QED
    BY ONLY <1>1, <1>2, <1>3, <1>4, <1>5

(* What was read from the question holds of a value where the criterion    *)
(* does, although a range of one number is written as a comparison.        *)
LEMMA ConditionHolds ==
  ASSUME NEW col \in AllColumn, NEW c, Asks(col, c), c.mode # "NOCHECK",
         NEW items, Meets(items[col], c), NEW x, col \in NumberColumn => x \in Nat
  PROVE  Holds(Condition(items, col), x) <=> Holds(c, x)
  <1>1. PICK item : item = items[col]
    OBVIOUS
  <1>2. Meets(item, c)
    BY ONLY <1>1, Meets(items[col], c)
  <1>3. CASE c.mode = "RANGE"
    <2>1. c.from \in Nat /\ c.to \in Nat /\ col \in NumberColumn
      BY ONLY <1>3, Asks(col, c) DEF Asks, Askable
    <2>2. item.mode = "RANGE" /\ item.from = c.from /\ item.to = c.to
      BY ONLY <1>2, <1>3 DEF Meets
    <2>3. Holds(c, x) <=> c.from <= x /\ x <= c.to
      BY ONLY <1>3, HoldsIs
    <2>4. CASE c.from = c.to
      <3>1. PICK cond : cond = Criterion("EQUAL", c.from, 0)
        OBVIOUS
      <3>2. cond.mode = "EQUAL" /\ cond.from = c.from
        BY ONLY <3>1 DEF Criterion
      <3>3. Condition(items, col) = cond
        BY ONLY <1>1, <2>2, <2>4, <3>1 DEF Condition
      <3>4. Holds(cond, x) <=> x = cond.from
        BY ONLY <3>2, HoldsIs
      <3>5. x \in Nat
        BY ONLY <2>1, col \in NumberColumn => x \in Nat
      <3>6. x = c.from <=> c.from <= x /\ x <= c.to
        BY ONLY <2>1, <2>4, <3>5
      <3> QED
        BY ONLY <2>3, <3>2, <3>3, <3>4, <3>6
    <2>5. CASE c.from # c.to
      <3>1. Condition(items, col) = item
        BY ONLY <1>1, <2>2, <2>5 DEF Condition
      <3>2. Holds(item, x) <=> item.from <= x /\ x <= item.to
        BY ONLY <2>2, HoldsIs
      <3> QED
        BY ONLY <2>2, <2>3, <3>1, <3>2
    <2> QED
      BY ONLY <2>4, <2>5
  <1>4. CASE c.mode = "BETWEEN"
    <2>1. item.mode = "BETWEEN" /\ item.from = c.from /\ item.to = c.to
      BY ONLY <1>2, <1>4 DEF Meets
    <2>2. Condition(items, col) = item
      BY ONLY <1>1, <2>1 DEF Condition
    <2>3. /\ Holds(c, x) <=> Atoi(c.from) <= Atoi(x) /\ Atoi(x) <= Atoi(c.to)
          /\ Holds(item, x) <=> Atoi(item.from) <= Atoi(x) /\ Atoi(x) <= Atoi(item.to)
      BY ONLY <1>4, <2>1, HoldsIs
    <2> QED
      BY ONLY <2>1, <2>2, <2>3
  <1>5. CASE c.mode \in {"FUZZY", "EXACT"}
    <2>1. item.mode = c.mode /\ item.from = c.from
      BY ONLY <1>2, <1>5 DEF Meets
    <2>2. Condition(items, col) = item
      BY ONLY <1>1, <1>5, <2>1 DEF Condition
    <2>3. CASE c.mode = "FUZZY"
      <3>1. NoPattern(c.from) /\ NoPattern(item.from)
        BY ONLY <2>1, <2>3, Asks(col, c) DEF Asks, Sayable
      <3>2. /\ Holds(c, x) <=> StartsWith(x, c.from)
            /\ Holds(item, x) <=> StartsWith(x, item.from)
        BY ONLY <2>1, <2>3, <3>1, HoldsIs
      <3> QED
        BY ONLY <2>1, <2>2, <3>2
    <2>4. CASE c.mode = "EXACT"
      <3>1. /\ Holds(c, x) <=> SameText(x, c.from)
            /\ Holds(item, x) <=> SameText(x, item.from)
        BY ONLY <2>1, <2>4, HoldsIs
      <3> QED
        BY ONLY <2>1, <2>2, <3>1
    <2> QED
      BY ONLY <1>5, <2>3, <2>4
  <1>6. c.mode \in {"RANGE", "BETWEEN", "FUZZY", "EXACT"}
    BY ONLY Asks(col, c), c.mode # "NOCHECK" DEF Asks, Askable
  <1> QED
    BY ONLY <1>3, <1>4, <1>5, <1>6

(* What was read from the question is written between apostrophes that     *)
(* only the query has.                                                     *)
LEMMA ConditionIsLiteral ==
  ASSUME NEW col, NEW c, Asks(col, c), NEW items, Meets(items[col], c)
  PROVE  \A t \in TextsOf(Condition(items, col)) : Literal(t)
  <1>1. PICK item : item = items[col]
    OBVIOUS
  <1>2. PICK cond : cond = Condition(items, col)
    OBVIOUS
  <1>3. Meets(item, c)
    BY ONLY <1>1, Meets(items[col], c)
  <1>4. CASE item.mode = "RANGE"
    <2>1. cond.mode = "EQUAL" \/ cond.mode = "RANGE"
      <3>1. cond = IF item.from = item.to THEN Criterion("EQUAL", item.from, 0) ELSE item
        BY ONLY <1>1, <1>2, <1>4 DEF Condition
      <3>2. Criterion("EQUAL", item.from, 0).mode = "EQUAL"
        BY ONLY Zenon DEF Criterion
      <3> QED
        BY ONLY <1>4, <3>1, <3>2
    <2>2. TextsOf(cond) = {}
      BY ONLY <2>1 DEF TextsOf
    <2> QED
      BY ONLY <1>2, <2>2
  <1>5. CASE item.mode # "RANGE"
    <2>1. cond = item
      BY ONLY <1>1, <1>2, <1>5 DEF Condition
    <2>2. c.mode \in {"NOCHECK", "BETWEEN", "FUZZY", "EXACT"}
      BY ONLY <1>3, <1>5, Asks(col, c) DEF Asks, Askable, Meets
    <2>3. CASE c.mode = "NOCHECK"
      <3>1. TextsOf(item) = {}
        <4>1. item.mode = "NOCHECK"
          BY ONLY <1>3, <2>3 DEF Meets
        <4> QED
          BY ONLY <4>1 DEF TextsOf
      <3> QED
        BY ONLY <1>2, <2>1, <3>1
    <2>4. CASE c.mode = "BETWEEN"
      <3>1. item.mode = "BETWEEN" /\ item.from = c.from /\ item.to = c.to
        BY ONLY <1>3, <2>4 DEF Meets
      <3>2. TextsOf(item) = {item.from, item.to} /\ TextsOf(c) = {c.from, c.to}
        BY ONLY <2>4, <3>1 DEF TextsOf
      <3> QED
        BY ONLY <1>2, <2>1, <3>1, <3>2, Asks(col, c) DEF Asks, Sayable
    <2>5. CASE c.mode \in {"FUZZY", "EXACT"}
      <3>1. item.mode = c.mode /\ item.from = c.from
        BY ONLY <1>3, <2>5 DEF Meets
      <3>2. TextsOf(item) = {item.from} /\ TextsOf(c) = {c.from}
        BY ONLY <2>5, <3>1 DEF TextsOf
      <3> QED
        BY ONLY <1>2, <2>1, <3>1, <3>2, Asks(col, c) DEF Asks, Sayable
    <2> QED
      BY ONLY <2>2, <2>3, <2>4, <2>5
  <1> QED
    BY ONLY <1>4, <1>5

(* The conditions that are written for what a question was read as hold of *)
(* a row exactly when each of its criteria does.                           *)
LEMMA ItemsHold ==
  ASSUME NEW question, \A col \in AllColumn : Asks(col, question[col]),
         NEW items, \A col \in AllColumn : Meets(items[col], question[col]),
         NEW clauses, clauses = GetCheckItems(items),
         NEW row, Typed(row)
  PROVE  (\A i \in DOMAIN clauses : Holds(clauses[i].cond, row[clauses[i].col]))
         <=> (\A col \in AllColumn :
                question[col].mode # "NOCHECK" => Holds(question[col], row[col]))
  <1>1. PICK a : a = Asked(items)
    OBVIOUS
  <1>2. /\ a \in Seq(AllColumn)
        /\ \A i \in 1 .. Len(a) : items[a[i]].mode # "NOCHECK"
        /\ \A col \in AllColumn : items[col].mode # "NOCHECK" =>
             \E i \in 1 .. Len(a) : a[i] = col
    BY ONLY <1>1, AskedAre
  <1>3. clauses = [i \in DOMAIN a |->
                     [word |-> IF i = 1 THEN "where" ELSE "and",
                      col |-> a[i], cond |-> Condition(items, a[i])]]
    BY ONLY <1>1, clauses = GetCheckItems(items) DEF GetCheckItems
  <1>4. DOMAIN a = 1 .. Len(a)
    BY ONLY <1>2
  <1>5. DOMAIN clauses = 1 .. Len(a)
    BY ONLY <1>3, <1>4
  <1>6. \A i \in 1 .. Len(a) : clauses[i].col = a[i] /\ clauses[i].cond = Condition(items, a[i])
    BY ONLY <1>3, <1>4
  <1>7. \A col \in AllColumn : items[col].mode = question[col].mode
    BY ONLY \A col \in AllColumn : Meets(items[col], question[col]) DEF Meets
  <1>8. ASSUME NEW col \in AllColumn, question[col].mode # "NOCHECK"
         PROVE  Holds(Condition(items, col), row[col]) <=> Holds(question[col], row[col])
    <2>1. PICK c, x : c = question[col] /\ x = row[col]
      OBVIOUS
    <2>2. Asks(col, c) /\ c.mode # "NOCHECK" /\ Meets(items[col], c)
      BY ONLY <1>8, <2>1, \A d \in AllColumn : Asks(d, question[d]),
              \A d \in AllColumn : Meets(items[d], question[d])
    <2>3. col \in NumberColumn => x \in Nat
      BY ONLY <2>1, Typed(row) DEF Typed
    <2>4. Holds(Condition(items, col), x) <=> Holds(c, x)
      BY ONLY <2>2, <2>3, col \in AllColumn, ConditionHolds
    <2> QED
      BY ONLY <2>1, <2>4
  <1>9. ASSUME \A i \in DOMAIN clauses : Holds(clauses[i].cond, row[clauses[i].col]),
                NEW col \in AllColumn, question[col].mode # "NOCHECK"
         PROVE  Holds(question[col], row[col])
    <2>1. PICK i \in 1 .. Len(a) : a[i] = col
      BY ONLY <1>2, <1>7, <1>9
    <2>2. Holds(Condition(items, col), row[col])
      BY ONLY <1>5, <1>6, <1>9, <2>1
    <2> QED
      BY ONLY <1>8, <1>9, <2>2
  <1>10. ASSUME \A col \in AllColumn :
                  question[col].mode # "NOCHECK" => Holds(question[col], row[col]),
                NEW i \in 1 .. Len(a)
         PROVE  Holds(clauses[i].cond, row[clauses[i].col])
    <2>1. PICK col \in AllColumn : col = a[i]
      BY ONLY <1>2, i \in 1 .. Len(a), ElementOfSeq
    <2>2. question[col].mode # "NOCHECK"
      BY ONLY <1>2, <1>7, <2>1
    <2>3. Holds(Condition(items, col), row[col])
      BY ONLY <1>8, <1>10, <2>2
    <2> QED
      BY ONLY <1>6, <2>1, <2>3
  <1> QED
    BY ONLY <1>5, <1>9, <1>10

(* So the query that is written for a question says what it asks.          *)
LEMMA ClausesHold ==
  ASSUME NEW question, \A col \in AllColumn : Asks(col, question[col]),
         NEW clauses, clauses = GetCheckItems(SetCheckItems(AskAll(question))),
         NEW row, Typed(row)
  PROVE  (\A i \in DOMAIN clauses : Holds(clauses[i].cond, row[clauses[i].col]))
         <=> (\A col \in AllColumn :
                question[col].mode # "NOCHECK" => Holds(question[col], row[col]))
  <1>1. PICK items : items = SetCheckItems(AskAll(question))
    OBVIOUS
  <1>2. \A col \in AllColumn : Meets(items[col], question[col])
    <2>1. \A col \in AllColumn : Meets(Item(AskAll(question), col), question[col])
      BY ONLY \A col \in AllColumn : Asks(col, question[col]), AllAsked
    <2> QED
      BY ONLY <1>1, <2>1 DEF Item
  <1>3. clauses = GetCheckItems(items)
    BY ONLY <1>1, clauses = GetCheckItems(SetCheckItems(AskAll(question)))
  <1> QED
    BY ONLY <1>2, <1>3, Typed(row), \A col \in AllColumn : Asks(col, question[col]), ItemsHold

(* In every table that consists of rows, a question that can be said finds *)
(* what it asks for.                                                       *)
LEMMA RowsAreFound == table \in Seq(Row) => FindsWhatIsAsked
  <1> SUFFICES ASSUME table \in Seq(Row), NEW question \in Question, Said(question)
               PROVE  /\ WellFormed(Clauses[question])
                      /\ Select(table, Clauses[question]) =
                           InOrder(table, {i \in DOMAIN table :
                             \A col \in DOMAIN question :
                               question[col].mode # "NOCHECK" =>
                                 Holds(question[col], table[i][col])})
    BY DEF FindsWhatIsAsked
  <1>1. DOMAIN question = AllColumn /\ \A col \in AllColumn : Asks(col, question[col])
    BY QuestionAssumption DEF Said, Asks
  <1>2. PICK clauses : /\ clauses = Clauses[question]
                       /\ clauses = GetCheckItems(SetCheckItems(AskAll(question)))
    BY DEF Clauses
  <1>3. WellFormed(clauses)
    <2>1. PICK items, a : items = SetCheckItems(AskAll(question)) /\ a = Asked(items)
      OBVIOUS
    <2>2. clauses = [i \in DOMAIN a |->
                       [word |-> IF i = 1 THEN "where" ELSE "and",
                        col |-> a[i], cond |-> Condition(items, a[i])]]
      BY ONLY <1>2, <2>1 DEF GetCheckItems
    <2>3. \A col \in AllColumn : Meets(items[col], question[col])
      <3>1. \A col \in AllColumn : Meets(Item(AskAll(question), col), question[col])
        BY ONLY <1>1, AllAsked
      <3> QED
        BY ONLY <2>1, <3>1 DEF Item
    <2>4. a \in Seq(AllColumn)
      BY ONLY <2>1, AskedAre
    <2>5. ASSUME NEW i \in DOMAIN a
          PROVE  \A t \in TextsOf(clauses[i].cond) : Literal(t)
      <3>1. PICK col \in AllColumn : col = a[i]
        BY ONLY <2>4, i \in DOMAIN a, ElementOfSeq
      <3>2. PICK c : c = question[col]
        OBVIOUS
      <3>3. Asks(col, c) /\ Meets(items[col], c)
        BY ONLY <1>1, <2>3, <3>2, col \in AllColumn
      <3>4. \A t \in TextsOf(Condition(items, col)) : Literal(t)
        BY ONLY <3>3, ConditionIsLiteral
      <3>5. clauses[i].cond = Condition(items, col)
        BY ONLY <2>2, <3>1, i \in DOMAIN a
      <3> QED
        BY ONLY <3>4, <3>5
    <2>6. /\ DOMAIN clauses = DOMAIN a
          /\ \A i \in DOMAIN a : clauses[i].word = IF i = 1 THEN "where" ELSE "and"
      BY ONLY <2>2
    <2> QED
      BY ONLY <2>5, <2>6 DEF WellFormed
  <1>4. ASSUME NEW r \in DOMAIN table
        PROVE  (\A i \in DOMAIN clauses : Holds(clauses[i].cond, table[r][clauses[i].col]))
               <=> (\A col \in AllColumn :
                      question[col].mode # "NOCHECK" => Holds(question[col], table[r][col]))
    <2>1. PICK row \in Row : row = table[r]
      BY ONLY table \in Seq(Row), r \in DOMAIN table, ElementOfSeq
    <2>2. Typed(row)
      BY ONLY row \in Row, RowsAreTyped
    <2>3. (\A i \in DOMAIN clauses : Holds(clauses[i].cond, row[clauses[i].col]))
          <=> (\A col \in AllColumn :
                 question[col].mode # "NOCHECK" => Holds(question[col], row[col]))
      BY ONLY <1>1, <1>2, <2>2, ClausesHold
    <2> QED
      BY ONLY <2>1, <2>3
  <1>5. {r \in DOMAIN table :
           \A i \in DOMAIN clauses : Holds(clauses[i].cond, table[r][clauses[i].col])}
        = {r \in DOMAIN table : \A col \in AllColumn :
             question[col].mode # "NOCHECK" => Holds(question[col], table[r][col])}
    BY ONLY <1>4
  <1>6. Select(table, clauses) =
          InOrder(table, {r \in DOMAIN table : \A col \in AllColumn :
            question[col].mode # "NOCHECK" => Holds(question[col], table[r][col])})
    BY ONLY <1>5 DEF Select
  <1> QED
    BY ONLY <1>1, <1>2, <1>3, <1>6

(* Whatever combination of criteria is asked for, in whatever table: the   *)
(* query that is written for a question that can be said is well formed    *)
(* and finds exactly the rows that fulfil each criterion, in their order.  *)
THEOREM FindsAsked == StoreSpec => []FindsWhatIsAsked
  <1>1. StoreInit => table \in Seq(Row)
    BY LoadedAre
  <1>2. table \in Seq(Row) /\ [StoreNext]_storeVars => (table \in Seq(Row))'
    BY TableStays
  <1> QED
    BY <1>1, <1>2, RowsAreFound, PTL DEF StoreSpec

-----------------------------------------------------------------------------
(* A text that is stored as it is.                                         *)

(* A text without a quote that does not end with a backslash.              *)
Raw(e) == e # <<>> /\ (\A k \in 1 .. Len(e) : e[k] # Quote)
            /\ e[Len(e)] \notin Space \union {Backslash}

(* The string of such a text ends at its own quote.                        *)
LEMMA RawSpans ==
  ASSUME NEW e \in Chars, Raw(e)
  PROVE  Spans(e)
  <1> SUFFICES ASSUME NEW s \in Chars, NEW i \in Nat, i > 0, Stands(s, i, Quoted(e))
               PROVE  StringEnd(s, i) = i + Len(e) + 1
    BY DEF Spans
  <1>1. PICK n \in Nat : n = Len(e) /\ n > 0
    BY DEF Raw, Chars
  <1>2. PICK q \in Chars : q = Quoted(e) /\ Len(q) = n + 2
    BY ONLY <1>1, e \in Chars, QuotedLen
  <1>3. Len(s) \in Nat /\ i + n + 1 <= Len(s) /\ \A k \in 1 .. n + 2 : s[i + k - 1] = q[k]
    BY ONLY <1>1, <1>2, Stands(s, i, Quoted(e)), s \in Chars, i \in Nat DEF Stands, Chars
  <1>4. q[n + 2] = Quote /\ \A k \in 1 .. n : q[1 + k] = e[k]
    <2>1. PICK a \in Chars : a = <<Quote>> /\ Len(a) = 1 /\ a[1] = Quote
      BY ONLY Texts, CharAssumption
    <2>2. q = (a \o e) \o a
      BY ONLY <1>2, <2>1 DEF Quoted
    <2>3. /\ \A k \in 1 .. Len(e) : ((a \o e) \o a)[Len(a) + k] = e[k]
          /\ \A k \in 1 .. Len(a) : ((a \o e) \o a)[Len(a) + Len(e) + k] = a[k]
      BY ONLY e \in Chars, a \in Chars, ThreeParts
    <2>4. q[1 + n + 1] = Quote /\ \A k \in 1 .. n : q[1 + k] = e[k]
      BY ONLY <1>1, <2>1, <2>2, <2>3
    <2>5. 1 + n + 1 = n + 2
      BY ONLY n \in Nat
    <2> QED
      BY ONLY <2>4, <2>5
  <1>5. s[i + n + 1] = Quote /\ \A k \in 1 .. n : s[i + k] = e[k]
    <2>1. s[i + (n + 2) - 1] = q[n + 2]
      BY ONLY <1>3, n \in Nat
    <2>2. \A k \in 1 .. n : s[i + (1 + k) - 1] = q[1 + k] /\ i + (1 + k) - 1 = i + k
      BY ONLY <1>3, n \in Nat, i \in Nat
    <2>3. i + (n + 2) - 1 = i + n + 1
      BY ONLY n \in Nat, i \in Nat
    <2> QED
      BY ONLY <1>4, <2>1, <2>2, <2>3
  <1>6. i \in 1 .. Len(s)
    BY ONLY <1>3, n \in Nat, i \in Nat, i > 0
  <1>7. PICK x : /\ Escapes(s, i, x)
                 /\ StringEnd(s, i) = IF Ends(s, i, x) = {} THEN i ELSE Min(Ends(s, i, x))
    BY ONLY <1>6, s \in Chars, StringEndIs
  <1>8. i + n + 1 \in Ends(s, i, x)
    <2>1. i + n + 1 \in i + 1 .. Len(s) /\ (i + n + 1) - 1 = i + n
      BY ONLY <1>3, n \in Nat, i \in Nat
    <2>2. s[(i + n + 1) - 1] # Backslash
      BY ONLY <1>1, <1>5, <2>1, Raw(e) DEF Raw
    <2>3. ~x[i + n + 1]
      BY ONLY <1>7, <2>1, <2>2 DEF Escapes
    <2> QED
      BY ONLY <1>5, <2>1, <2>3 DEF Ends
  <1>9. \A j \in Ends(s, i, x) : i + n + 1 <= j
    <2>1. ASSUME NEW j \in i + 1 .. Len(s), j < i + n + 1 PROVE s[j] # Quote
      <3>1. j - i \in 1 .. n /\ i + (j - i) = j
        BY ONLY <1>3, <2>1, n \in Nat, i \in Nat
      <3> QED
        BY ONLY <1>1, <1>5, <3>1, Raw(e) DEF Raw
    <2> QED
      BY ONLY <1>3, <2>1, n \in Nat, i \in Nat DEF Ends
  <1>10. Min(Ends(s, i, x)) = i + n + 1
    <2>1. PICK T : T = Ends(s, i, x)
      OBVIOUS
    <2>2. T \in SUBSET Nat /\ T # {}
      BY ONLY <1>3, <1>8, <2>1, i \in Nat DEF Ends
    <2>3. Min(T) \in T /\ \A y \in T : Min(T) <= y
      BY ONLY <2>2, MinIn
    <2> QED
      BY ONLY <1>8, <1>9, <2>1, <2>2, <2>3, n \in Nat, i \in Nat
  <1> QED
    BY ONLY <1>1, <1>7, <1>8, <1>10

(* It loses nothing when the blanks outside strings go.                    *)
LEMMA RawKeeps ==
  ASSUME NEW e \in Chars, Raw(e)
  PROVE  Keeps(e, TRUE, TRUE)
  <1> SUFFICES ASSUME NEW s \in Chars, NEW u, NEW i \in Nat, i > 0, Stands(s, i, e),
                      Trimming(s, u), u[i - 1].quoted = TRUE, u[i - 1].escaped = FALSE
               PROVE  u[i + Len(e) - 1] =
                        [text |-> u[i - 1].text \o e, quoted |-> TRUE, escaped |-> FALSE]
    BY DEF Keeps
  <1>1. PICK n \in Nat : n = Len(e) /\ n > 0
    BY DEF Raw, Chars
  <1>2. Len(s) \in Nat /\ i + n <= Len(s) + 1 /\ \A k \in 1 .. n : s[i + k - 1] = e[k]
    BY ONLY <1>1, Stands(s, i, e), s \in Chars DEF Stands, Chars
  <1>3. /\ u \in [0 .. Len(s) -> TrimState]
        /\ \A j \in 1 .. Len(s) : u[j] = TrimChar(u[j - 1], s[j])
    BY ONLY Trimming(s, u) DEF Trimming
  <1>4. PICK b \in Nat : b = i - 1 /\ b + n <= Len(s)
    BY ONLY <1>2, i \in Nat, i > 0, n \in Nat
  <1>5. \A k \in 0 .. n : u[b + k] \in TrimState
    <2>1. \A k \in 0 .. n : b + k \in 0 .. Len(s)
      BY ONLY <1>2, <1>4, n \in Nat, b \in Nat
    <2>2. \A m \in 0 .. Len(s) : u[m] \in TrimState
      BY ONLY <1>3
    <2> QED
      BY ONLY <2>1, <2>2
  <1>6. ASSUME NEW k \in Nat, k < n
        PROVE  u[b + (k + 1)] = TrimChar(u[b + k], e[k + 1]) /\ k + 1 \in 1 .. n
    <2>1. b + (k + 1) \in 1 .. Len(s) /\ (b + (k + 1)) - 1 = b + k /\ k + 1 \in 1 .. n
      BY ONLY <1>2, <1>4, <1>6, n \in Nat
    <2>2. s[b + (k + 1)] = e[k + 1]
      <3>1. i + (k + 1) - 1 = b + (k + 1)
        BY ONLY <1>4, i \in Nat, k \in Nat
      <3> QED
        BY ONLY <1>2, <2>1, <3>1
    <2> QED
      BY ONLY <1>3, <2>1, <2>2
  <1> DEFINE Like(x, k) == x.quoted = TRUE /\ x.text = u[b].text \o SubSeq(e, 1, k)
             P == {k \in Nat : k <= n => Like(u[b + k], k)}
  <1> HIDE DEF P, Like
  <1>7. 0 \in P
    <2>1. SubSeq(e, 1, 0) = <<>> /\ b + 0 = b
      BY ONLY b \in Nat, e \in Chars DEF Chars
    <2>2. u[b] \in TrimState
      BY ONLY <1>5, <2>1, n \in Nat
    <2>3. u[b].text \o <<>> = u[b].text
      BY ONLY <2>2 DEF TrimState, Chars
    <2>4. Like(u[b + 0], 0)
      BY ONLY <1>4, <2>1, <2>3, u[i - 1].quoted = TRUE DEF Like
    <2>5. 0 \in Nat
      OBVIOUS
    <2> QED
      BY ONLY <2>4, <2>5, Zenon DEF P
  <1>8. ASSUME NEW k \in Nat, k < n, k \in P PROVE k + 1 \in P
    <2>1. u[b + (k + 1)] = TrimChar(u[b + k], e[k + 1]) /\ k + 1 \in 1 .. n
      BY ONLY <1>6, <1>8
    <2>2. /\ u[b + k] \in TrimState /\ u[b + k].quoted = TRUE
          /\ u[b + k].text = u[b].text \o SubSeq(e, 1, k)
      <3>1. k \in 0 .. n
        BY ONLY <1>8, n \in Nat
      <3>2. k \in P /\ k <= n
        BY ONLY <1>8, <3>1
      <3>3. Like(u[b + k], k)
        BY ONLY <3>2, Zenon DEF P
      <3> QED
        BY ONLY <1>5, <3>1, <3>3 DEF Like
    <2>3. e[k + 1] # Quote
      BY ONLY <1>1, <2>1, Raw(e) DEF Raw
    <2>4. u[b + (k + 1)].quoted = TRUE /\ u[b + (k + 1)].text = Append(u[b + k].text, e[k + 1])
      <3>1. PICK x, c, y : x = u[b + k] /\ c = e[k + 1] /\ y = u[b + (k + 1)]
        OBVIOUS
      <3>2. y = TrimChar(x, c) /\ x.quoted = TRUE /\ c # Quote
        BY ONLY <2>1, <2>2, <2>3, <3>1
      <3>3. y.quoted = TRUE /\ y.text = Append(x.text, c)
        BY ONLY <3>2 DEF TrimChar
      <3> QED
        BY ONLY <3>1, <3>3
    <2>5. /\ SubSeq(e, 1, k) \in Chars /\ e[k + 1] \in Char
          /\ SubSeq(e, 1, k + 1) = Append(SubSeq(e, 1, k), e[k + 1])
      BY ONLY <1>1, <1>8, e \in Chars, OneMore
    <2>6. u[b] \in TrimState
      BY ONLY <1>5, n \in Nat, b \in Nat
    <2>7. Append(u[b].text \o SubSeq(e, 1, k), e[k + 1])
          = u[b].text \o Append(SubSeq(e, 1, k), e[k + 1])
      <3>0. u[b].text \in Seq(Char) /\ SubSeq(e, 1, k) \in Seq(Char) /\ e[k + 1] \in Char
        BY ONLY <2>5, <2>6 DEF TrimState, Chars
      <3>1. PICK x, y \in Seq(Char), c \in Char : x = u[b].text /\ y = SubSeq(e, 1, k) /\ c = e[k + 1]
        BY ONLY <3>0
      <3>2. PICK w \in Seq(Char) : w = x \o y
        BY ONLY x \in Seq(Char), y \in Seq(Char), ConcatProperties
      <3>3. Append(w, c) = w \o <<c>> /\ Append(y, c) = y \o <<c>>
        BY ONLY AppendIsConcat, w \in Seq(Char), y \in Seq(Char), c \in Char
      <3>4. PICK d \in Seq(Char) : d = <<c>>
        BY ONLY c \in Char, Short DEF Chars
      <3>5. (x \o y) \o d = x \o (y \o d)
        BY ONLY ConcatAssociative, x \in Seq(Char), y \in Seq(Char), d \in Seq(Char)
      <3>6. Append(x \o y, c) = x \o Append(y, c)
        BY ONLY <3>2, <3>3, <3>4, <3>5
      <3> QED
        BY ONLY <3>1, <3>6
    <2>8. Like(u[b + (k + 1)], k + 1)
      BY ONLY <2>2, <2>4, <2>5, <2>7 DEF Like
    <2>9. k + 1 \in Nat
      BY ONLY k \in Nat
    <2> QED
      BY ONLY <2>8, <2>9, Zenon DEF P
  <1>9. n \in P
    <2>1. \A k \in Nat : k < n /\ k \in P => k + 1 \in P
      BY ONLY <1>8
    <2>2. 0 .. n \subseteq P
      BY ONLY <1>7, <2>1, n \in Nat, UpTo
    <2> QED
      BY ONLY <2>2, n \in Nat
  <1>10. u[b + n].quoted = TRUE /\ u[b + n].text = u[b].text \o e
    <2>1. SubSeq(e, 1, n) = e
      BY ONLY <1>1, e \in Chars DEF Chars
    <2>2. n \in P /\ n <= n
      BY ONLY <1>9, n \in Nat
    <2>3. Like(u[b + n], n)
      BY ONLY <2>2, Zenon DEF P
    <2> QED
      BY ONLY <2>1, <2>3 DEF Like
  <1>11. u[b + n].escaped = FALSE
    <2>1. PICK k \in Nat : k + 1 = n /\ k < n
      BY ONLY <1>1
    <2>2. u[b + n] = TrimChar(u[b + k], e[n])
      BY ONLY <1>6, <2>1
    <2>3. e[n] \notin Space /\ e[n] # Backslash
      BY ONLY <1>1, Raw(e) DEF Raw
    <2>4. PICK x, c, y : x = u[b + k] /\ c = e[n] /\ y = u[b + n]
      OBVIOUS
    <2>5. y = TrimChar(x, c) /\ c \notin Space /\ c # Backslash
      BY ONLY <2>2, <2>3, <2>4
    <2>6. y.escaped = FALSE
      BY ONLY <2>5 DEF TrimChar
    <2> QED
      BY ONLY <2>4, <2>6
  <1>12. u[b + n] \in TrimState
    BY ONLY <1>5, n \in Nat
  <1>13. u[b + n] = [text |-> u[b].text \o e, quoted |-> TRUE, escaped |-> FALSE]
    BY ONLY <1>10, <1>11, <1>12 DEF TrimState
  <1>14. i + Len(e) - 1 = b + n
    BY ONLY <1>1, <1>4, i \in Nat
  <1> QED
    BY ONLY <1>4, <1>13, <1>14

(* So a document can carry it.                                             *)
LEMMA RawIsToken == ASSUME NEW e \in Chars, Raw(e) PROVE e \in Token
  BY RawSpans, RawKeeps DEF Token

-----------------------------------------------------------------------------
(* Values with a text that is stored as it is.                             *)

(* Value v has at most k levels, and it is read again from what is written *)
(* for it, on every level.                                                 *)
Whole(k, v) ==
  \A d \in k .. MaxDepth : v \in Doc[d] /\ ReadsWritten(d, v, Written[d][v])

(* It is so with every bound that is not smaller.                          *)
LEMMA WholeUp ==
  ASSUME NEW k \in Nat, NEW m \in Nat, k <= m, NEW v, Whole(k, v)
  PROVE  Whole(m, v)
  <1>1. \A d \in m .. MaxDepth : d \in k .. MaxDepth
    BY DepthAssumption
  <1> QED
    BY ONLY <1>1, Whole(k, v) DEF Whole

(* The kinds of a value.                                                   *)
Framed(v, S) ==
  /\ v.type \in Type /\ v.val \in Chars /\ v.keys \in Seq(Chars) /\ v.kids \in Seq(S)
  /\ v.type = "OBJECT" => Len(v.keys) = Len(v.kids)
  /\ v = [type |-> v.type, val |-> v.val, keys |-> v.keys, kids |-> v.kids]

(* A value of such values is one again, on the next level.                 *)
LEMMA WholeLevel ==
  ASSUME NEW k \in 1 .. MaxDepth, NEW S, \A w \in S : Whole(k - 1, w),
         NEW v, Framed(v, S), Shaped(v, S)
  PROVE  Whole(k, v)
  <1> SUFFICES ASSUME NEW d \in k .. MaxDepth
               PROVE  v \in Doc[d] /\ ReadsWritten(d, v, Written[d][v])
    BY DEF Whole
  <1>1. d \in 1 .. MaxDepth /\ d - 1 \in k - 1 .. MaxDepth
    BY DepthAssumption
  <1>2. \A w \in S : w \in Doc[d - 1] /\ ReadsWritten(d - 1, w, Written[d - 1][w])
    BY ONLY <1>1, \A w \in S : Whole(k - 1, w) DEF Whole
  <1>3. v \in Doc[d]
    <2>1. PICK R : R = Doc[d - 1]
      OBVIOUS
    <2>2. v.kids \in Seq(R)
      <3>1. S \subseteq R
        BY ONLY <1>2, <2>1
      <3>2. PICK q \in Seq(S) : q = v.kids
        BY ONLY Framed(v, S) DEF Framed
      <3>3. q \in Seq(R)
        BY ONLY <3>1, q \in Seq(S)
      <3> QED
        BY ONLY <3>2, <3>3
    <2>3. v \in [type : Type, val : Chars, keys : Seq(Chars), kids : Seq(R)]
      BY ONLY <2>2, Framed(v, S) DEF Framed
    <2>4. v.type = "OBJECT" => Len(v.keys) = Len(v.kids)
      BY ONLY Framed(v, S) DEF Framed
    <2>5. v \in Doc[d] <=>
            /\ v \in [type : Type, val : Chars, keys : Seq(Chars), kids : Seq(Doc[d - 1])]
            /\ v.type = "OBJECT" => Len(v.keys) = Len(v.kids)
      BY ONLY <1>1, IsDoc
    <2> QED
      BY ONLY <2>1, <2>3, <2>4, <2>5
  <1>4. ReadsWritten(d, v, Written[d][v])
    <2>1. \A w \in S : ReadsWritten(d - 1, w, Written[d - 1][w])
      BY ONLY <1>2
    <2> QED
      BY ONLY <1>1, <1>3, <2>1, Shaped(v, S), LevelReads
  <1> QED
    BY ONLY <1>3, <1>4

(* A number, a text, nothing.                                              *)
LEMMA WholeLeaf ==
  ASSUME 1 \in 1 .. MaxDepth
  PROVE  /\ Whole(1, Null)
         /\ \A t \in Seq(Digit) \ {<<>>} : Whole(1, Value("DIGITAL", t, <<>>, <<>>))
         /\ \A e \in Token : Whole(1, Str(e))
  <1>0. PICK S : S = {}
    OBVIOUS
  <1>1. \A w \in S : Whole(1 - 1, w)
    BY ONLY <1>0
  <1>2. <<>> \in Seq(S) /\ <<>> \in Seq(Chars) /\ <<>> \in Chars /\ Len(<<>>) = 0
    BY Texts
  <1>3. {"NULL", "DIGITAL", "STRING"} \subseteq Type
    BY DEF Type
  <1>4. Whole(1, Null)
    <2>1. PICK v : v = Null
      OBVIOUS
    <2>2. <<"null">> \in Chars
      BY CharAssumption, Short
    <2>3. Framed(v, S)
      BY ONLY <1>2, <1>3, <2>1, <2>2 DEF Framed, Null, Value
    <2>4. Shaped(v, S)
      BY ONLY <2>1 DEF Shaped
    <2> QED
      BY ONLY <1>1, <2>1, <2>3, <2>4, 1 \in 1 .. MaxDepth, WholeLevel
  <1>5. ASSUME NEW t \in Seq(Digit) \ {<<>>} PROVE Whole(1, Value("DIGITAL", t, <<>>, <<>>))
    <2>1. PICK v : v = Value("DIGITAL", t, <<>>, <<>>)
      OBVIOUS
    <2>2. v.val = t /\ v.type = "DIGITAL"
      BY ONLY <2>1 DEF Value
    <2>3. t \in Chars
      <3>1. Digit \subseteq Char
        BY ONLY CharAssumption
      <3> QED
        BY ONLY <3>1, t \in Seq(Digit) \ {<<>>} DEF Chars
    <2>4. Framed(v, S)
      BY ONLY <1>2, <1>3, <2>1, <2>3 DEF Framed, Value
    <2>5. Shaped(v, S)
      BY ONLY <2>1, <2>2, t \in Seq(Digit) \ {<<>>} DEF Shaped
    <2>6. Whole(1, v)
      BY ONLY <1>1, <2>4, <2>5, 1 \in 1 .. MaxDepth, WholeLevel
    <2> QED
      BY ONLY <2>1, <2>6
  <1>6. ASSUME NEW e \in Token PROVE Whole(1, Str(e))
    <2>1. PICK v : v = Str(e)
      OBVIOUS
    <2>2. v.val = e
      BY ONLY <2>1 DEF Str, Value
    <2>3. e \in Chars
      BY ONLY e \in Token DEF Token
    <2>4. Framed(v, S)
      BY ONLY <1>2, <1>3, <2>1, <2>3 DEF Framed, Str, Value
    <2>5. Shaped(v, S)
      BY ONLY <2>1, <2>2, e \in Token DEF Shaped
    <2>6. Whole(1, v)
      BY ONLY <1>1, <2>4, <2>5, 1 \in 1 .. MaxDepth, WholeLevel
    <2> QED
      BY ONLY <2>1, <2>6
  <1> QED
    BY ONLY <1>4, <1>5, <1>6

(* A list and an object.                                                   *)
LEMMA WholeContainer ==
  ASSUME NEW k \in 1 .. MaxDepth, NEW S, \A w \in S : Whole(k - 1, w)
  PROVE  /\ \A kids \in Seq(S) : Whole(k, Array(kids))
         /\ \A keys \in Seq(Escaped), kids \in Seq(S) :
              Len(keys) = Len(kids) => Whole(k, Object(keys, kids))
  <1>1. <<>> \in Seq(Chars) /\ <<>> \in Chars
    BY Texts
  <1>2. {"ARRAY", "OBJECT"} \subseteq Type
    BY DEF Type
  <1>3. ASSUME NEW kids \in Seq(S) PROVE Whole(k, Array(kids))
    <2>1. PICK v : v = Array(kids)
      OBVIOUS
    <2>2. v.kids = kids
      BY ONLY <2>1 DEF Array, Value
    <2>3. Framed(v, S)
      BY ONLY <1>1, <1>2, <2>1, kids \in Seq(S) DEF Framed, Array, Value
    <2>4. Shaped(v, S)
      BY ONLY <2>1, <2>2, kids \in Seq(S) DEF Shaped
    <2>5. Whole(k, v)
      BY ONLY <2>3, <2>4, k \in 1 .. MaxDepth, \A w \in S : Whole(k - 1, w), WholeLevel
    <2> QED
      BY ONLY <2>1, <2>5
  <1>4. ASSUME NEW keys \in Seq(Escaped), NEW kids \in Seq(S), Len(keys) = Len(kids)
        PROVE  Whole(k, Object(keys, kids))
    <2>1. PICK v : v = Object(keys, kids)
      OBVIOUS
    <2>2. v.keys = keys /\ v.kids = kids
      BY ONLY <2>1 DEF Object, Value
    <2>3. keys \in Seq(Chars)
      <3>1. Escaped \subseteq Chars
        BY DEF Escaped
      <3> QED
        BY ONLY <3>1, keys \in Seq(Escaped)
    <2>4. Framed(v, S)
      BY ONLY <1>1, <1>2, <1>4, <2>1, <2>3, kids \in Seq(S) DEF Framed, Object, Value
    <2>5. Shaped(v, S)
      BY ONLY <2>1, <2>2, kids \in Seq(S), keys \in Seq(Escaped) DEF Shaped
    <2>6. Whole(k, v)
      BY ONLY <2>4, <2>5, k \in 1 .. MaxDepth, \A w \in S : Whole(k - 1, w), WholeLevel
    <2> QED
      BY ONLY <2>1, <2>6
  <1> QED
    BY ONLY <1>3, <1>4

(* What is written for such a value says it.                               *)
LEMMA WholeSays ==
  ASSUME NEW k \in 0 .. MaxDepth, NEW v, Whole(k, v)
  PROVE  Says(CStr(v), v)
  <1>1. MaxDepth \in k .. MaxDepth
    BY DepthAssumption
  <1>2. PICK w : w = Written[MaxDepth][v]
    OBVIOUS
  <1>3. ReadsWritten(MaxDepth, v, w)
    BY ONLY <1>1, <1>2, Whole(k, v) DEF Whole
  <1>4. w \in Chars /\ Keeps(w, FALSE, FALSE) /\ Parsed[MaxDepth][w] = v
    BY ONLY <1>3 DEF ReadsWritten, Neat
  <1>5. Trim(w) = w
    BY ONLY <1>4, KeptWhole
  <1>6. InitText(w, TRUE) = v /\ InitText(w, FALSE) = v
    BY ONLY <1>4, <1>5 DEF InitText, Parse
  <1> QED
    BY ONLY <1>2, <1>6 DEF Says, CStr

(* A key of one character that is not escaped.                             *)
LEMMA PlainKey ==
  ASSUME NEW c \in Char, c \notin Special
  PROVE  K(c) \in Escaped
  <1>1. PICK t \in Chars : t = <<c>> /\ Len(t) = 1 /\ t[1] = c
    BY Texts
  <1>2. PICK u \in [0 .. Len(t) -> Nat] :
          /\ u[0] = 1
          /\ \A i \in 1 .. Len(t) : u[i] = u[i - 1] + (IF t[i] \in Special THEN 2 ELSE 1)
          /\ EncodeCheck(t) = IF u[Len(t)] = Len(t) + 1 THEN -1 ELSE u[Len(t)]
    BY ONLY t \in Chars, EncodeCheckIs
  <1>3. u[1] = u[1 - 1] + 1
    BY ONLY <1>1, <1>2, c \notin Special
  <1>4. EncodeCheck(t) = -1
    BY ONLY <1>1, <1>2, <1>3
  <1>5. EncodeCheck(t) = IF Encode(t) = t THEN -1 ELSE Len(Encode(t)) + 1
    BY ONLY t \in Chars, EscapingFits
  <1>6. Encode(t) \in Chars
    BY ONLY t \in Chars, EncodedSpans
  <1>7. Encode(t) = t
    BY ONLY <1>4, <1>5, <1>6, Texts
  <1>8. Decode(Stored(t, TRUE)) = t /\ Stored(t, TRUE) = Encode(t)
    BY ONLY t \in Chars, DecodesStored, StoredIsEncoded
  <1> QED
    BY ONLY <1>1, <1>7, <1>8, t \in Chars DEF Escaped, K

-----------------------------------------------------------------------------
(* The answer, as a value and as a text.                                   *)

(* Its names are keys as they are.                                         *)
LEMMA NamesAreKeys ==
  /\ K("val") \in Escaped /\ K("count") \in Escaped
  /\ K("target") \in Escaped /\ K("candidate") \in Escaped
  <1>1. /\ "val" \in Char /\ "count" \in Char /\ "target" \in Char /\ "candidate" \in Char
    BY NameAssumption
  <1>2. /\ "val" \notin Special /\ "count" \notin Special
        /\ "target" \notin Special /\ "candidate" \notin Special
    BY DEF Special, Quote, Backslash
  <1> QED
    BY ONLY <1>1, <1>2, PlainKey

(* The levels that the answer has.                                         *)
LEMMA Levels5 ==
  /\ MaxDepth \in Nat /\ MaxDepth >= 5
  /\ 1 \in 1 .. MaxDepth /\ 2 \in 1 .. MaxDepth /\ 3 \in 1 .. MaxDepth
  /\ 4 \in 1 .. MaxDepth /\ 5 \in 1 .. MaxDepth /\ 2 \in 0 .. MaxDepth
  /\ 4 \in 0 .. MaxDepth /\ 5 \in 0 .. MaxDepth
  BY DepthAssumption, DeepAssumption

(* Short lists.                                                            *)
LEMMA OneOf ==
  ASSUME NEW S, NEW x \in S
  PROVE  <<x>> \in Seq(S) /\ Len(<<x>>) = 1 /\ <<x>>[1] = x
  OBVIOUS

(* Three of them.                                                          *)
LEMMA ThreeOf ==
  ASSUME NEW S, NEW x \in S, NEW y \in S, NEW z \in S
  PROVE  /\ <<x, y, z>> \in Seq(S) /\ Len(<<x, y, z>>) = 3
         /\ <<x, y, z>>[1] = x /\ <<x, y, z>>[2] = y /\ <<x, y, z>>[3] = z
  OBVIOUS

(* A candidate says the text of its row.                                   *)
LEMMA CandidateIs ==
  ASSUME NEW row
  PROVE  Candidate(row) = Object(<<K("val")>>, <<Str(ItemText(row))>>)
  <1>1. PICK k, w, v : /\ k = K("val") /\ w = SetStr(ItemText(row), FALSE)
                       /\ v = Object(<<k>>, <<Null>>)
    OBVIOUS
  <1>2. w = Str(ItemText(row))
    BY ONLY <1>1 DEF SetStr, Stored
  <1>3. v.type = "OBJECT" /\ v.keys = <<k>> /\ v.kids = <<Null>>
    BY ONLY <1>1 DEF Object, Value
  <1>4. Len(v.keys) = 1 /\ 1 \in Nat /\ v.keys[1] = k
    BY ONLY <1>3
  <1>5. PICK j : j = GetKeyIndex(v, k)
    OBVIOUS
  <1>6. j = 1
    <2>1. PICK n \in Nat : n = 1 /\ Len(v.keys) = n
      BY ONLY <1>4
    <2>2. /\ GetKeyIndex(v, k) \in 0 .. n
          /\ GetKeyIndex(v, k) = 0 => \A i \in 1 .. n : v.keys[i] # k
      BY ONLY <1>3, <2>1, KeyPlace, Zenon
    <2>3. j # 0
      BY ONLY <1>4, <1>5, <2>1, <2>2
    <2>4. j \in 0 .. 1
      BY ONLY <1>5, <2>1, <2>2
    <2> QED
      BY ONLY <2>3, <2>4
  <1>7. Assign(v, k, w) = [v EXCEPT !.kids[1] = w]
    <2>1. Assigned(v, k, w, Assign(v, k, w))
      BY ONLY AssignIs
    <2> QED
      BY ONLY <1>3, <1>5, <1>6, <2>1 DEF Assigned
  <1>8. [v EXCEPT !.kids[1] = w] = Object(<<k>>, <<w>>)
    <2>1. PICK q, r : q = <<Null>> /\ r = [q EXCEPT ![1] = w]
      OBVIOUS
    <2>2. r = <<w>>
      BY ONLY <2>1
    <2>3. [v EXCEPT !.kids[1] = w] = [v EXCEPT !.kids = r]
      BY ONLY <1>3, <2>1
    <2>4. [v EXCEPT !.kids = r] = Object(<<k>>, r)
      BY ONLY <1>1 DEF Object, Value
    <2> QED
      BY ONLY <2>2, <2>3, <2>4
  <1> QED
    BY ONLY <1>1, <1>2, <1>7, <1>8 DEF Candidate

(* The candidates of a row whose text may stand in a string.               *)
Telling(row) == ItemText(row) \in Token
Offered(R) == {Candidate(row) : row \in R}

(* Such a candidate is a document of two levels that its text says.        *)
LEMMA CandidateWhole ==
  ASSUME NEW row, Telling(row)
  PROVE  Whole(2, Candidate(row)) /\ Says(CStr(Candidate(row)), Candidate(row))
  <1>1. PICK S : S = {Str(ItemText(row))}
    OBVIOUS
  <1>2. PICK v \in S : v = Str(ItemText(row))
    BY ONLY <1>1
  <1>3. \A w \in S : Whole(2 - 1, w)
    <2>1. Whole(1, Str(ItemText(row)))
      BY Levels5, WholeLeaf DEF Telling
    <2>2. 2 - 1 = 1
      OBVIOUS
    <2> QED
      BY ONLY <1>1, <2>1, <2>2
  <1>4. PICK keys \in Seq(Escaped) : keys = <<K("val")>> /\ Len(keys) = 1
    <2>1. PICK k \in Escaped : k = K("val")
      BY ONLY NamesAreKeys
    <2> QED
      BY ONLY <2>1, OneOf
  <1>5. PICK kids \in Seq(S) : kids = <<v>> /\ Len(kids) = 1
    BY ONLY v \in S, OneOf
  <1>6. PICK two \in 1 .. MaxDepth : two = 2 /\ two \in 0 .. MaxDepth
    BY ONLY Levels5
  <1>7. Whole(two, Object(keys, kids))
    <2>1. \A w \in S : Whole(two - 1, w)
      BY ONLY <1>3, <1>6
    <2> QED
      BY ONLY <1>4, <1>5, <2>1, two \in 1 .. MaxDepth, WholeContainer
  <1>8. Candidate(row) = Object(keys, kids)
    BY ONLY <1>2, <1>4, <1>5, CandidateIs
  <1>9. PICK c : c = Candidate(row)
    OBVIOUS
  <1>10. Whole(two, c)
    BY ONLY <1>7, <1>8, <1>9
  <1>11. Says(CStr(c), c)
    BY ONLY <1>6, <1>10, WholeSays
  <1> QED
    BY ONLY <1>6, <1>9, <1>10, <1>11

(* The list of the candidates of rows, up to the i-th, and what stands     *)
(* around it.                                                              *)
Listing(rows, f) ==
  /\ f[0] = Array(<<>>)
  /\ \A i \in 1 .. Len(rows) : f[i] = AddValJson(f[i - 1], Candidate(rows[i]))
Settings(rows, list) ==
  Object(<<K("count"), K("target"), K("candidate")>>, <<SetInt(Len(rows)), Null, list>>)

(* The answer is the text of a list of these settings.                     *)
LEMMA AnswerIs ==
  ASSUME NEW R, \A row \in R : Telling(row), NEW rows \in Seq(R)
  PROVE  \E f : /\ Listing(rows, f)
                /\ Answer(rows) = CStr(AddValJson(Array(<<>>), Settings(rows, f[Len(rows)])))
  <1> DEFINE Step(i, x) == AddValJson(x, Candidate(rows[i]))
             D(u) == [i \in 0 .. Len(rows) |-> IF i = 0 THEN Array(<<>>) ELSE Step(i, u[i - 1])]
             f == CHOOSE u : u = D(u)
             C == Offered(R)
             S == {Array(kids) : kids \in Seq(C)}
  <1>1. PICK n \in Nat : n = Len(rows)
    OBVIOUS
  <1>2. Array(<<>>) \in S
    <2>1. <<>> \in Seq(C)
      OBVIOUS
    <2> QED
      BY <2>1
  <1>3. \A i \in 1 .. n : \A x \in S : Step(i, x) \in S
    <2> SUFFICES ASSUME NEW i \in 1 .. n, NEW x \in S PROVE AddValJson(x, Candidate(rows[i])) \in S
      OBVIOUS
    <2>1. PICK row \in R : row = rows[i]
      BY <1>1, ElementOfSeq
    <2>2. PICK c : c = Candidate(row)
      OBVIOUS
    <2>3. c \in C
      BY <2>2 DEF Offered
    <2>4. Says(CStr(c), c)
      BY ONLY <2>2, row \in R, \A r \in R : Telling(r), CandidateWhole
    <2> HIDE DEF C
    <2>5. PICK kids \in Seq(C) : x = Array(kids)
      OBVIOUS
    <2>6. x.type = "ARRAY" /\ x.kids = kids
      BY ONLY <2>5 DEF Array, Value
    <2>7. AddedVal(x, c, AddElementVal(x, CStr(c)))
      BY ONLY <2>4, AddElementValIs
    <2>8. AddElementVal(x, CStr(c)) = Array(Append(kids, c))
      BY ONLY <2>6, <2>7 DEF AddedVal
    <2>9. Append(kids, c) \in Seq(C)
      BY ONLY <2>3, kids \in Seq(C), AppendProperties
    <2>10. Array(Append(kids, c)) \in S
      BY <2>9
    <2> QED
      BY ONLY <2>1, <2>2, <2>8, <2>10 DEF AddValJson
  <1>4. Answer(rows) = CStr(AddValJson(Array(<<>>), Settings(rows, f[n])))
    BY <1>1, Zenon DEF Answer, Settings
  <1> HIDE DEF f, Step, S
  <1>5. PICK g \in [1 .. n -> [S -> S]] :
          \A i \in 1 .. n : \A x \in S : g[i][x] = Step(i, x)
    <2> DEFINE h == [i \in 1 .. n |-> [x \in S |-> Step(i, x)]]
    <2>1. h \in [1 .. n -> [S -> S]]
      BY <1>3
    <2> QED
      BY <2>1
  <1>6. PICK w \in [0 .. n -> S] : w[0] = Array(<<>>) /\ \A i \in 1 .. n : w[i] = g[i][w[i - 1]]
    <2>1. PICK T, e : T = S /\ e = Array(<<>>) /\ e \in T /\ g \in [1 .. n -> [T -> T]]
      BY <1>2
    <2>2. \E u : IsLeftFold(T, e, n, g, u)
      BY ONLY <2>1, n \in Nat, FromTheLeft
    <2> QED
      BY ONLY <2>1, <2>2 DEF IsLeftFold
  <1>7. ASSUME NEW i \in 1 .. n PROVE w[i] = Step(i, w[i - 1])
    <2>1. w[i - 1] \in S
      BY ONLY w \in [0 .. n -> S], i \in 1 .. n, n \in Nat
    <2> QED
      BY ONLY <1>5, <1>6, <2>1, i \in 1 .. n
  <1>8. w = D(w)
    <2>1. \A i \in 0 .. n : w[i] = IF i = 0 THEN Array(<<>>) ELSE Step(i, w[i - 1])
      BY ONLY <1>6, <1>7, n \in Nat
    <2> QED
      BY ONLY <1>1, <2>1, w \in [0 .. n -> S]
  <1>9. f = D(f)
    BY <1>8 DEF f
  <1>10. f[0] = Array(<<>>) /\ \A i \in 1 .. n : f[i] = Step(i, f[i - 1])
    <2>1. D(f)[0] = Array(<<>>) /\ \A i \in 1 .. n : D(f)[i] = Step(i, f[i - 1])
      BY ONLY <1>1, n \in Nat
    <2> HIDE DEF D
    <2> QED
      BY ONLY <1>9, <2>1
  <1>11. PICK z : z = f
    OBVIOUS
  <1>12. Listing(rows, z)
    BY ONLY <1>1, <1>10, <1>11 DEF Listing, Step
  <1> QED
    BY ONLY <1>1, <1>4, <1>11, <1>12

(* The candidate of each row, in their order.                              *)
Candidates(rows, kids) ==
  Len(kids) = Len(rows) /\ \A i \in 1 .. Len(rows) : kids[i] = Candidate(rows[i])

(* The list holds these.                                                   *)
LEMMA ListingIs ==
  ASSUME NEW R, \A row \in R : Telling(row), NEW rows \in Seq(R), NEW f, Listing(rows, f)
  PROVE  \E kids \in Seq(Offered(R)) : f[Len(rows)] = Array(kids) /\ Candidates(rows, kids)
  <1>1. PICK n \in Nat : n = Len(rows)
    OBVIOUS
  <1>2. PICK C : C = Offered(R)
    OBVIOUS
  <1> DEFINE Good(i, kids) == f[i] = Array(kids) /\ Len(kids) = i
                                /\ \A j \in 1 .. i : kids[j] = Candidate(rows[j])
             P == {i \in Nat : i <= n => \E kids \in Seq(C) : Good(i, kids)}
  <1> HIDE DEF P
  <1>3. 0 \in P
    <2>1. PICK kids \in Seq(C) : kids = <<>>
      BY ONLY EmptySeq
    <2>2. Good(0, kids)
      BY ONLY <2>1, Listing(rows, f) DEF Listing
    <2>3. 0 \in Nat
      OBVIOUS
    <2> HIDE DEF Good
    <2> QED
      BY ONLY <2>2, <2>3, kids \in Seq(C), Zenon DEF P
  <1>4. ASSUME NEW i \in Nat, i < n, i \in P PROVE i + 1 \in P
    <2>1. i <= n /\ i + 1 \in 1 .. n /\ (i + 1) - 1 = i /\ i + 1 \in Nat
      BY ONLY <1>4, n \in Nat
    <2>2. PICK kids \in Seq(C) : Good(i, kids)
      BY ONLY <1>4, <2>1, Zenon DEF P
    <2>3. PICK row \in R : row = rows[i + 1]
      BY ONLY <1>1, <2>1, rows \in Seq(R), ElementOfSeq
    <2>4. PICK c \in C : c = Candidate(row)
      BY ONLY <1>2 DEF Offered
    <2>5. Says(CStr(c), c)
      BY ONLY <2>4, row \in R, \A r \in R : Telling(r), CandidateWhole
    <2>6. PICK x : x = f[i]
      OBVIOUS
    <2>7. x.type = "ARRAY" /\ x.kids = kids
      BY ONLY <2>2, <2>6 DEF Array, Value
    <2>8. AddedVal(x, c, AddElementVal(x, CStr(c)))
      BY ONLY <2>5, AddElementValIs
    <2>9. f[i + 1] = AddElementVal(x, CStr(c))
      <3>1. f[i + 1] = AddValJson(f[(i + 1) - 1], Candidate(rows[i + 1]))
        BY ONLY <1>1, <2>1, Listing(rows, f) DEF Listing
      <3> QED
        BY ONLY <2>1, <2>3, <2>4, <2>6, <3>1 DEF AddValJson
    <2>10. PICK more \in Seq(C) : more = Append(kids, c)
      BY ONLY kids \in Seq(C), c \in C, AppendProperties
    <2>11. f[i + 1] = Array(more)
      BY ONLY <2>7, <2>8, <2>9, <2>10 DEF AddedVal
    <2>12. Len(more) = i + 1 /\ more[i + 1] = c /\ \A j \in 1 .. i : more[j] = kids[j]
      <3>1. Len(more) = Len(kids) + 1 /\ more[Len(kids) + 1] = c
            /\ \A j \in 1 .. Len(kids) : more[j] = kids[j]
        BY ONLY <2>10, kids \in Seq(C), c \in C, AppendProperties
      <3> QED
        BY ONLY <2>2, <3>1
    <2>13. Good(i + 1, more)
      <3>1. \A j \in 1 .. i + 1 : j \in 1 .. i \/ j = i + 1
        BY ONLY i \in Nat
      <3> QED
        BY ONLY <2>2, <2>3, <2>4, <2>11, <2>12, <3>1
    <2> HIDE DEF Good
    <2> QED
      BY ONLY <2>1, <2>13, more \in Seq(C), Zenon DEF P
  <1>5. n \in P
    <2>1. 0 .. n \subseteq P
      BY ONLY <1>3, <1>4, n \in Nat, UpTo
    <2> QED
      BY ONLY <2>1, n \in Nat
  <1>6. PICK kids \in Seq(C) : Good(n, kids)
    <2> HIDE DEF Good
    <2>1. n <= n
      BY ONLY n \in Nat
    <2> QED
      BY ONLY <1>5, <2>1, Zenon DEF P
  <1>7. f[Len(rows)] = Array(kids) /\ Candidates(rows, kids)
    BY ONLY <1>1, <1>6 DEF Candidates
  <1> QED
    BY ONLY <1>2, <1>7, kids \in Seq(C)

-----------------------------------------------------------------------------
(* Where the text of the first row stands in the answer.                   *)

(* A text without the mark; a text in which another one stands behind such *)
(* a text.                                                                 *)
Unmarked(t) == \A k \in 1 .. Len(t) : t[k] # ">"
Ahead(t, i) == \A k \in 1 .. i - 1 : t[k] # ">"
Leads(t, x) == \E i \in Nat : i > 0 /\ Stands(t, i, x) /\ Ahead(t, i)

(* What leads a text that leads another one leads this one.                *)
LEMMA LeadsOn ==
  ASSUME NEW t \in Chars, NEW y \in Chars, NEW x \in Chars, Leads(t, y), Leads(y, x)
  PROVE  Leads(t, x)
  <1>1. PICK i \in Nat : i > 0 /\ Stands(t, i, y) /\ Ahead(t, i)
    BY ONLY Leads(t, y) DEF Leads
  <1>2. PICK j \in Nat : j > 0 /\ Stands(y, j, x) /\ Ahead(y, j)
    BY ONLY Leads(y, x) DEF Leads
  <1>3. Len(t) \in Nat /\ Len(y) \in Nat /\ Len(x) \in Nat
    BY ONLY Texts, t \in Chars, y \in Chars, x \in Chars
  <1>4. i + Len(y) <= Len(t) + 1 /\ \A k \in 1 .. Len(y) : t[i + k - 1] = y[k]
    BY ONLY <1>1 DEF Stands
  <1>5. j + Len(x) <= Len(y) + 1 /\ \A k \in 1 .. Len(x) : y[j + k - 1] = x[k]
    BY ONLY <1>2 DEF Stands
  <1>6. PICK m \in Nat : m = i + j - 1 /\ m > 0
    BY ONLY <1>1, <1>2, i \in Nat, j \in Nat
  <1>7. Stands(t, m, x)
    <2>1. m + Len(x) <= Len(t) + 1
      BY ONLY <1>3, <1>4, <1>5, <1>6, i \in Nat, j \in Nat
    <2>2. ASSUME NEW k \in 1 .. Len(x) PROVE t[m + k - 1] = x[k]
      <3>1. j + k - 1 \in 1 .. Len(y) /\ i + (j + k - 1) - 1 = m + k - 1
        BY ONLY <1>2, <1>3, <1>5, <1>6, i \in Nat, j \in Nat, k \in 1 .. Len(x)
      <3>2. t[i + (j + k - 1) - 1] = y[j + k - 1]
        BY ONLY <1>4, <3>1
      <3> QED
        BY ONLY <1>5, <3>1, <3>2, k \in 1 .. Len(x)
    <2> QED
      BY ONLY <2>1, <2>2 DEF Stands
  <1>8. Ahead(t, m)
    <2> SUFFICES ASSUME NEW k \in 1 .. m - 1 PROVE t[k] # ">"
      BY DEF Ahead
    <2>1. CASE k <= i - 1
      BY ONLY <1>1, <2>1, k \in 1 .. m - 1, m \in Nat, i \in Nat DEF Ahead
    <2>2. CASE k > i - 1
      <3>1. PICK h \in Nat : h = k - i + 1
        BY ONLY <2>2, k \in 1 .. m - 1, m \in Nat, i \in Nat
      <3>2. h \in 1 .. j - 1 /\ h \in 1 .. Len(y) /\ i + h - 1 = k
        BY ONLY <1>2, <1>3, <1>5, <1>6, <2>2, <3>1, k \in 1 .. m - 1, m \in Nat, i \in Nat, j \in Nat
      <3> QED
        BY ONLY <1>2, <1>4, <3>2 DEF Ahead
    <2> QED
      BY ONLY <2>1, <2>2, k \in 1 .. m - 1, m \in Nat, i \in Nat
  <1> QED
    BY ONLY <1>6, <1>7, <1>8, m \in Nat DEF Leads

(* A text behind two without the mark.                                     *)
LEMMA LeadsBehind ==
  ASSUME NEW a \in Chars, NEW c \in Chars, NEW y \in Chars, Unmarked(a), Unmarked(c)
  PROVE  (a \o c) \o y \in Chars /\ Leads((a \o c) \o y, y)
  <1>1. PICK t : t = (a \o c) \o y
    OBVIOUS
  <1>2. /\ Len(a) \in Nat /\ Len(c) \in Nat /\ Len(y) \in Nat
        /\ t \in Chars
        /\ Len(t) = Len(a) + Len(c) + Len(y)
        /\ \A k \in 1 .. Len(a) : t[k] = a[k]
        /\ \A k \in 1 .. Len(c) : t[Len(a) + k] = c[k]
        /\ \A k \in 1 .. Len(y) : t[Len(a) + Len(c) + k] = y[k]
    <2>1. /\ Len(a) \in Nat /\ Len(c) \in Nat /\ Len(y) \in Nat
          /\ (a \o c) \o y \in Chars
          /\ Len((a \o c) \o y) = Len(a) + Len(c) + Len(y)
          /\ \A k \in 1 .. Len(a) : ((a \o c) \o y)[k] = a[k]
          /\ \A k \in 1 .. Len(c) : ((a \o c) \o y)[Len(a) + k] = c[k]
          /\ \A k \in 1 .. Len(y) : ((a \o c) \o y)[Len(a) + Len(c) + k] = y[k]
      BY ONLY ThreeParts, a \in Chars, c \in Chars, y \in Chars
    <2> QED
      BY ONLY <1>1, <2>1
  <1>3. PICK i \in Nat : i = Len(a) + Len(c) + 1 /\ i > 0
    BY ONLY <1>2
  <1>4. Stands(t, i, y)
    <2>1. \A k \in 1 .. Len(y) : i + k - 1 = Len(a) + Len(c) + k
      BY ONLY <1>2, <1>3
    <2> QED
      BY ONLY <1>2, <1>3, <2>1 DEF Stands
  <1>5. Ahead(t, i)
    <2> SUFFICES ASSUME NEW k \in 1 .. i - 1 PROVE t[k] # ">"
      BY DEF Ahead
    <2>1. CASE k <= Len(a)
      BY ONLY <1>2, <2>1, k \in 1 .. i - 1, i \in Nat, Unmarked(a) DEF Unmarked
    <2>2. CASE k > Len(a)
      <3>1. k - Len(a) \in 1 .. Len(c) /\ Len(a) + (k - Len(a)) = k
        BY ONLY <1>2, <1>3, <2>2, k \in 1 .. i - 1, i \in Nat
      <3> QED
        BY ONLY <1>2, <3>1, Unmarked(c) DEF Unmarked
    <2> QED
      BY ONLY <1>2, <2>1, <2>2, k \in 1 .. i - 1, i \in Nat
  <1>6. Leads(t, y)
    BY ONLY <1>3, <1>4, <1>5, i \in Nat DEF Leads
  <1> QED
    BY ONLY <1>1, <1>2, <1>6

(* Texts without the mark.                                                 *)
LEMMA PlainTexts ==
  /\ \A a, b \in Chars : Unmarked(a) /\ Unmarked(b) => Unmarked(a \o b)
  /\ \A c \in Char : c # ">" => <<c>> \in Chars /\ Unmarked(<<c>>)
  /\ \A t \in Seq(Digit) : t \in Chars /\ Unmarked(t)
  /\ \A e \in Chars : Unmarked(e) => Quoted(e) \in Chars /\ Unmarked(Quoted(e))
  <1>1. ASSUME NEW a \in Chars, NEW b \in Chars, Unmarked(a), Unmarked(b) PROVE Unmarked(a \o b)
    <2>1. PICK t : t = a \o b
      OBVIOUS
    <2>2. /\ Len(a) \in Nat /\ Len(b) \in Nat /\ Len(t) = Len(a) + Len(b)
          /\ \A k \in 1 .. Len(a) : t[k] = a[k]
          /\ \A k \in 1 .. Len(b) : t[Len(a) + k] = b[k]
      BY ONLY <2>1, a \in Chars, b \in Chars, Parts
    <2>3. ASSUME NEW k \in 1 .. Len(t) PROVE t[k] # ">"
      <3>1. CASE k <= Len(a)
        BY ONLY <1>1, <2>2, <3>1, k \in 1 .. Len(t) DEF Unmarked
      <3>2. CASE k > Len(a)
        <4>1. k - Len(a) \in 1 .. Len(b) /\ Len(a) + (k - Len(a)) = k
          BY ONLY <2>2, <3>2, k \in 1 .. Len(t)
        <4> QED
          BY ONLY <1>1, <2>2, <4>1 DEF Unmarked
      <3> QED
        BY ONLY <2>2, <3>1, <3>2, k \in 1 .. Len(t)
    <2> QED
      BY ONLY <2>1, <2>3 DEF Unmarked
  <1>2. ASSUME NEW c \in Char, c # ">" PROVE <<c>> \in Chars /\ Unmarked(<<c>>)
    <2>1. PICK t \in Chars : t = <<c>> /\ Len(t) = 1 /\ t[1] = c
      BY ONLY c \in Char, Texts
    <2> QED
      BY ONLY <1>2, <2>1 DEF Unmarked
  <1>3. ASSUME NEW t \in Seq(Digit) PROVE t \in Chars /\ Unmarked(t)
    <2>1. Digit \subseteq Char
      BY ONLY CharAssumption
    <2>2. ">" \notin Digit
      BY ONLY DEF Digit
    <2>3. \A k \in 1 .. Len(t) : t[k] \in Digit
      BY ONLY t \in Seq(Digit), ElementOfSeq
    <2>4. t \in Chars
      BY ONLY <2>1, t \in Seq(Digit) DEF Chars
    <2> QED
      BY ONLY <2>2, <2>3, <2>4 DEF Unmarked
  <1>4. ASSUME NEW e \in Chars, Unmarked(e) PROVE Quoted(e) \in Chars /\ Unmarked(Quoted(e))
    <2>1. Quote \in Char /\ Quote # ">"
      BY CharAssumption DEF Quote
    <2>2. PICK q \in Chars : q = <<Quote>> /\ Unmarked(q)
      BY ONLY <1>2, <2>1
    <2>3. PICK b \in Chars : b = q \o e /\ Unmarked(b)
      BY ONLY <1>1, <1>4, <2>2, e \in Chars, Texts
    <2>4. PICK t \in Chars : t = b \o q /\ Unmarked(t)
      BY ONLY <1>1, <2>2, <2>3, b \in Chars, q \in Chars, Texts
    <2>5. Quoted(e) = t
      BY ONLY <2>2, <2>3, <2>4 DEF Quoted
    <2> QED
      BY ONLY <2>4, <2>5
  <1> QED
    BY ONLY <1>1, <1>2, <1>3, <1>4

(* A text in a list, when none before it has the mark.                     *)
LEMMA LeadsItem ==
  ASSUME NEW texts \in Seq(Chars), NEW m \in 1 .. Len(texts),
         \A j \in 1 .. m - 1 : Unmarked(texts[j]),
         NEW a \in Char, NEW b \in Char, a # ">", b # ">",
         NEW s, s = <<a>> \o Joined(texts) \o <<b>>
  PROVE  s \in Chars /\ Leads(s, texts[m])
  <1>1. PICK n \in Nat : n = Len(texts) /\ n > 0 /\ m \in 1 .. n
    OBVIOUS
  <1>2. s \in Chars
        /\ \E p \in [1 .. Len(texts) + 1 -> Nat] :
             /\ p[1] = 2 /\ p[Len(texts) + 1] = Len(s) + 1
             /\ \A k \in 1 .. Len(texts) : ItemAt(s, texts[k], p[k], p[k + 1], b)
    BY <1>1, Items
  <1>3. PICK p \in [1 .. n + 1 -> Nat] :
          p[1] = 2 /\ \A k \in 1 .. n : ItemAt(s, texts[k], p[k], p[k + 1], b)
    BY ONLY <1>1, <1>2
  <1>4. s[1] = a
    <2>1. PICK x \in Chars, z \in Chars : x = <<a>> /\ z = <<b>> /\ Len(x) = 1 /\ x[1] = a
      BY ONLY Texts, a \in Char, b \in Char
    <2>2. PICK y \in Chars : y = Joined(texts)
      <3>1. PICK u \in [0 .. Len(texts) -> Chars] : Joined(texts) = u[Len(texts)]
        BY ONLY texts \in Seq(Chars), JoinedIs
      <3> QED
        BY ONLY <1>1, <3>1
    <2>3. s = (x \o y) \o z
      BY ONLY <2>1, <2>2, s = <<a>> \o Joined(texts) \o <<b>>
    <2>4. \A k \in 1 .. Len(x) : ((x \o y) \o z)[k] = x[k]
      BY ONLY ThreeParts, x \in Chars, y \in Chars, z \in Chars
    <2> QED
      BY ONLY <2>1, <2>3, <2>4
  <1>5. "," # ">"
    OBVIOUS
  <1> DEFINE P == {k \in Nat : k <= m - 1 => Ahead(s, p[k + 1])}
  <1> HIDE DEF P
  <1>6. 0 \in P
    <2>1. Ahead(s, p[0 + 1])
      BY ONLY <1>3, <1>4, a # ">" DEF Ahead
    <2> QED
      BY ONLY <2>1 DEF P
  <1>7. ASSUME NEW k \in Nat, k < m - 1, k \in P PROVE k + 1 \in P
    <2>1. /\ k <= m - 1 /\ k + 1 \in 1 .. n /\ k + 1 \in 1 .. m - 1
          /\ k + 1 \in 1 .. n + 1 /\ (k + 1) + 1 \in 1 .. n + 1 /\ k + 1 \in Nat
      BY ONLY <1>1, <1>7, m \in 1 .. n, n \in Nat
    <2>2. PICK i \in Nat, j \in Nat, t \in Chars :
            i = p[k + 1] /\ j = p[(k + 1) + 1] /\ t = texts[k + 1]
      <3>1. texts[k + 1] \in Chars
        BY ONLY <1>1, <2>1, texts \in Seq(Chars), ElementOfSeq
      <3> QED
        BY ONLY <2>1, <3>1, p \in [1 .. n + 1 -> Nat]
    <2>3. Ahead(s, i)
      BY ONLY <1>7, <2>1, <2>2 DEF P
    <2>4. ItemAt(s, t, i, j, b)
      BY ONLY <1>3, <2>1, <2>2
    <2>5. Unmarked(t)
      BY ONLY <2>1, <2>2, \A h \in 1 .. m - 1 : Unmarked(texts[h])
    <2>6. /\ i > 0 /\ j = i + Len(t) + 1 /\ Len(t) \in Nat
          /\ \A h \in 1 .. Len(t) : s[i + h - 1] = t[h]
          /\ s[i + Len(t)] # ">"
      BY ONLY <1>5, <2>4, b # ">", t \in Chars, Texts DEF ItemAt, Stands
    <2>7. Ahead(s, j)
      <3> SUFFICES ASSUME NEW h \in 1 .. j - 1 PROVE s[h] # ">"
        BY DEF Ahead
      <3>1. CASE h <= i - 1
        BY ONLY <2>3, <3>1, h \in 1 .. j - 1, i \in Nat, j \in Nat DEF Ahead
      <3>2. CASE h = i + Len(t)
        BY ONLY <2>6, <3>2
      <3>3. CASE h > i - 1 /\ h # i + Len(t)
        <4>1. PICK g \in 1 .. Len(t) : i + g - 1 = h
          <5>1. PICK l \in Nat : l = Len(t)
            BY ONLY <2>6
          <5>2. h \in Nat /\ h <= j - 1 /\ j = i + l + 1 /\ h > i - 1 /\ h # i + l
            BY ONLY <2>6, <3>3, <5>1, h \in 1 .. j - 1, j \in Nat
          <5>3. PICK g \in Int : g = (h - i) + 1
            BY ONLY <5>2, i \in Nat
          <5>4. g \in 1 .. l /\ i + g - 1 = h
            BY ONLY <5>2, <5>3, i \in Nat, j \in Nat, l \in Nat
          <5> QED
            BY ONLY <5>1, <5>4
        <4> QED
          BY ONLY <2>5, <2>6, <4>1 DEF Unmarked
      <3> QED
        BY ONLY <3>1, <3>2, <3>3, h \in 1 .. j - 1, i \in Nat, j \in Nat
    <2> QED
      BY ONLY <2>1, <2>2, <2>7 DEF P
  <1>8. PICK l \in Nat : l = m - 1 /\ l + 1 = m
    BY ONLY <1>1, n \in Nat
  <1>9. l \in P
    <2>1. \A k \in Nat : k < l /\ k \in P => k + 1 \in P
      BY ONLY <1>7, <1>8
    <2>2. 0 .. l \subseteq P
      BY ONLY <1>6, <2>1, l \in Nat, UpTo
    <2> QED
      BY ONLY <2>2, l \in Nat
  <1>10. Ahead(s, p[m])
    BY ONLY <1>8, <1>9 DEF P
  <1>11. p[m] \in Nat /\ p[m] > 0 /\ Stands(s, p[m], texts[m])
    <2>1. ItemAt(s, texts[m], p[m], p[m + 1], b)
      BY ONLY <1>1, <1>3
    <2>2. m \in 1 .. n + 1
      BY ONLY <1>1, n \in Nat
    <2>3. p[m] \in Nat
      BY ONLY <2>2, p \in [1 .. n + 1 -> Nat]
    <2> QED
      BY ONLY <2>1, <2>3 DEF ItemAt
  <1> QED
    BY ONLY <1>2, <1>10, <1>11 DEF Leads

(* The first value of a list, in the text of the list.                     *)
LEMMA LeadsArray ==
  ASSUME NEW d \in 1 .. MaxDepth, NEW S, \A w \in S : Whole(d - 1, w),
         NEW kids \in Seq(S), Len(kids) > 0
  PROVE  /\ Written[d][Array(kids)] \in Chars /\ Written[d - 1][kids[1]] \in Chars
         /\ Leads(Written[d][Array(kids)], Written[d - 1][kids[1]])
  <1>1. PICK v, x : v = Array(kids) /\ x = Written[d - 1]
    OBVIOUS
  <1>2. d - 1 \in d - 1 .. MaxDepth /\ d \in d .. MaxDepth
    BY DepthAssumption
  <1>3. \A w \in S : x[w] \in Chars
    <2>1. \A w \in S : ReadsWritten(d - 1, w, x[w])
      BY ONLY <1>1, <1>2, \A w \in S : Whole(d - 1, w) DEF Whole
    <2> QED
      BY ONLY <2>1 DEF ReadsWritten, Neat
  <1>4. v \in Doc[d]
    <2>1. Whole(d, v)
      BY ONLY <1>1, d \in 1 .. MaxDepth, \A w \in S : Whole(d - 1, w), kids \in Seq(S), WholeContainer
    <2> QED
      BY ONLY <1>2, <2>1 DEF Whole
  <1>5. v.type = "ARRAY" /\ v.kids = kids
    BY ONLY <1>1 DEF Array, Value
  <1>6. PICK texts : texts = ArrayTexts(v, x)
    OBVIOUS
  <1>7. Written[d][v] = <<"[">> \o Joined(texts) \o <<"]">>
    <2>1. v.type = "ARRAY" => Written[d][v] = <<"[">> \o Joined(ArrayTexts(v, x)) \o <<"]">>
      BY ONLY <1>1, <1>4, d \in 1 .. MaxDepth, WrittenKinds
    <2> QED
      BY ONLY <1>5, <1>6, <2>1
  <1>8. texts = [i \in 1 .. Len(kids) |-> x[kids[i]]]
    BY ONLY <1>5, <1>6 DEF ArrayTexts
  <1>9. PICK n \in Nat : n = Len(kids) /\ n > 0
    OBVIOUS
  <1>10. \A i \in 1 .. n : x[kids[i]] \in Chars
    BY ONLY <1>3, <1>9, kids \in Seq(S), ElementOfSeq
  <1>11. texts \in Seq(Chars) /\ Len(texts) = n /\ texts[1] = x[kids[1]]
    <2>1. texts \in [1 .. n -> Chars]
      BY ONLY <1>8, <1>9, <1>10
    <2>2. texts \in Seq(Chars) /\ Len(texts) = n
      BY ONLY <2>1, n \in Nat
    <2> QED
      BY ONLY <1>8, <1>9, <2>2
  <1>12. PICK m \in 1 .. Len(texts) : m = 1 /\ \A j \in 1 .. m - 1 : Unmarked(texts[j])
    BY ONLY <1>9, <1>11
  <1>13. PICK a \in Char, b \in Char : a = "[" /\ b = "]" /\ a # ">" /\ b # ">"
    BY ONLY CharAssumption
  <1>14. PICK s : s = <<a>> \o Joined(texts) \o <<b>>
    OBVIOUS
  <1>15. s \in Chars /\ Leads(s, texts[m])
    BY ONLY <1>11, <1>12, <1>13, <1>14, m \in 1 .. Len(texts), a \in Char, b \in Char, LeadsItem
  <1>16. Written[d][v] = s
    BY ONLY <1>7, <1>13, <1>14
  <1>17. x[kids[1]] \in Chars
    BY ONLY <1>9, <1>10
  <1> QED
    BY ONLY <1>1, <1>11, <1>12, <1>15, <1>16, <1>17

(* A value of an object, when neither a key nor a value before it has the  *)
(* mark.                                                                   *)
LEMMA LeadsObject ==
  ASSUME NEW d \in 1 .. MaxDepth, NEW S, \A w \in S : Whole(d - 1, w),
         NEW kids \in Seq(S), NEW keys \in Seq(Escaped), Len(keys) = Len(kids),
         NEW m \in 1 .. Len(kids), \A j \in 1 .. m : Unmarked(keys[j]),
         \A j \in 1 .. m - 1 : Unmarked(Written[d - 1][kids[j]])
  PROVE  /\ Written[d][Object(keys, kids)] \in Chars /\ Written[d - 1][kids[m]] \in Chars
         /\ Leads(Written[d][Object(keys, kids)], Written[d - 1][kids[m]])
  <1>1. PICK v, x : v = Object(keys, kids) /\ x = Written[d - 1]
    OBVIOUS
  <1>2. d - 1 \in d - 1 .. MaxDepth /\ d \in d .. MaxDepth
    BY DepthAssumption
  <1>3. \A w \in S : x[w] \in Chars
    <2>1. \A w \in S : ReadsWritten(d - 1, w, x[w])
      BY ONLY <1>1, <1>2, \A w \in S : Whole(d - 1, w) DEF Whole
    <2> QED
      BY ONLY <2>1 DEF ReadsWritten, Neat
  <1>4. v \in Doc[d]
    <2>1. Whole(d, v)
      BY ONLY <1>1, d \in 1 .. MaxDepth, \A w \in S : Whole(d - 1, w), kids \in Seq(S),
              keys \in Seq(Escaped), Len(keys) = Len(kids), WholeContainer
    <2> QED
      BY ONLY <1>2, <2>1 DEF Whole
  <1>5. v.type = "OBJECT" /\ v.kids = kids /\ v.keys = keys
    BY ONLY <1>1 DEF Object, Value
  <1>6. PICK texts : texts = ObjectTexts(v, x)
    OBVIOUS
  <1>7. Written[d][v] = <<"{">> \o Joined(texts) \o <<"}">>
    <2>1. v.type = "OBJECT" => Written[d][v] = <<"{">> \o Joined(ObjectTexts(v, x)) \o <<"}">>
      BY ONLY <1>1, <1>4, d \in 1 .. MaxDepth, WrittenKinds
    <2> QED
      BY ONLY <1>5, <1>6, <2>1
  <1>8. texts = [i \in 1 .. Len(kids) |-> Quoted(keys[i]) \o <<":">> \o x[kids[i]]]
    BY ONLY <1>5, <1>6 DEF ObjectTexts
  <1>9. PICK n \in Nat : n = Len(kids) /\ m \in 1 .. n
    OBVIOUS
  <1>10. \A i \in 1 .. n : x[kids[i]] \in Chars /\ keys[i] \in Chars
    <2>1. \A i \in 1 .. n : kids[i] \in S
      BY ONLY <1>9, kids \in Seq(S), ElementOfSeq
    <2>2. \A i \in 1 .. n : keys[i] \in Escaped
      BY ONLY <1>9, keys \in Seq(Escaped), Len(keys) = Len(kids), ElementOfSeq
    <2>3. Escaped \subseteq Chars
      BY DEF Escaped
    <2> QED
      BY ONLY <1>3, <2>1, <2>2, <2>3
  <1>11. PICK c \in Chars : c = <<":">> /\ Unmarked(c)
    <2>1. ":" \in Char /\ ":" # ">"
      BY ONLY CharAssumption
    <2> QED
      BY ONLY <2>1, PlainTexts
  <1>12. ASSUME NEW i \in 1 .. n
         PROVE  texts[i] = (Quoted(keys[i]) \o c) \o x[kids[i]] /\ Quoted(keys[i]) \in Chars
    <2>1. Quoted(keys[i]) \in Chars
      BY ONLY <1>10, i \in 1 .. n, QuotedLen
    <2> QED
      BY ONLY <1>8, <1>9, <1>11, <2>1, i \in 1 .. n
  <1>13. texts \in Seq(Chars) /\ Len(texts) = n
    <2>1. ASSUME NEW i \in 1 .. n PROVE texts[i] \in Chars
      <3>1. PICK q \in Chars, y \in Chars : q = Quoted(keys[i]) /\ y = x[kids[i]]
        BY ONLY <1>10, <1>12, i \in 1 .. n
      <3>2. (q \o c) \o y \in Chars
        BY ONLY Texts, q \in Chars, c \in Chars, y \in Chars
      <3> QED
        BY ONLY <1>12, <3>1, <3>2, i \in 1 .. n
    <2>2. DOMAIN texts = 1 .. n /\ texts = [i \in 1 .. n |-> texts[i]]
      BY ONLY <1>8, <1>9
    <2>3. texts \in [1 .. n -> Chars]
      BY ONLY <2>1, <2>2
    <2> QED
      BY ONLY <2>3, n \in Nat
  <1>14. ASSUME NEW i \in 1 .. m
         PROVE  Leads(texts[i], x[kids[i]]) /\ (i <= m - 1 => Unmarked(texts[i]))
    <2>1. i \in 1 .. n
      BY ONLY <1>9, n \in Nat, i \in 1 .. m
    <2>2. PICK q \in Chars, y \in Chars : q = Quoted(keys[i]) /\ y = x[kids[i]]
      BY ONLY <1>10, <1>12, <2>1
    <2>3. Unmarked(q)
      <3>1. keys[i] \in Chars /\ Unmarked(keys[i])
        BY ONLY <1>10, <2>1, i \in 1 .. m, \A j \in 1 .. m : Unmarked(keys[j])
      <3> QED
        BY ONLY <2>2, <3>1, PlainTexts
    <2>4. texts[i] = (q \o c) \o y
      BY ONLY <1>12, <2>1, <2>2
    <2>5. Leads((q \o c) \o y, y)
      BY ONLY <1>11, <2>3, q \in Chars, c \in Chars, y \in Chars, LeadsBehind
    <2>6. ASSUME i <= m - 1 PROVE Unmarked(texts[i])
      <3>1. Unmarked(y)
        <4>1. i \in 1 .. m - 1
          BY ONLY <1>9, <2>6, n \in Nat, i \in 1 .. m
        <4> QED
          BY ONLY <1>1, <2>2, <4>1, \A j \in 1 .. m - 1 : Unmarked(Written[d - 1][kids[j]])
      <3>2. PICK z \in Chars : z = q \o c /\ Unmarked(z)
        BY ONLY <1>11, <2>3, q \in Chars, c \in Chars, PlainTexts, Texts
      <3>3. Unmarked(z \o y)
        BY ONLY <3>1, <3>2, z \in Chars, y \in Chars, PlainTexts
      <3> QED
        BY ONLY <2>4, <3>2, <3>3
    <2> QED
      BY ONLY <2>2, <2>4, <2>5, <2>6
  <1>15. PICK a \in Char, b \in Char : a = "{" /\ b = "}" /\ a # ">" /\ b # ">"
    BY ONLY CharAssumption
  <1>16. PICK s : s = <<a>> \o Joined(texts) \o <<b>>
    OBVIOUS
  <1>17. s \in Chars /\ Leads(s, texts[m])
    <2>1. m \in 1 .. Len(texts)
      BY ONLY <1>9, <1>13
    <2>2. \A j \in 1 .. m - 1 : j \in 1 .. m /\ j <= m - 1
      BY ONLY <1>9, n \in Nat
    <2>3. \A j \in 1 .. m - 1 : Unmarked(texts[j])
      BY ONLY <1>14, <2>2
    <2> QED
      BY ONLY <1>13, <1>15, <1>16, <2>1, <2>3, a \in Char, b \in Char, LeadsItem
  <1>18. PICK t \in Chars, y \in Chars : t = texts[m] /\ y = x[kids[m]]
    BY ONLY <1>9, <1>10, <1>13, ElementOfSeq
  <1>19. Leads(t, y)
    <2>1. m \in 1 .. m
      BY ONLY <1>9, n \in Nat
    <2> QED
      BY ONLY <1>14, <1>18, <2>1
  <1>20. Leads(s, y)
    BY ONLY <1>17, <1>18, <1>19, t \in Chars, y \in Chars, LeadsOn
  <1>21. Written[d][v] = s
    BY ONLY <1>7, <1>15, <1>16
  <1> QED
    BY ONLY <1>1, <1>17, <1>18, <1>20, <1>21, y \in Chars

(* The text of the first row stands in the answer as a string, and no mark *)
(* stands before it.                                                       *)
LEMMA AnswerLeads ==
  ASSUME NEW R, \A row \in R : Telling(row), NEW rows \in Seq(R), Len(rows) > 0
  PROVE  Answer(rows) \in Chars /\ Leads(Answer(rows), Quoted(ItemText(rows[1])))
  <1>1. PICK n \in Nat : n = Len(rows) /\ n > 0
    OBVIOUS
  <1>2. PICK f : /\ Listing(rows, f)
                 /\ Answer(rows) = CStr(AddValJson(Array(<<>>), Settings(rows, f[Len(rows)])))
    BY ONLY \A row \in R : Telling(row), rows \in Seq(R), AnswerIs
  <1>3. PICK C : C = Offered(R)
    OBVIOUS
  <1>4. PICK cs \in Seq(C) : f[Len(rows)] = Array(cs) /\ Candidates(rows, cs)
    BY ONLY <1>2, <1>3, \A row \in R : Telling(row), rows \in Seq(R), ListingIs
  <1>5. PICK M \in Nat : M = MaxDepth /\ M >= 5
    BY ONLY Levels5
  <1>6. \A c \in C : Whole(2, c)
    BY ONLY <1>3, \A row \in R : Telling(row), CandidateWhole DEF Offered
  <1>7. PICK list : list = Array(cs)
    OBVIOUS
  <1>8. Whole(3, list)
    <2>1. PICK k \in 1 .. MaxDepth : k = 3
      BY ONLY Levels5
    <2>2. \A w \in C : Whole(k - 1, w)
      BY ONLY <1>6, <2>1
    <2>3. Whole(k, Array(cs))
      BY ONLY <2>2, k \in 1 .. MaxDepth, cs \in Seq(C), WholeContainer
    <2> QED
      BY ONLY <1>7, <2>1, <2>3
  <1>9. PICK count : count = SetInt(n)
    OBVIOUS
  <1>10. PICK t \in Seq(Digit) \ {<<>>} : t = Printed(n)
    BY ONLY n \in Nat, PrintedAre
  <1>11. count = Value("DIGITAL", t, <<>>, <<>>)
    BY ONLY <1>9, <1>10 DEF SetInt
  <1>12. Whole(1, count) /\ Whole(1, Null)
    BY ONLY <1>11, Levels5, t \in Seq(Digit) \ {<<>>}, WholeLeaf
  <1>13. PICK S : S = {count, Null, list}
    OBVIOUS
  <1>14. \A w \in S : Whole(3, w)
    <2>1. 1 \in Nat /\ 3 \in Nat /\ 1 <= 3
      OBVIOUS
    <2>2. PICK one \in Nat, three \in Nat : one = 1 /\ three = 3 /\ one <= three
      BY ONLY <2>1
    <2>3. Whole(one, count) /\ Whole(one, Null)
      BY ONLY <1>12, <2>2
    <2>4. Whole(three, count) /\ Whole(three, Null)
      BY ONLY <2>2, <2>3, one \in Nat, three \in Nat, WholeUp
    <2> QED
      BY ONLY <1>8, <1>13, <2>2, <2>4
  <1>15. PICK keys \in Seq(Escaped) :
           /\ keys = <<K("count"), K("target"), K("candidate")>> /\ Len(keys) = 3
           /\ keys[1] = K("count") /\ keys[2] = K("target") /\ keys[3] = K("candidate")
    <2>1. PICK x \in Escaped, y \in Escaped, z \in Escaped :
            x = K("count") /\ y = K("target") /\ z = K("candidate")
      BY ONLY NamesAreKeys
    <2>2. /\ <<x, y, z>> \in Seq(Escaped) /\ Len(<<x, y, z>>) = 3
          /\ <<x, y, z>>[1] = x /\ <<x, y, z>>[2] = y /\ <<x, y, z>>[3] = z
      BY ONLY x \in Escaped, y \in Escaped, z \in Escaped, ThreeOf
    <2> QED
      BY ONLY <2>1, <2>2
  <1>16. PICK kids \in Seq(S) :
           /\ kids = <<count, Null, list>> /\ Len(kids) = 3
           /\ kids[1] = count /\ kids[2] = Null /\ kids[3] = list
    <2>1. PICK x \in S, y \in S, z \in S : x = count /\ y = Null /\ z = list
      BY ONLY <1>13
    <2>2. /\ <<x, y, z>> \in Seq(S) /\ Len(<<x, y, z>>) = 3
          /\ <<x, y, z>>[1] = x /\ <<x, y, z>>[2] = y /\ <<x, y, z>>[3] = z
      BY ONLY x \in S, y \in S, z \in S, ThreeOf
    <2> QED
      BY ONLY <2>1, <2>2
  <1>17. PICK settings : settings = Object(keys, kids)
    OBVIOUS
  <1>18. Settings(rows, f[Len(rows)]) = settings
    BY ONLY <1>1, <1>4, <1>7, <1>9, <1>15, <1>16, <1>17 DEF Settings
  <1>19. Whole(4, settings)
    <2>1. PICK k \in 1 .. MaxDepth : k = 4
      BY ONLY Levels5
    <2>2. \A w \in S : Whole(k - 1, w)
      BY ONLY <1>14, <2>1
    <2>3. Whole(k, Object(keys, kids))
      BY ONLY <1>15, <1>16, <2>2, k \in 1 .. MaxDepth, keys \in Seq(Escaped), kids \in Seq(S),
              WholeContainer
    <2> QED
      BY ONLY <1>17, <2>1, <2>3
  <1>20. PICK all : all = Array(<<settings>>)
    OBVIOUS
  <1>21. Answer(rows) = Written[M][all]
    <2>1. Says(CStr(settings), settings)
      <3>1. PICK k \in 0 .. MaxDepth : k = 4
        BY ONLY Levels5
      <3> QED
        BY ONLY <1>19, <3>1, WholeSays
    <2>2. PICK v : v = Array(<<>>)
      OBVIOUS
    <2>3. v.type = "ARRAY" /\ v.kids = <<>>
      BY ONLY <2>2 DEF Array, Value
    <2>4. AddedVal(v, settings, AddElementVal(v, CStr(settings)))
      BY ONLY <2>1, AddElementValIs
    <2>5. AddElementVal(v, CStr(settings)) = Array(Append(<<>>, settings))
      BY ONLY <2>3, <2>4 DEF AddedVal
    <2>6. Append(<<>>, settings) = <<settings>>
      OBVIOUS
    <2> QED
      BY ONLY <1>2, <1>5, <1>18, <1>20, <2>2, <2>5, <2>6 DEF AddValJson, CStr
  <1>22. PICK a \in 1 .. MaxDepth, b \in 1 .. MaxDepth, c \in 1 .. MaxDepth, d \in 1 .. MaxDepth :
           a = M /\ b = M - 1 /\ c = M - 2 /\ d = M - 3 /\ d - 1 \in 1 .. MaxDepth
    BY ONLY <1>5
  <1>23. a - 1 = b /\ b - 1 = c /\ c - 1 = d
    BY ONLY <1>22, M \in Nat
  <1>24. ASSUME NEW k \in Nat, NEW m \in Nat, k <= m, NEW w, Whole(k, w) PROVE Whole(m, w)
    BY ONLY <1>24, WholeUp
  <1>25. PICK texts5 \in Chars, texts4 \in Chars :
           texts5 = Written[a][all] /\ texts4 = Written[b][settings] /\ Leads(texts5, texts4)
    <2>1. PICK Q : Q = {settings}
      OBVIOUS
    <2>2. \A w \in Q : Whole(a - 1, w)
      <3>1. PICK k \in Nat, m \in Nat : k = 4 /\ m = a - 1 /\ k <= m
        BY ONLY <1>5, <1>22, M \in Nat
      <3>2. Whole(m, settings)
        BY ONLY <1>19, <1>24, <3>1
      <3> QED
        BY ONLY <2>1, <3>1, <3>2
    <2>3. PICK q \in Seq(Q) : q = <<settings>> /\ Len(q) = 1 /\ q[1] = settings
      <3>1. PICK x \in Q : x = settings
        BY ONLY <2>1
      <3> QED
        BY ONLY <3>1, OneOf
    <2>4. Len(q) > 0
      BY ONLY <2>3
    <2>5. /\ Written[a][Array(q)] \in Chars /\ Written[a - 1][q[1]] \in Chars
          /\ Leads(Written[a][Array(q)], Written[a - 1][q[1]])
      BY ONLY <2>2, <2>4, a \in 1 .. MaxDepth, q \in Seq(Q), LeadsArray
    <2> QED
      BY ONLY <1>20, <1>23, <2>3, <2>5
  <1>26. PICK texts3 \in Chars : texts3 = Written[c][list] /\ Leads(texts4, texts3)
    <2>1. \A w \in S : Whole(b - 1, w)
      <3>1. PICK k \in Nat, m \in Nat : k = 3 /\ m = b - 1 /\ k <= m
        BY ONLY <1>5, <1>22, M \in Nat
      <3>2. \A w \in S : Whole(m, w)
        BY ONLY <1>14, <1>24, <3>1
      <3> QED
        BY ONLY <3>1, <3>2
    <2>2. PICK m \in 1 .. Len(kids) : m = 3
      BY ONLY <1>16
    <2>3. \A j \in 1 .. m : Unmarked(keys[j])
      <3>1. /\ "count" \in Char /\ "target" \in Char /\ "candidate" \in Char
            /\ "count" # ">" /\ "target" # ">" /\ "candidate" # ">"
        BY ONLY NameAssumption
      <3>2. Unmarked(K("count")) /\ Unmarked(K("target")) /\ Unmarked(K("candidate"))
        BY ONLY <3>1, PlainTexts DEF K
      <3>3. \A j \in 1 .. m : j = 1 \/ j = 2 \/ j = 3
        BY ONLY <2>2
      <3> QED
        BY ONLY <1>15, <3>2, <3>3
    <2>4. \A j \in 1 .. m - 1 : Unmarked(Written[b - 1][kids[j]])
      <3>1. b - 1 \in 1 .. MaxDepth /\ b - 1 \in b - 1 .. MaxDepth
        BY ONLY <1>5, <1>22, <1>23, M \in Nat
      <3>2. count \in Doc[b - 1] /\ Null \in Doc[b - 1]
        BY ONLY <1>13, <2>1, <3>1 DEF Whole
      <3>3. PICK e \in 1 .. MaxDepth, y \in {Null} : e = b - 1 /\ y = Null
        BY ONLY <3>1
      <3>4. count.type = "DIGITAL" /\ count.val = t /\ y.type = "NULL" /\ y.val = <<"null">>
        BY ONLY <1>11, <3>3 DEF Value, Null
      <3>5. Written[e][count] = t
        <4>1. count.type \in {"NULL", "BOOL", "DIGITAL"} => Written[e][count] = count.val
          BY ONLY <3>2, <3>3, e \in 1 .. MaxDepth, WrittenKinds
        <4> QED
          BY ONLY <3>4, <4>1
      <3>6. Written[e][y] = <<"null">>
        <4>1. y.type \in {"NULL", "BOOL", "DIGITAL"} => Written[e][y] = y.val
          BY ONLY <3>2, <3>3, e \in 1 .. MaxDepth, WrittenKinds
        <4> QED
          BY ONLY <3>4, <4>1
      <3>7. Unmarked(t) /\ Unmarked(<<"null">>)
        <4>1. "null" \in Char /\ "null" # ">" /\ t \in Seq(Digit)
          BY ONLY CharAssumption, t \in Seq(Digit) \ {<<>>}
        <4> QED
          BY ONLY <4>1, PlainTexts
      <3>8. \A j \in 1 .. m - 1 : j = 1 \/ j = 2
        BY ONLY <2>2
      <3> QED
        BY ONLY <1>16, <3>3, <3>5, <3>6, <3>7, <3>8
    <2>5. /\ Written[b][Object(keys, kids)] \in Chars /\ Written[b - 1][kids[m]] \in Chars
          /\ Leads(Written[b][Object(keys, kids)], Written[b - 1][kids[m]])
      BY ONLY <1>15, <1>16, <2>1, <2>3, <2>4, b \in 1 .. MaxDepth, keys \in Seq(Escaped),
              kids \in Seq(S), m \in 1 .. Len(kids), LeadsObject
    <2> QED
      BY ONLY <1>16, <1>17, <1>23, <1>25, <2>2, <2>5
  <1>27. Len(cs) > 0 /\ cs[1] = Candidate(rows[1])
    BY ONLY <1>1, <1>4 DEF Candidates
  <1>28. PICK texts2 \in Chars : texts2 = Written[d][cs[1]] /\ Leads(texts3, texts2)
    <2>1. \A w \in C : Whole(c - 1, w)
      <3>1. PICK k \in Nat, m \in Nat : k = 2 /\ m = c - 1 /\ k <= m
        BY ONLY <1>5, <1>22, M \in Nat
      <3>2. \A w \in C : Whole(m, w)
        BY ONLY <1>6, <1>24, <3>1
      <3> QED
        BY ONLY <3>1, <3>2
    <2>2. /\ Written[c][Array(cs)] \in Chars /\ Written[c - 1][cs[1]] \in Chars
          /\ Leads(Written[c][Array(cs)], Written[c - 1][cs[1]])
      BY ONLY <1>27, <2>1, c \in 1 .. MaxDepth, cs \in Seq(C), LeadsArray
    <2> QED
      BY ONLY <1>7, <1>23, <1>26, <2>2
  <1>29. PICK row \in R : row = rows[1]
    BY ONLY <1>1, rows \in Seq(R), ElementOfSeq
  <1>30. PICK item : item = Str(ItemText(row))
    OBVIOUS
  <1>31. PICK texts1 \in Chars : texts1 = Written[d - 1][item] /\ Leads(texts2, texts1)
         /\ Whole(d - 1, item)
    <2>1. PICK Q : Q = {item}
      OBVIOUS
    <2>2. \A w \in Q : Whole(d - 1, w)
      <3>1. PICK k \in Nat, m \in Nat : k = 1 /\ m = d - 1 /\ k <= m
        BY ONLY <1>5, <1>22, M \in Nat
      <3>2. Whole(1, item)
        BY ONLY <1>30, Levels5, row \in R, \A r \in R : Telling(r), WholeLeaf DEF Telling
      <3>3. Whole(m, item)
        BY ONLY <1>24, <3>1, <3>2
      <3> QED
        BY ONLY <2>1, <3>1, <3>3
    <2>3. PICK q \in Seq(Q) : q = <<item>> /\ Len(q) = 1 /\ q[1] = item
      <3>1. PICK x \in Q : x = item
        BY ONLY <2>1
      <3> QED
        BY ONLY <3>1, OneOf
    <2>4. PICK k \in Seq(Escaped) : k = <<K("val")>> /\ Len(k) = 1 /\ k[1] = K("val")
      <3>1. PICK x \in Escaped : x = K("val")
        BY ONLY NamesAreKeys
      <3> QED
        BY ONLY <3>1, OneOf
    <2>5. PICK m \in 1 .. Len(q) : m = 1
      BY ONLY <2>3
    <2>6. \A j \in 1 .. m : Unmarked(k[j])
      <3>1. "val" \in Char /\ "val" # ">"
        BY ONLY NameAssumption
      <3>2. Unmarked(K("val"))
        BY ONLY <3>1, PlainTexts DEF K
      <3>3. \A j \in 1 .. m : j = 1
        BY ONLY <2>5
      <3> QED
        BY ONLY <2>4, <3>2, <3>3
    <2>7. \A j \in 1 .. m - 1 : Unmarked(Written[d - 1][q[j]])
      BY ONLY <2>5
    <2>8. Len(k) = Len(q)
      BY ONLY <2>3, <2>4
    <2>9. /\ Written[d][Object(k, q)] \in Chars /\ Written[d - 1][q[m]] \in Chars
          /\ Leads(Written[d][Object(k, q)], Written[d - 1][q[m]])
      BY ONLY <2>2, <2>6, <2>7, <2>8, d \in 1 .. MaxDepth, k \in Seq(Escaped),
              q \in Seq(Q), m \in 1 .. Len(q), LeadsObject
    <2>10. cs[1] = Object(k, q)
      <3>1. Candidate(row) = Object(<<K("val")>>, <<Str(ItemText(row))>>)
        BY ONLY CandidateIs
      <3> QED
        BY ONLY <1>27, <1>29, <1>30, <2>3, <2>4, <3>1
    <2>11. Whole(d - 1, item)
      BY ONLY <2>1, <2>2
    <2> QED
      BY ONLY <1>28, <2>3, <2>5, <2>9, <2>10, <2>11
  <1>32. texts1 = Quoted(ItemText(row))
    <2>1. PICK e \in 1 .. MaxDepth : e = d - 1
      BY ONLY <1>22
    <2>2. item \in Doc[e]
      <3>1. e \in d - 1 .. MaxDepth
        BY ONLY <2>1, <1>5, e \in 1 .. MaxDepth
      <3> QED
        BY ONLY <1>31, <3>1 DEF Whole
    <2>3. item.type = "STRING" /\ item.val = ItemText(row)
      BY ONLY <1>30 DEF Str, Value
    <2>4. item.type = "STRING" => Written[e][item] = Quoted(item.val)
      BY ONLY <2>1, <2>2, e \in 1 .. MaxDepth, WrittenKinds
    <2> QED
      BY ONLY <1>31, <2>1, <2>3, <2>4
  <1>33. Leads(texts5, texts1)
    <2>1. Leads(texts5, texts3)
      BY ONLY <1>25, <1>26, texts5 \in Chars, texts4 \in Chars, texts3 \in Chars, LeadsOn
    <2>2. Leads(texts5, texts2)
      BY ONLY <1>28, <2>1, texts5 \in Chars, texts3 \in Chars, texts2 \in Chars, LeadsOn
    <2> QED
      BY ONLY <1>31, <2>2, texts5 \in Chars, texts2 \in Chars, texts1 \in Chars, LeadsOn
  <1>34. Answer(rows) = texts5
    BY ONLY <1>21, <1>22, <1>25
  <1> QED
    BY ONLY <1>29, <1>32, <1>33, <1>34, texts5 \in Chars

-----------------------------------------------------------------------------
(* What the display makes of a text.                                       *)

(* A piece ends before the next mark, or with the text.                    *)
LEMMA PieceEnds ==
  ASSUME NEW t \in Chars, NEW mark, NEW i \in Nat, i <= Len(t)
  PROVE  \E e \in i .. Len(t) + 1 :
           /\ PieceEnd(t, mark, i) = e - 1
           /\ e <= Len(t) => t[e] = mark
           /\ \A j \in i .. Len(t) : t[j] = mark => e <= j
  <1>1. PICK n \in Nat : n = Len(t)
    BY ONLY Texts, t \in Chars
  <1>2. PICK Q : Q = {j \in i .. Len(t) : t[j] = mark} \union {Len(t) + 1}
    OBVIOUS
  <1>3. Q \in SUBSET Nat /\ Q # {} /\ \A j \in Q : j \in i .. n + 1
    BY ONLY <1>1, <1>2, i \in Nat, i <= Len(t)
  <1>4. PICK e : e = Min(Q)
    OBVIOUS
  <1>5. e \in Q /\ \A j \in Q : e <= j
    BY ONLY <1>3, <1>4, MinIn
  <1>6. PieceEnd(t, mark, i) = e - 1
    BY ONLY <1>2, <1>4 DEF PieceEnd
  <1>7. e \in i .. n + 1 /\ (e <= n => t[e] = mark)
    BY ONLY <1>1, <1>2, <1>3, <1>5
  <1>8. \A j \in i .. n : t[j] = mark => e <= j
    BY ONLY <1>1, <1>2, <1>5
  <1> QED
    BY ONLY <1>1, <1>6, <1>7, <1>8

(* The pieces from position i on.                                          *)
PiecesAt(t, mark, i, f) ==
  IF i > Len(t) THEN <<>>
  ELSE <<SubSeq(t, i, PieceEnd(t, mark, i))>> \o f[PieceEnd(t, mark, i) + 2]

(* Pieces obeys its recursive definition.                                  *)
LEMMA PiecesIs ==
  ASSUME NEW t \in Chars, NEW mark
  PROVE  \E f : /\ Pieces(t, mark) = f[1]
                /\ \A i \in Nat : f[i] = PiecesAt(t, mark, i, f)
                /\ \E R : \A i \in Nat : f[i] \in Seq(R)
  <1> DEFINE D(f) == [i \in Nat |-> PiecesAt(t, mark, i, f)]
             c == CHOOSE f : f = D(f)
  <1>1. Pieces(t, mark) = c[1]
    BY DEF Pieces, PiecesAt
  <1>2. PICK n \in Nat : n = Len(t)
    BY Texts
  <1>3. PICK R : \A i \in Nat : \A e \in Int : SubSeq(t, i, e) \in R
    <2> DEFINE Q == {SubSeq(t, i, e) : i \in Nat, e \in Int}
    <2>1. \A i \in Nat : \A e \in Int : SubSeq(t, i, e) \in Q
      OBVIOUS
    <2> HIDE DEF Q
    <2> QED
      BY ONLY <2>1, Zenon
  <1>4. PICK S : S = Seq(R)
    OBVIOUS
  <1>e. ASSUME NEW i \in Nat, ~(i > Len(t))
        PROVE  \E e \in Int : e = PieceEnd(t, mark, i) /\ e + 2 \in Nat /\ e + 2 > i
    <2>1. i <= Len(t)
      BY ONLY <1>2, <1>e, i \in Nat, n \in Nat
    <2>2. PICK e \in i .. Len(t) + 1 : PieceEnd(t, mark, i) = e - 1
      BY ONLY <2>1, t \in Chars, i \in Nat, PieceEnds
    <2>3. e - 1 \in Int /\ (e - 1) + 2 \in Nat /\ (e - 1) + 2 > i
      BY ONLY <1>2, i \in Nat, e \in i .. Len(t) + 1
    <2> QED
      BY ONLY <2>2, <2>3
  <1>5. ASSUME NEW i \in Nat, NEW f \in [Nat -> S] PROVE PiecesAt(t, mark, i, f) \in S
    <2>1. <<>> \in S
      BY ONLY <1>4
    <2>2. CASE i > Len(t)
      BY ONLY <2>1, <2>2, Zenon DEF PiecesAt
    <2>3. CASE ~(i > Len(t))
      <3>2. PICK e \in Int : e = PieceEnd(t, mark, i) /\ e + 2 \in Nat
        BY ONLY <1>e, <2>3, i \in Nat
      <3>4. PICK s \in Seq(R) : s = f[e + 2]
        BY ONLY <1>4, <3>2, f \in [Nat -> S]
      <3>5. PICK x \in R : x = SubSeq(t, i, e)
        BY ONLY <1>3, e \in Int, i \in Nat
      <3>6. <<x>> \o s \in Seq(R)
        OBVIOUS
      <3>7. PiecesAt(t, mark, i, f) = <<x>> \o s
        BY ONLY <2>3, <3>2, <3>4, <3>5, Zenon DEF PiecesAt
      <3> QED
        BY ONLY <1>4, <3>6, <3>7
    <2> QED
      BY <2>2, <2>3
  <1>6. ASSUME NEW i \in Nat, NEW f, NEW h, i > n \/ \A j \in Nat : j > i => f[j] = h[j]
        PROVE  PiecesAt(t, mark, i, f) = PiecesAt(t, mark, i, h)
    <2>1. CASE i > Len(t)
      BY ONLY <2>1, Zenon DEF PiecesAt
    <2>2. CASE ~(i > Len(t))
      <3>2. PICK e \in Int : e = PieceEnd(t, mark, i) /\ e + 2 \in Nat /\ e + 2 > i
        BY ONLY <1>e, <2>2, i \in Nat
      <3>3. f[e + 2] = h[e + 2]
        BY ONLY <1>2, <1>6, <2>2, <3>2
      <3> QED
        BY ONLY <3>2, <3>3, Zenon DEF PiecesAt
    <2> QED
      BY <2>1, <2>2
  <1> DEFINE G == [i \in Nat |-> [f \in [Nat -> S] |-> PiecesAt(t, mark, i, f)]]
  <1>7. \A i \in Nat : \A f \in [Nat -> S] : G[i][f] = PiecesAt(t, mark, i, f)
    OBVIOUS
  <1>8. G \in [Nat -> [[Nat -> S] -> S]]
    BY <1>5
  <1>9. PICK f0 \in [Nat -> S] : TRUE
    <2>1. [i \in Nat |-> <<>>] \in [Nat -> S]
      BY <1>4
    <2> QED
      BY <2>1
  <1> HIDE DEF G, c
  <1>10. LooksBehind(S, n, G)
    <2>1. ASSUME NEW i \in Nat, NEW f \in [Nat -> S], NEW h \in [Nat -> S],
                 i > n \/ \A j \in Nat : j > i => f[j] = h[j]
          PROVE  G[i][f] = G[i][h]
      <3>1. PiecesAt(t, mark, i, f) = PiecesAt(t, mark, i, h)
        BY ONLY <1>6, <2>1, i \in Nat
      <3> QED
        BY ONLY <1>7, <3>1, i \in Nat, f \in [Nat -> S], h \in [Nat -> S]
    <2> QED
      BY ONLY <2>1, Zenon DEF LooksBehind
  <1>11. PICK f \in [Nat -> S] : \A i \in Nat : f[i] = G[i][f]
    <2> HIDE DEF D
    <2>1. PICK g : g = G
      OBVIOUS
    <2>2. \E f : IsRightFold(S, g, f)
      BY ONLY <1>8, f0 \in [Nat -> S], <1>10, n \in Nat, <2>1, FromTheRight
    <2> QED
      BY <2>1, <2>2 DEF IsRightFold
  <1>12. \A i \in Nat : f[i] = PiecesAt(t, mark, i, f)
    BY <1>7, <1>11
  <1>13. c = D(c)
    <2>1. f = D(f)
      BY <1>12
    <2> QED
      BY <2>1 DEF c
  <1>14. \A i \in Nat : c[i] = PiecesAt(t, mark, i, c)
    BY <1>13
  <1>15. \A i \in Nat : c[i] \in Seq(R)
    <2>1. PICK u : u = c
      OBVIOUS
    <2> DEFINE P == {k \in Nat : \A i \in Nat : i + k > n => u[i] \in S}
    <2> HIDE DEF P
    <2>2. 0 \in P
      <3>1. ASSUME NEW i \in Nat, i + 0 > n PROVE u[i] \in S
        <4>1. i > Len(t)
          BY ONLY <1>2, <3>1, i \in Nat
        <4>2. u[i] = PiecesAt(t, mark, i, u)
          BY ONLY <1>14, <2>1, i \in Nat
        <4>3. <<>> \in S
          BY ONLY <1>4
        <4> QED
          BY ONLY <4>1, <4>2, <4>3, Zenon DEF PiecesAt
      <3> QED
        BY ONLY <3>1 DEF P
    <2>3. ASSUME NEW k \in Nat, k \in P PROVE k + 1 \in P
      <3>1. ASSUME NEW i \in Nat, i + (k + 1) > n PROVE u[i] \in S
        <4>1. u[i] = PiecesAt(t, mark, i, u)
          BY ONLY <1>14, <2>1, i \in Nat
        <4>2. CASE i > Len(t)
          <5>1. <<>> \in S
            BY ONLY <1>4
          <5> QED
            BY ONLY <4>1, <4>2, <5>1, Zenon DEF PiecesAt
        <4>3. CASE ~(i > Len(t))
          <5>1. PICK e \in Int : e = PieceEnd(t, mark, i) /\ e + 2 \in Nat /\ e + 2 > i
            BY ONLY <1>e, <4>3, i \in Nat
          <5>2. (e + 2) + k > n
            BY ONLY <3>1, <5>1, e \in Int, i \in Nat, k \in Nat, n \in Nat
          <5>3. PICK s \in Seq(R) : s = u[e + 2]
            BY ONLY <1>4, <2>3, <5>1, <5>2 DEF P
          <5>4. PICK x \in R : x = SubSeq(t, i, e)
            BY ONLY <1>3, e \in Int, i \in Nat
          <5>5. <<x>> \o s \in Seq(R)
            OBVIOUS
          <5>6. PiecesAt(t, mark, i, u) = <<x>> \o s
            BY ONLY <4>3, <5>1, <5>3, <5>4, Zenon DEF PiecesAt
          <5> QED
            BY ONLY <1>4, <4>1, <5>5, <5>6
        <4> QED
          BY ONLY <4>2, <4>3
      <3> QED
        BY ONLY <3>1 DEF P
    <2>4. n + 1 \in P
      <3>1. PICK m \in Nat : m = n + 1
        BY ONLY n \in Nat
      <3>2. \A k \in Nat : k < m /\ k \in P => k + 1 \in P
        BY ONLY <2>3
      <3>3. 0 .. m \subseteq P
        BY ONLY <2>2, <3>2, m \in Nat, UpTo
      <3> QED
        BY ONLY <3>1, <3>3, m \in Nat
    <2>5. \A i \in Nat : i + (n + 1) > n
      BY ONLY n \in Nat
    <2> QED
      BY ONLY <1>4, <2>1, <2>4, <2>5 DEF P
  <1> QED
    BY ONLY <1>1, <1>14, <1>15

(* f holds the pieces from each position on; no mark from i to e.          *)
Cutting(t, mark, f) == \A i \in Nat : f[i] = PiecesAt(t, mark, i, f)
NoneFrom(t, mark, i, e) == \A k \in i .. e - 1 : t[k] # mark

(* A piece, when the mark behind it is known.                              *)
LEMMA PieceBefore ==
  ASSUME NEW t \in Chars, NEW mark, NEW f, Cutting(t, mark, f),
         NEW i \in Nat, i > 0, NEW e \in Nat, i <= e, e <= Len(t), t[e] = mark,
         NoneFrom(t, mark, i, e)
  PROVE  f[i] = <<SubSeq(t, i, e - 1)>> \o f[e + 1]
  <1>1. PICK n \in Nat : n = Len(t)
    BY ONLY Texts, t \in Chars
  <1>2. i <= Len(t) /\ ~(i > Len(t)) /\ e \in Nat /\ e \in i .. n
    BY ONLY <1>1, i \in Nat, e \in Nat, i <= e, e <= Len(t)
  <1>3. PICK d \in i .. Len(t) + 1 :
          /\ PieceEnd(t, mark, i) = d - 1
          /\ d <= Len(t) => t[d] = mark
          /\ \A j \in i .. Len(t) : t[j] = mark => d <= j
    BY ONLY <1>2, t \in Chars, i \in Nat, PieceEnds
  <1>4. d = e
    <2>1. d <= e
      BY ONLY <1>1, <1>2, <1>3, t[e] = mark
    <2>2. CASE d < e
      <3>1. d \in i .. e - 1 /\ d <= Len(t)
        BY ONLY <1>1, <1>2, <2>2, d \in i .. Len(t) + 1
      <3> QED
        BY ONLY <1>3, <3>1, NoneFrom(t, mark, i, e) DEF NoneFrom
    <2> QED
      BY ONLY <1>1, <1>2, <2>1, <2>2, d \in i .. Len(t) + 1, i \in Nat
  <1>5. PICK g \in Int : g = PieceEnd(t, mark, i) /\ g = e - 1 /\ g + 2 = e + 1
    BY ONLY <1>2, <1>3, <1>4
  <1>6. f[i] = PiecesAt(t, mark, i, f)
    BY ONLY i \in Nat, Cutting(t, mark, f) DEF Cutting
  <1>7. PiecesAt(t, mark, i, f) = <<SubSeq(t, i, g)>> \o f[g + 2]
    BY ONLY <1>2, <1>5, Zenon DEF PiecesAt
  <1> QED
    BY ONLY <1>5, <1>6, <1>7

(* c is a text without a mark, and stands at i before the mark at e.       *)
IsField(t, i, c, e) ==
  /\ i > 0 /\ c \in Chars /\ Unmarked(c) /\ Stands(t, i, c)
  /\ e = i + Len(c) /\ e <= Len(t) /\ t[e] = ">"

(* Such a text is a piece.                                                 *)
LEMMA FieldIsPiece ==
  ASSUME NEW t \in Chars, NEW f, Cutting(t, ">", f),
         NEW i \in Nat, NEW c, NEW e \in Nat, IsField(t, i, c, e)
  PROVE  f[i] = <<c>> \o f[e + 1]
  <1>0. /\ i > 0 /\ c \in Chars /\ Unmarked(c) /\ Stands(t, i, c)
        /\ e = i + Len(c) /\ e <= Len(t) /\ t[e] = ">"
    BY ONLY IsField(t, i, c, e) DEF IsField
  <1>1. PICK n \in Nat, l \in Nat : n = Len(t) /\ l = Len(c)
    BY ONLY <1>0, Texts, t \in Chars
  <1>2. \A k \in 1 .. l : t[i + k - 1] = c[k] /\ c[k] # ">"
    BY ONLY <1>0, <1>1 DEF Unmarked, Stands
  <1>3. ASSUME NEW k \in i .. e - 1 PROVE t[k] # ">"
    <2>1. PICK h \in 1 .. l : i + h - 1 = k
      <3>1. k - i + 1 \in 1 .. l /\ i + (k - i + 1) - 1 = k
        BY ONLY <1>0, <1>1, k \in i .. e - 1, i \in Nat, e \in Nat
      <3> QED
        BY ONLY <3>1
    <2> QED
      BY ONLY <1>2, <2>1
  <1>4. PICK mark : mark = ">"
    OBVIOUS
  <1>5. e \in i .. Len(t)
    BY ONLY <1>0, <1>1, i \in Nat, e \in Nat
  <1>6. f[i] = <<SubSeq(t, i, e - 1)>> \o f[e + 1]
    <2>1. Cutting(t, mark, f)
      BY ONLY <1>4, Cutting(t, ">", f)
    <2>2. i <= e
      BY ONLY <1>5
    <2>3. t[e] = mark
      BY ONLY <1>0, <1>4
    <2>4. NoneFrom(t, mark, i, e)
      BY ONLY <1>3, <1>4 DEF NoneFrom
    <2>5. i > 0 /\ e <= Len(t)
      BY ONLY <1>0
    <2> QED
      BY ONLY <2>1, <2>2, <2>3, <2>4, <2>5, t \in Chars, i \in Nat, e \in Nat, PieceBefore
  <1>7. SubSeq(t, i, i + Len(c) - 1) = c
    BY ONLY <1>0, t \in Chars, i \in Nat, CutOut
  <1>8. i + Len(c) - 1 = e - 1
    BY ONLY <1>0, i \in Nat, e \in Nat, Texts
  <1> QED
    BY ONLY <1>6, <1>7, <1>8

(* A piece before others.                                                  *)
LEMMA Before ==
  ASSUME NEW R, NEW a, NEW s \in Seq(R)
  PROVE  /\ Len(<<a>> \o s) = Len(s) + 1 /\ Len(s) \in Nat
         /\ (<<a>> \o s)[1] = a
         /\ \A k \in 1 .. Len(s) : (<<a>> \o s)[k + 1] = s[k]
  <1>1. PICK S : S = R \union {a}
    OBVIOUS
  <1>2. s \in Seq(S) /\ a \in S
    BY <1>1
  <1>3. PICK u \in Seq(S) : u = <<a>> /\ Len(u) = 1 /\ u[1] = a
    <2>1. PICK b \in S : b = a
      BY ONLY <1>2
    <2>2. <<b>> \in Seq(S) /\ Len(<<b>>) = 1 /\ <<b>>[1] = b
      BY ONLY b \in S, OneOf
    <2> QED
      BY ONLY <2>1, <2>2
  <1>4. Len(u \o s) = Len(s) + 1 /\ Len(s) \in Nat /\ (u \o s)[1] = a
        /\ \A k \in 1 .. Len(s) : (u \o s)[k + 1] = s[k]
    BY ONLY <1>2, <1>3, u \in Seq(S)
  <1> QED
    BY ONLY <1>3, <1>4

(* Pieces up to one that is not empty are kept.                            *)
LEMMA SplitKeeps ==
  ASSUME NEW t, NEW mark, NEW R, Pieces(t, mark) \in Seq(R),
         NEW k \in 1 .. Len(Pieces(t, mark)), Pieces(t, mark)[k] # <<>>
  PROVE  /\ Len(Split(t, mark)) \in Nat /\ Len(Split(t, mark)) >= k
         /\ \A j \in 1 .. k : Split(t, mark)[j] = Pieces(t, mark)[j]
  <1>1. PICK p \in Seq(R) : p = Pieces(t, mark)
    OBVIOUS
  <1>2. PICK n \in Nat : n = Len(p)
    OBVIOUS
  <1>3. PICK Q : Q = {0} \union {i \in DOMAIN p : p[i] # <<>>}
    OBVIOUS
  <1>4. Q \in SUBSET (0 .. n) /\ Q # {} /\ k \in Q
    <2>1. DOMAIN p = 1 .. n
      BY ONLY <1>2, p \in Seq(R)
    <2> QED
      BY ONLY <1>1, <1>2, <1>3, <2>1, k \in 1 .. Len(Pieces(t, mark)), Pieces(t, mark)[k] # <<>>
  <1>5. PICK last : last = Max(Q)
    OBVIOUS
  <1>6. last \in Q /\ \A y \in Q : y <= last
    BY ONLY <1>4, <1>5, n \in Nat, MaxIn
  <1>7. last \in 0 .. n /\ k <= last
    BY ONLY <1>4, <1>6
  <1>8. Split(t, mark) = SubSeq(p, 1, last)
    BY ONLY <1>1, <1>3, <1>5 DEF Split
  <1>9. Len(SubSeq(p, 1, last)) = last /\ \A j \in 1 .. last : SubSeq(p, 1, last)[j] = p[j]
    BY ONLY <1>2, <1>7, p \in Seq(R)
  <1>10. k \in Nat /\ last \in Nat
    BY ONLY <1>7, k \in 1 .. Len(Pieces(t, mark))
  <1>11. \A j \in 1 .. k : j \in 1 .. last
    BY ONLY <1>7, <1>10
  <1> QED
    BY ONLY <1>1, <1>7, <1>8, <1>9, <1>10, <1>11

(* The wrap around, and the division.                                      *)
LEMMA NoWrap ==
  ASSUME NEW n \in Nat, n < IntLimit
  PROVE  Percent(Wrap(n)) = n \div 100
  <1>1. PICK l \in Nat : l = IntLimit /\ l > 0
    BY ONLY LimitAssumption
  <1>2. PICK m \in Nat, x \in Nat : m = 2 * l /\ x = n + l /\ x < m /\ m > 0
    BY ONLY <1>1, n < IntLimit, n \in Nat
  <1>3. x % m = x
    BY ONLY <1>2, m \in Nat, x \in Nat
  <1>4. Wrap(n) = n
    BY ONLY <1>1, <1>2, <1>3, n \in Nat DEF Wrap
  <1>5. ~(n < 0)
    BY ONLY n \in Nat
  <1> QED
    BY ONLY <1>4, <1>5 DEF Percent

(* A mark between two texts: where it stands, and the text behind it.      *)
Marked(t, i, p, c, e) ==
  /\ e = i + Len(p) /\ e <= Len(t) /\ t[e] = ">"
  /\ Stands(t, i, p) /\ Stands(t, e + 1, c)
  /\ (e + 1) + Len(c) <= Len(t) + 1
  /\ i + Len((p \o <<">">>) \o c) = (e + 1) + Len(c)

(* There is such a place.                                                  *)
LEMMA MarkBetween ==
  ASSUME NEW t \in Chars, NEW i \in Nat, i > 0, NEW p \in Chars, NEW c \in Chars,
         Stands(t, i, (p \o <<">">>) \o c)
  PROVE  \E e \in Nat : Marked(t, i, p, c, e)
  <1>1. PICK m \in Chars : m = <<">">> /\ Len(m) = 1 /\ m[1] = ">"
    BY ONLY NameAssumption, Texts
  <1>2. PICK q \in Chars : q = p \o m
    BY ONLY Texts, p \in Chars, m \in Chars
  <1>3. PICK n \in Nat, l \in Nat, h \in Nat : n = Len(t) /\ l = Len(p) /\ h = Len(c)
    BY ONLY Texts, t \in Chars, p \in Chars, c \in Chars
  <1>4. /\ Stands(t, i, q) /\ Stands(t, i + Len(q), c)
        /\ i + Len(q \o c) = (i + Len(q)) + Len(c) /\ i + Len(q) \in Nat
    <2>1. Stands(t, i, q \o c)
      BY ONLY <1>1, <1>2, Stands(t, i, (p \o <<">">>) \o c)
    <2> QED
      BY ONLY <2>1, t \in Chars, q \in Chars, c \in Chars, i \in Nat, i > 0, StandBoth
  <1>5. /\ Stands(t, i, p) /\ Stands(t, i + Len(p), m)
        /\ i + Len(p \o m) = (i + Len(p)) + Len(m) /\ i + Len(p) \in Nat
    <2>1. Stands(t, i, p \o m)
      BY ONLY <1>2, <1>4
    <2> QED
      BY ONLY <2>1, t \in Chars, p \in Chars, m \in Chars, i \in Nat, i > 0, StandBoth
  <1>6. PICK e \in Nat : e = i + Len(p)
    BY ONLY <1>5
  <1>7. i + Len(q) = e + 1
    BY ONLY <1>1, <1>2, <1>5, <1>6
  <1>8. e <= Len(t) /\ t[e] = ">"
    <2>1. e + 1 <= n + 1 /\ \A k \in 1 .. 1 : t[e + k - 1] = m[k]
      BY ONLY <1>1, <1>3, <1>5, <1>6 DEF Stands
    <2>2. 1 \in 1 .. 1 /\ e + 1 - 1 = e
      BY ONLY e \in Nat
    <2>3. t[e + 1 - 1] = m[1]
      BY ONLY <2>1, <2>2
    <2> QED
      BY ONLY <1>1, <1>3, <2>1, <2>2, <2>3, e \in Nat, n \in Nat
  <1>9. (e + 1) + Len(c) <= Len(t) + 1
    BY ONLY <1>4, <1>7 DEF Stands
  <1>10. i + Len((p \o <<">">>) \o c) = (e + 1) + Len(c)
    BY ONLY <1>1, <1>2, <1>4, <1>7
  <1>11. Stands(t, e + 1, c)
    BY ONLY <1>4, <1>7
  <1> QED
    BY ONLY <1>5, <1>6, <1>8, <1>9, <1>10, <1>11, e \in Nat DEF Marked

(* The text of eight fields.                                               *)
Fields(a, b, c, d, e, f, g, h) ==
  a \o <<">">> \o b \o <<">">> \o c \o <<">">> \o d \o <<">">> \o e
    \o <<">">> \o f \o <<">">> \o g \o <<">">> \o h

(* y is h with a quote behind it, and what follows.                        *)
StartsQuoted(y, h) ==
  Stands(y, 1, h) /\ Len(h) + 1 <= Len(y) /\ y[Len(h) + 1] = Quote

(* t is cut into pieces of which the second, fifth, seventh and eighth are *)
(* these, the eighth with the quote.                                       *)
CutInto(t, b, e, g, h) ==
  \E y \in Chars :
    /\ StartsQuoted(y, h)
    /\ Len(Split(t, ">")) \in Nat /\ Len(Split(t, ">")) >= 8
    /\ Split(t, ">")[2] = b /\ Split(t, ">")[5] = e
    /\ Split(t, ">")[7] = g /\ Split(t, ">")[8] = y

(* x is the text of eight fields without marks, of which these are the     *)
(* same four.                                                              *)
HasFields(x, b, e, g, h) ==
  /\ b \in Chars /\ e \in Chars /\ g \in Chars /\ h \in Chars
  /\ Unmarked(b) /\ Unmarked(e) /\ Unmarked(g) /\ Unmarked(h) /\ h # <<>>
  /\ \E a, c, d, f \in Chars :
       /\ Unmarked(a) /\ Unmarked(c) /\ Unmarked(d) /\ Unmarked(f)
       /\ x = Fields(a, b, c, d, e, f, g, h)

(* The display finds these fields in a text in which x stands as one       *)
(* string, and no mark before it.                                          *)
LEMMA CutUp ==
  ASSUME NEW t \in Chars, NEW x0, NEW b, NEW e, NEW g, NEW h,
         HasFields(x0, b, e, g, h), Leads(t, Quoted(x0))
  PROVE  CutInto(t, b, e, g, h)
  <1>a. /\ b \in Chars /\ e \in Chars /\ g \in Chars /\ h \in Chars /\ h # <<>>
         /\ Unmarked(b) /\ Unmarked(e) /\ Unmarked(g) /\ Unmarked(h)
    BY ONLY HasFields(x0, b, e, g, h) DEF HasFields
  <1>b. PICK a \in Chars, c \in Chars, d \in Chars, f \in Chars :
           /\ Unmarked(a) /\ Unmarked(c) /\ Unmarked(d) /\ Unmarked(f)
           /\ x0 = Fields(a, b, c, d, e, f, g, h)
    BY ONLY HasFields(x0, b, e, g, h) DEF HasFields
  <1>1. PICK m \in Chars : m = <<">">>
    BY ONLY NameAssumption, Texts
  <1>2. PICK mark : mark = ">"
    OBVIOUS
  <1>3. PICK p1 \in Chars : p1 = a
    BY ONLY <1>b
  <1>4. PICK p2 \in Chars : p2 = (p1 \o m) \o b
    <2>1. PICK q \in Chars : q = p1 \o m
      BY ONLY Texts, p1 \in Chars, m \in Chars
    <2> QED
      BY ONLY <2>1, Texts, q \in Chars, <1>a
  <1>5. PICK p3 \in Chars : p3 = (p2 \o m) \o c
    <2>1. PICK q \in Chars : q = p2 \o m
      BY ONLY Texts, p2 \in Chars, m \in Chars
    <2> QED
      BY ONLY <2>1, Texts, q \in Chars, <1>b
  <1>6. PICK p4 \in Chars : p4 = (p3 \o m) \o d
    <2>1. PICK q \in Chars : q = p3 \o m
      BY ONLY Texts, p3 \in Chars, m \in Chars
    <2> QED
      BY ONLY <2>1, Texts, q \in Chars, <1>b
  <1>7. PICK p5 \in Chars : p5 = (p4 \o m) \o e
    <2>1. PICK q \in Chars : q = p4 \o m
      BY ONLY Texts, p4 \in Chars, m \in Chars
    <2> QED
      BY ONLY <2>1, Texts, q \in Chars, <1>a
  <1>8. PICK p6 \in Chars : p6 = (p5 \o m) \o f
    <2>1. PICK q \in Chars : q = p5 \o m
      BY ONLY Texts, p5 \in Chars, m \in Chars
    <2> QED
      BY ONLY <2>1, Texts, q \in Chars, <1>b
  <1>9. PICK p7 \in Chars : p7 = (p6 \o m) \o g
    <2>1. PICK q \in Chars : q = p6 \o m
      BY ONLY Texts, p6 \in Chars, m \in Chars
    <2> QED
      BY ONLY <2>1, Texts, q \in Chars, <1>a
  <1>10. PICK p8 \in Chars : p8 = (p7 \o m) \o h
    <2>1. PICK q \in Chars : q = p7 \o m
      BY ONLY Texts, p7 \in Chars, m \in Chars
    <2> QED
      BY ONLY <2>1, Texts, q \in Chars, <1>a
  <1>11. Fields(a, b, c, d, e, f, g, h) = p8
    BY ONLY <1>1, <1>3, <1>4, <1>5, <1>6, <1>7, <1>8, <1>9, <1>10 DEF Fields
  <1>12. PICK i0 \in Nat : i0 > 0 /\ Stands(t, i0, Quoted(p8)) /\ Ahead(t, i0)
    <2>1. x0 = p8
      BY ONLY <1>11, <1>b
    <2>2. Leads(t, Quoted(p8))
      BY ONLY <2>1, Leads(t, Quoted(x0))
    <2> QED
      BY ONLY <2>2 DEF Leads
  <1>13. PICK n \in Nat, i \in Nat : n = Len(t) /\ i = i0 + 1 /\ i > 0
    BY ONLY Texts, t \in Chars, i0 \in Nat
  <1>14. /\ Stands(t, i, p8) /\ t[i0] = Quote
         /\ i + Len(p8) <= Len(t) /\ t[i + Len(p8)] = Quote
    <2>1. PICK q \in Chars : q = <<Quote>> /\ Len(q) = 1 /\ q[1] = Quote
      <3>1. Quote \in Char
        BY ONLY CharAssumption
      <3>2. <<Quote>> \in Chars /\ Len(<<Quote>>) = 1 /\ <<Quote>>[1] = Quote
        BY ONLY <3>1, Texts
      <3> QED
        BY ONLY <3>2, Zenon
    <2>2. PICK r \in Chars : r = q \o p8
      BY ONLY Texts, q \in Chars, p8 \in Chars
    <2>3. Stands(t, i0, r \o q)
      BY ONLY <1>12, <2>1, <2>2 DEF Quoted
    <2>4. /\ Stands(t, i0, r) /\ Stands(t, i0 + Len(r), q)
          /\ i0 + Len(r \o q) = (i0 + Len(r)) + Len(q) /\ i0 + Len(r) \in Nat
      BY ONLY <1>12, <2>3, t \in Chars, r \in Chars, q \in Chars, i0 \in Nat, StandBoth
    <2>5. Stands(t, i0, q \o p8)
      BY ONLY <2>2, <2>4
    <2>6. /\ Stands(t, i0, q) /\ Stands(t, i0 + Len(q), p8)
          /\ i0 + Len(q \o p8) = (i0 + Len(q)) + Len(p8) /\ i0 + Len(q) \in Nat
      BY ONLY <1>12, <2>5, t \in Chars, p8 \in Chars, q \in Chars, i0 \in Nat, StandBoth
    <2>7. PICK l \in Nat : l = i + Len(p8)
      BY ONLY Texts, p8 \in Chars, i \in Nat
    <2>8. i0 + Len(q) = i /\ i0 + Len(r) = l
      BY ONLY <1>13, <2>1, <2>2, <2>6, <2>7
    <2>9. Stands(t, l, q) /\ Stands(t, i, p8) /\ Stands(t, i0, q)
      BY ONLY <2>4, <2>6, <2>8
    <2>10. /\ l + 1 <= n + 1
           /\ \A k \in 1 .. 1 : t[l + k - 1] = Quote /\ t[i0 + k - 1] = Quote
      <3>1. l + Len(q) <= Len(t) + 1 /\ \A k \in 1 .. Len(q) : t[l + k - 1] = q[k]
        BY ONLY <2>9 DEF Stands
      <3>2. \A k \in 1 .. Len(q) : t[i0 + k - 1] = q[k]
        BY ONLY <2>9 DEF Stands
      <3>3. \A k \in 1 .. 1 : q[k] = Quote
        BY ONLY <2>1
      <3> QED
        BY ONLY <1>13, <2>1, <3>1, <3>2, <3>3
    <2>11. 1 \in 1 .. 1 /\ l + 1 - 1 = l /\ i0 + 1 - 1 = i0
      BY ONLY l \in Nat, i0 \in Nat
    <2>12. t[l + 1 - 1] = Quote /\ t[i0 + 1 - 1] = Quote
      BY ONLY <2>10, <2>11
    <2> QED
      BY ONLY <1>13, <2>7, <2>9, <2>10, <2>11, <2>12, l \in Nat, n \in Nat
  <1>15. PICK e7 \in Nat : Marked(t, i, p7, h, e7)
    <2>1. Stands(t, i, (p7 \o <<">">>) \o h)
      BY ONLY <1>1, <1>10, <1>14
    <2> QED
      BY ONLY <1>13, <2>1, t \in Chars, i \in Nat, p7 \in Chars, <1>a,
              MarkBetween
  <1>16. PICK e6 \in Nat : Marked(t, i, p6, g, e6)
    <2>1. Stands(t, i, (p6 \o <<">">>) \o g)
      BY ONLY <1>1, <1>9, <1>15 DEF Marked
    <2> QED
      BY ONLY <1>13, <2>1, t \in Chars, i \in Nat, p6 \in Chars, <1>a,
              MarkBetween
  <1>17. PICK e5 \in Nat : Marked(t, i, p5, f, e5)
    <2>1. Stands(t, i, (p5 \o <<">">>) \o f)
      BY ONLY <1>1, <1>8, <1>16 DEF Marked
    <2> QED
      BY ONLY <1>13, <2>1, t \in Chars, i \in Nat, p5 \in Chars, <1>b,
              MarkBetween
  <1>18. PICK e4 \in Nat : Marked(t, i, p4, e, e4)
    <2>1. Stands(t, i, (p4 \o <<">">>) \o e)
      BY ONLY <1>1, <1>7, <1>17 DEF Marked
    <2> QED
      BY ONLY <1>13, <2>1, t \in Chars, i \in Nat, p4 \in Chars, <1>a,
              MarkBetween
  <1>19. PICK e3 \in Nat : Marked(t, i, p3, d, e3)
    <2>1. Stands(t, i, (p3 \o <<">">>) \o d)
      BY ONLY <1>1, <1>6, <1>18 DEF Marked
    <2> QED
      BY ONLY <1>13, <2>1, t \in Chars, i \in Nat, p3 \in Chars, <1>b,
              MarkBetween
  <1>20. PICK e2 \in Nat : Marked(t, i, p2, c, e2)
    <2>1. Stands(t, i, (p2 \o <<">">>) \o c)
      BY ONLY <1>1, <1>5, <1>19 DEF Marked
    <2> QED
      BY ONLY <1>13, <2>1, t \in Chars, i \in Nat, p2 \in Chars, <1>b,
              MarkBetween
  <1>21. PICK e1 \in Nat : Marked(t, i, p1, b, e1)
    <2>1. Stands(t, i, (p1 \o <<">">>) \o b)
      BY ONLY <1>1, <1>4, <1>20 DEF Marked
    <2> QED
      BY ONLY <1>13, <2>1, t \in Chars, i \in Nat, p1 \in Chars, <1>a,
              MarkBetween
  <1>22. PICK u : /\ Pieces(t, mark) = u[1] /\ Cutting(t, mark, u)
                  /\ \E R : \A j \in Nat : u[j] \in Seq(R)
    BY ONLY t \in Chars, PiecesIs DEF Cutting
  <1>23. PICK R : \A j \in Nat : u[j] \in Seq(R)
    BY ONLY <1>22
  <1>24. PICK x : u[1] = <<x>> \o u[e1 + 1]
    <2>1. e1 <= n /\ t[e1] = mark /\ e1 = i + Len(p1)
      BY ONLY <1>2, <1>13, <1>21 DEF Marked
    <2>2. PICK l \in Nat : l = Len(a) /\ e1 = i + l
      BY ONLY <1>3, <2>1, Texts, <1>b
    <2>3. \A k \in 1 .. l : t[i + k - 1] # mark
      BY ONLY <1>2, <1>3, <1>21, <2>2, <1>b DEF Marked, Stands, Unmarked
    <2>4. Quote # mark
      BY ONLY <1>2 DEF Quote
    <2>5. ASSUME NEW k \in 1 .. e1 - 1 PROVE t[k] # mark
      <3>1. CASE k <= i0 - 1
        BY ONLY <1>2, <1>12, <3>1, k \in 1 .. e1 - 1, i0 \in Nat DEF Ahead
      <3>2. CASE k = i0
        BY ONLY <1>14, <2>4, <3>2
      <3>3. CASE k > i0
        <4>1. k \in Int /\ k <= e1 - 1 /\ k >= i
          BY ONLY <1>13, <3>3, k \in 1 .. e1 - 1, i0 \in Nat
        <4>2. k - i + 1 \in 1 .. l /\ i + (k - i + 1) - 1 = k
          BY ONLY <2>2, <4>1, i \in Nat, l \in Nat
        <4> QED
          BY ONLY <2>3, <4>2
      <3> QED
        BY ONLY <3>1, <3>2, <3>3, k \in 1 .. e1 - 1, i0 \in Nat
    <2>6. NoneFrom(t, mark, 1, e1)
      BY ONLY <2>5 DEF NoneFrom
    <2>7. PICK one \in Nat : one = 1 /\ one > 0 /\ one <= e1
      BY ONLY <1>13, <2>2, i \in Nat, l \in Nat
    <2>8. NoneFrom(t, mark, one, e1) /\ e1 <= Len(t) /\ t[e1] = mark
      BY ONLY <1>13, <2>1, <2>6, <2>7
    <2>9. one > 0 /\ one <= e1
      BY ONLY <2>7
    <2>10. Cutting(t, mark, u)
      BY ONLY <1>22
    <2>11. u[one] = <<SubSeq(t, one, e1 - 1)>> \o u[e1 + 1]
      BY ONLY <2>8, <2>9, <2>10, t \in Chars, one \in Nat, e1 \in Nat, PieceBefore
    <2> QED
      BY ONLY <2>7, <2>11
  <1>25. u[e1 + 1] = <<b>> \o u[e2 + 1]
    <2>1. PICK j \in Nat : j = e1 + 1 /\ j > 0
      BY ONLY e1 \in Nat
    <2>2. e2 = j + Len(b) /\ e2 <= Len(t) /\ t[e2] = ">" /\ Stands(t, j, b)
      BY ONLY <1>1, <1>4, <1>21, <1>20, <2>1 DEF Marked
    <2>3. Cutting(t, ">", u)
      BY ONLY <1>2, <1>22
    <2>4. b \in Chars /\ Unmarked(b)
      BY ONLY <1>a
    <2>5. IsField(t, j, b, e2)
      BY ONLY <2>1, <2>2, <2>4 DEF IsField
    <2>6. u[j] = <<b>> \o u[e2 + 1]
      BY ONLY <2>3, <2>5, t \in Chars, j \in Nat, e2 \in Nat, FieldIsPiece
    <2> QED
      BY ONLY <2>1, <2>6
  <1>26. u[e2 + 1] = <<c>> \o u[e3 + 1]
    <2>1. PICK j \in Nat : j = e2 + 1 /\ j > 0
      BY ONLY e2 \in Nat
    <2>2. e3 = j + Len(c) /\ e3 <= Len(t) /\ t[e3] = ">" /\ Stands(t, j, c)
      BY ONLY <1>1, <1>5, <1>20, <1>19, <2>1 DEF Marked
    <2>3. Cutting(t, ">", u)
      BY ONLY <1>2, <1>22
    <2>4. c \in Chars /\ Unmarked(c)
      BY ONLY <1>b
    <2>5. IsField(t, j, c, e3)
      BY ONLY <2>1, <2>2, <2>4 DEF IsField
    <2>6. u[j] = <<c>> \o u[e3 + 1]
      BY ONLY <2>3, <2>5, t \in Chars, j \in Nat, e3 \in Nat, FieldIsPiece
    <2> QED
      BY ONLY <2>1, <2>6
  <1>27. u[e3 + 1] = <<d>> \o u[e4 + 1]
    <2>1. PICK j \in Nat : j = e3 + 1 /\ j > 0
      BY ONLY e3 \in Nat
    <2>2. e4 = j + Len(d) /\ e4 <= Len(t) /\ t[e4] = ">" /\ Stands(t, j, d)
      BY ONLY <1>1, <1>6, <1>19, <1>18, <2>1 DEF Marked
    <2>3. Cutting(t, ">", u)
      BY ONLY <1>2, <1>22
    <2>4. d \in Chars /\ Unmarked(d)
      BY ONLY <1>b
    <2>5. IsField(t, j, d, e4)
      BY ONLY <2>1, <2>2, <2>4 DEF IsField
    <2>6. u[j] = <<d>> \o u[e4 + 1]
      BY ONLY <2>3, <2>5, t \in Chars, j \in Nat, e4 \in Nat, FieldIsPiece
    <2> QED
      BY ONLY <2>1, <2>6
  <1>28. u[e4 + 1] = <<e>> \o u[e5 + 1]
    <2>1. PICK j \in Nat : j = e4 + 1 /\ j > 0
      BY ONLY e4 \in Nat
    <2>2. e5 = j + Len(e) /\ e5 <= Len(t) /\ t[e5] = ">" /\ Stands(t, j, e)
      BY ONLY <1>1, <1>7, <1>18, <1>17, <2>1 DEF Marked
    <2>3. Cutting(t, ">", u)
      BY ONLY <1>2, <1>22
    <2>4. e \in Chars /\ Unmarked(e)
      BY ONLY <1>a
    <2>5. IsField(t, j, e, e5)
      BY ONLY <2>1, <2>2, <2>4 DEF IsField
    <2>6. u[j] = <<e>> \o u[e5 + 1]
      BY ONLY <2>3, <2>5, t \in Chars, j \in Nat, e5 \in Nat, FieldIsPiece
    <2> QED
      BY ONLY <2>1, <2>6
  <1>29. u[e5 + 1] = <<f>> \o u[e6 + 1]
    <2>1. PICK j \in Nat : j = e5 + 1 /\ j > 0
      BY ONLY e5 \in Nat
    <2>2. e6 = j + Len(f) /\ e6 <= Len(t) /\ t[e6] = ">" /\ Stands(t, j, f)
      BY ONLY <1>1, <1>8, <1>17, <1>16, <2>1 DEF Marked
    <2>3. Cutting(t, ">", u)
      BY ONLY <1>2, <1>22
    <2>4. f \in Chars /\ Unmarked(f)
      BY ONLY <1>b
    <2>5. IsField(t, j, f, e6)
      BY ONLY <2>1, <2>2, <2>4 DEF IsField
    <2>6. u[j] = <<f>> \o u[e6 + 1]
      BY ONLY <2>3, <2>5, t \in Chars, j \in Nat, e6 \in Nat, FieldIsPiece
    <2> QED
      BY ONLY <2>1, <2>6
  <1>30. u[e6 + 1] = <<g>> \o u[e7 + 1]
    <2>1. PICK j \in Nat : j = e6 + 1 /\ j > 0
      BY ONLY e6 \in Nat
    <2>2. e7 = j + Len(g) /\ e7 <= Len(t) /\ t[e7] = ">" /\ Stands(t, j, g)
      BY ONLY <1>1, <1>9, <1>16, <1>15, <2>1 DEF Marked
    <2>3. Cutting(t, ">", u)
      BY ONLY <1>2, <1>22
    <2>4. g \in Chars /\ Unmarked(g)
      BY ONLY <1>a
    <2>5. IsField(t, j, g, e7)
      BY ONLY <2>1, <2>2, <2>4 DEF IsField
    <2>6. u[j] = <<g>> \o u[e7 + 1]
      BY ONLY <2>3, <2>5, t \in Chars, j \in Nat, e7 \in Nat, FieldIsPiece
    <2> QED
      BY ONLY <2>1, <2>6
  <1>31. PICK y \in Chars, z \in Nat : u[e7 + 1] = <<y>> \o u[z] /\ StartsQuoted(y, h)
    <2>1. PICK j \in Nat : j = e7 + 1 /\ j > 0
      BY ONLY e7 \in Nat
    <2>2. PICK l \in Nat : l = Len(h)
      BY ONLY Texts, <1>a
    <2>3. Stands(t, j, h) /\ j + l = i + Len(p8)
      BY ONLY <1>1, <1>10, <1>15, <2>1, <2>2 DEF Marked
    <2>4. j + l <= n /\ t[j + l] = Quote
      BY ONLY <1>13, <1>14, <2>3
    <2>5. j <= Len(t) /\ ~(j > Len(t))
      BY ONLY <1>13, <2>4, j \in Nat, l \in Nat, n \in Nat
    <2>6. PICK o \in j .. Len(t) + 1 :
            /\ PieceEnd(t, mark, j) = o - 1
            /\ o <= Len(t) => t[o] = mark
      BY ONLY <2>5, t \in Chars, j \in Nat, PieceEnds
    <2>7. \A k \in 1 .. l : t[j + k - 1] = h[k] /\ h[k] # mark
      BY ONLY <1>2, <2>2, <2>3, <1>a DEF Stands, Unmarked
    <2>8. o > j + l /\ o \in Nat /\ o <= n + 1
      <3>1. o \in Nat /\ o >= j /\ o <= n + 1
        BY ONLY <1>13, j \in Nat, o \in j .. Len(t) + 1
      <3>2. CASE o < j + l
        <4>1. o - j + 1 \in 1 .. l /\ j + (o - j + 1) - 1 = o
          BY ONLY <3>1, <3>2, j \in Nat, l \in Nat
        <4>2. t[o] # mark
          BY ONLY <2>7, <4>1
        <4>3. o <= Len(t)
          BY ONLY <1>13, <2>4, <3>1, <3>2, j \in Nat, l \in Nat, n \in Nat
        <4> QED
          BY ONLY <2>6, <4>2, <4>3
      <3>3. CASE o = j + l
        <4>1. o <= Len(t) /\ t[o] = Quote /\ Quote # mark
          BY ONLY <1>2, <1>13, <2>4, <3>3 DEF Quote
        <4> QED
          BY ONLY <2>6, <4>1
      <3> QED
        BY ONLY <3>1, <3>2, <3>3, j \in Nat, l \in Nat
    <2>9. PICK y : y = SubSeq(t, j, o - 1)
      OBVIOUS
    <2>10. y \in Chars /\ Len(y) = o - j /\ \A k \in 1 .. o - j : y[k] = t[j + k - 1]
      <3>1. PICK S : S = Char
        OBVIOUS
      <3>2. t \in Seq(S) /\ j > 0 /\ o - 1 \in Nat /\ o - 1 <= Len(t)
        BY ONLY <1>13, <2>1, <2>8, <3>1, t \in Chars DEF Chars
      <3>3. /\ SubSeq(t, j, o - 1) \in Seq(S) /\ Len(SubSeq(t, j, o - 1)) = o - j
            /\ \A k \in 1 .. o - j : SubSeq(t, j, o - 1)[k] = t[j + k - 1]
        BY ONLY <2>8, <3>2, j \in Nat
      <3> QED
        BY ONLY <2>9, <3>1, <3>3 DEF Chars
    <2>11. StartsQuoted(y, h)
      <3>1. l + 1 <= o - j /\ l + 1 \in 1 .. o - j /\ j + (l + 1) - 1 = j + l
        BY ONLY <2>8, j \in Nat, l \in Nat
      <3>2. y[l + 1] = Quote
        BY ONLY <2>4, <2>10, <3>1
      <3>3. \A k \in 1 .. l : y[1 + k - 1] = h[k]
        <4> SUFFICES ASSUME NEW k \in 1 .. l PROVE y[1 + k - 1] = h[k]
          OBVIOUS
        <4>1. k \in 1 .. o - j /\ 1 + k - 1 = k
          BY ONLY <2>8, <3>1, k \in 1 .. l, l \in Nat, j \in Nat
        <4> QED
          BY ONLY <2>7, <2>10, <4>1, k \in 1 .. l
      <3>4. 1 + l <= Len(y) + 1 /\ l + 1 <= Len(y)
        BY ONLY <2>8, <2>10, <3>1, l \in Nat, j \in Nat
      <3> QED
        BY ONLY <2>2, <3>2, <3>3, <3>4 DEF StartsQuoted, Stands
    <2>12. PICK z \in Nat, w \in Int : w = PieceEnd(t, mark, j) /\ w = o - 1 /\ z = w + 2
      BY ONLY <2>6, <2>8
    <2>13. u[j] = PiecesAt(t, mark, j, u)
      BY ONLY <1>22, j \in Nat DEF Cutting
    <2>14. PiecesAt(t, mark, j, u) = <<SubSeq(t, j, w)>> \o u[w + 2]
      BY ONLY <2>5, <2>12, Zenon DEF PiecesAt
    <2> QED
      BY ONLY <2>1, <2>9, <2>10, <2>11, <2>12, <2>13, <2>14
  <1>32. PICK s9 \in Seq(R) : s9 = u[z]
    BY ONLY <1>23, z \in Nat
  <1>33. PICK s8 \in Seq(R) :
          /\ s8 = u[e7 + 1] /\ Len(s8) = Len(s9) + 1 /\ Len(s9) \in Nat
          /\ s8[1] = y
          /\ \A j \in 1 .. Len(s9) : s8[j + 1] = s9[j]
    <2>1. PICK s \in Seq(R) : s = u[e7 + 1]
      <3>1. PICK j \in Nat : j = e7 + 1
        BY ONLY e7 \in Nat
      <3> QED
        BY ONLY <1>23, <3>1, j \in Nat
    <2>2. s = <<y>> \o s9
      BY ONLY <1>31, <1>32, <2>1
    <2>3. /\ Len(<<y>> \o s9) = Len(s9) + 1 /\ Len(s9) \in Nat
          /\ (<<y>> \o s9)[1] = y
          /\ \A j \in 1 .. Len(s9) : (<<y>> \o s9)[j + 1] = s9[j]
      BY ONLY s9 \in Seq(R), Before
    <2> QED
      BY ONLY <2>1, <2>2, <2>3
  <1>34. PICK s7 \in Seq(R) :
          /\ s7 = u[e6 + 1] /\ Len(s7) = Len(s8) + 1 /\ Len(s8) \in Nat
          /\ s7[1] = g
          /\ \A j \in 1 .. Len(s8) : s7[j + 1] = s8[j]
    <2>1. PICK s \in Seq(R) : s = u[e6 + 1]
      <3>1. PICK j \in Nat : j = e6 + 1
        BY ONLY e6 \in Nat
      <3> QED
        BY ONLY <1>23, <3>1, j \in Nat
    <2>2. s = <<g>> \o s8
      BY ONLY <1>30, <1>33, <2>1
    <2>3. /\ Len(<<g>> \o s8) = Len(s8) + 1 /\ Len(s8) \in Nat
          /\ (<<g>> \o s8)[1] = g
          /\ \A j \in 1 .. Len(s8) : (<<g>> \o s8)[j + 1] = s8[j]
      BY ONLY s8 \in Seq(R), Before
    <2> QED
      BY ONLY <2>1, <2>2, <2>3
  <1>35. PICK s6 \in Seq(R) :
          /\ s6 = u[e5 + 1] /\ Len(s6) = Len(s7) + 1 /\ Len(s7) \in Nat
          /\ s6[1] = f
          /\ \A j \in 1 .. Len(s7) : s6[j + 1] = s7[j]
    <2>1. PICK s \in Seq(R) : s = u[e5 + 1]
      <3>1. PICK j \in Nat : j = e5 + 1
        BY ONLY e5 \in Nat
      <3> QED
        BY ONLY <1>23, <3>1, j \in Nat
    <2>2. s = <<f>> \o s7
      BY ONLY <1>29, <1>34, <2>1
    <2>3. /\ Len(<<f>> \o s7) = Len(s7) + 1 /\ Len(s7) \in Nat
          /\ (<<f>> \o s7)[1] = f
          /\ \A j \in 1 .. Len(s7) : (<<f>> \o s7)[j + 1] = s7[j]
      BY ONLY s7 \in Seq(R), Before
    <2> QED
      BY ONLY <2>1, <2>2, <2>3
  <1>36. PICK s5 \in Seq(R) :
          /\ s5 = u[e4 + 1] /\ Len(s5) = Len(s6) + 1 /\ Len(s6) \in Nat
          /\ s5[1] = e
          /\ \A j \in 1 .. Len(s6) : s5[j + 1] = s6[j]
    <2>1. PICK s \in Seq(R) : s = u[e4 + 1]
      <3>1. PICK j \in Nat : j = e4 + 1
        BY ONLY e4 \in Nat
      <3> QED
        BY ONLY <1>23, <3>1, j \in Nat
    <2>2. s = <<e>> \o s6
      BY ONLY <1>28, <1>35, <2>1
    <2>3. /\ Len(<<e>> \o s6) = Len(s6) + 1 /\ Len(s6) \in Nat
          /\ (<<e>> \o s6)[1] = e
          /\ \A j \in 1 .. Len(s6) : (<<e>> \o s6)[j + 1] = s6[j]
      BY ONLY s6 \in Seq(R), Before
    <2> QED
      BY ONLY <2>1, <2>2, <2>3
  <1>37. PICK s4 \in Seq(R) :
          /\ s4 = u[e3 + 1] /\ Len(s4) = Len(s5) + 1 /\ Len(s5) \in Nat
          /\ s4[1] = d
          /\ \A j \in 1 .. Len(s5) : s4[j + 1] = s5[j]
    <2>1. PICK s \in Seq(R) : s = u[e3 + 1]
      <3>1. PICK j \in Nat : j = e3 + 1
        BY ONLY e3 \in Nat
      <3> QED
        BY ONLY <1>23, <3>1, j \in Nat
    <2>2. s = <<d>> \o s5
      BY ONLY <1>27, <1>36, <2>1
    <2>3. /\ Len(<<d>> \o s5) = Len(s5) + 1 /\ Len(s5) \in Nat
          /\ (<<d>> \o s5)[1] = d
          /\ \A j \in 1 .. Len(s5) : (<<d>> \o s5)[j + 1] = s5[j]
      BY ONLY s5 \in Seq(R), Before
    <2> QED
      BY ONLY <2>1, <2>2, <2>3
  <1>38. PICK s3 \in Seq(R) :
          /\ s3 = u[e2 + 1] /\ Len(s3) = Len(s4) + 1 /\ Len(s4) \in Nat
          /\ s3[1] = c
          /\ \A j \in 1 .. Len(s4) : s3[j + 1] = s4[j]
    <2>1. PICK s \in Seq(R) : s = u[e2 + 1]
      <3>1. PICK j \in Nat : j = e2 + 1
        BY ONLY e2 \in Nat
      <3> QED
        BY ONLY <1>23, <3>1, j \in Nat
    <2>2. s = <<c>> \o s4
      BY ONLY <1>26, <1>37, <2>1
    <2>3. /\ Len(<<c>> \o s4) = Len(s4) + 1 /\ Len(s4) \in Nat
          /\ (<<c>> \o s4)[1] = c
          /\ \A j \in 1 .. Len(s4) : (<<c>> \o s4)[j + 1] = s4[j]
      BY ONLY s4 \in Seq(R), Before
    <2> QED
      BY ONLY <2>1, <2>2, <2>3
  <1>39. PICK s2 \in Seq(R) :
          /\ s2 = u[e1 + 1] /\ Len(s2) = Len(s3) + 1 /\ Len(s3) \in Nat
          /\ s2[1] = b
          /\ \A j \in 1 .. Len(s3) : s2[j + 1] = s3[j]
    <2>1. PICK s \in Seq(R) : s = u[e1 + 1]
      <3>1. PICK j \in Nat : j = e1 + 1
        BY ONLY e1 \in Nat
      <3> QED
        BY ONLY <1>23, <3>1, j \in Nat
    <2>2. s = <<b>> \o s3
      BY ONLY <1>25, <1>38, <2>1
    <2>3. /\ Len(<<b>> \o s3) = Len(s3) + 1 /\ Len(s3) \in Nat
          /\ (<<b>> \o s3)[1] = b
          /\ \A j \in 1 .. Len(s3) : (<<b>> \o s3)[j + 1] = s3[j]
      BY ONLY s3 \in Seq(R), Before
    <2> QED
      BY ONLY <2>1, <2>2, <2>3
  <1>40. PICK s1 \in Seq(R) :
          /\ s1 = u[1] /\ Len(s1) = Len(s2) + 1 /\ Len(s2) \in Nat
          /\ s1[1] = x
          /\ \A j \in 1 .. Len(s2) : s1[j + 1] = s2[j]
    <2>1. PICK s \in Seq(R) : s = u[1]
      <3>1. PICK j \in Nat : j = 1
        OBVIOUS
      <3> QED
        BY ONLY <1>23, <3>1, j \in Nat
    <2>2. s = <<x>> \o s2
      BY ONLY <1>24, <1>39, <2>1
    <2>3. /\ Len(<<x>> \o s2) = Len(s2) + 1 /\ Len(s2) \in Nat
          /\ (<<x>> \o s2)[1] = x
          /\ \A j \in 1 .. Len(s2) : (<<x>> \o s2)[j + 1] = s2[j]
      BY ONLY s2 \in Seq(R), Before
    <2> QED
      BY ONLY <2>1, <2>2, <2>3
  <1>41. PICK v \in Nat : v = Len(s9)
    BY ONLY <1>33
  <1>42. /\ Len(s8) = v + 1 /\ Len(s7) = v + 2 /\ Len(s6) = v + 3 /\ Len(s5) = v + 4
         /\ Len(s4) = v + 5 /\ Len(s3) = v + 6 /\ Len(s2) = v + 7 /\ Len(s1) = v + 8
    BY ONLY <1>33, <1>34, <1>35, <1>36, <1>37, <1>38, <1>39, <1>40,
            <1>41, v \in Nat
  <1>43. s1[2] = b /\ s1[5] = e /\ s1[7] = g /\ s1[8] = y
    <2>1. s1[2] = b
      <3>1. s1[1 + 1] = s2[1] /\ 1 + 1 = 2
        <4>1. 1 \in 1 .. Len(s2)
          BY ONLY <1>42, v \in Nat
        <4> QED
          BY ONLY <1>40, <4>1
      <3> QED
        BY ONLY <1>39, <3>1
    <2>2. s1[5] = e
      <3>1. s4[1 + 1] = s5[1] /\ 1 + 1 = 2
        <4>1. 1 \in 1 .. Len(s5)
          BY ONLY <1>42, v \in Nat
        <4> QED
          BY ONLY <1>37, <4>1
      <3>2. s3[2 + 1] = s4[2] /\ 2 + 1 = 3
        <4>1. 2 \in 1 .. Len(s4)
          BY ONLY <1>42, v \in Nat
        <4> QED
          BY ONLY <1>38, <4>1
      <3>3. s2[3 + 1] = s3[3] /\ 3 + 1 = 4
        <4>1. 3 \in 1 .. Len(s3)
          BY ONLY <1>42, v \in Nat
        <4> QED
          BY ONLY <1>39, <4>1
      <3>4. s1[4 + 1] = s2[4] /\ 4 + 1 = 5
        <4>1. 4 \in 1 .. Len(s2)
          BY ONLY <1>42, v \in Nat
        <4> QED
          BY ONLY <1>40, <4>1
      <3> QED
        BY ONLY <1>36, <3>1, <3>2, <3>3, <3>4
    <2>3. s1[7] = g
      <3>1. s6[1 + 1] = s7[1] /\ 1 + 1 = 2
        <4>1. 1 \in 1 .. Len(s7)
          BY ONLY <1>42, v \in Nat
        <4> QED
          BY ONLY <1>35, <4>1
      <3>2. s5[2 + 1] = s6[2] /\ 2 + 1 = 3
        <4>1. 2 \in 1 .. Len(s6)
          BY ONLY <1>42, v \in Nat
        <4> QED
          BY ONLY <1>36, <4>1
      <3>3. s4[3 + 1] = s5[3] /\ 3 + 1 = 4
        <4>1. 3 \in 1 .. Len(s5)
          BY ONLY <1>42, v \in Nat
        <4> QED
          BY ONLY <1>37, <4>1
      <3>4. s3[4 + 1] = s4[4] /\ 4 + 1 = 5
        <4>1. 4 \in 1 .. Len(s4)
          BY ONLY <1>42, v \in Nat
        <4> QED
          BY ONLY <1>38, <4>1
      <3>5. s2[5 + 1] = s3[5] /\ 5 + 1 = 6
        <4>1. 5 \in 1 .. Len(s3)
          BY ONLY <1>42, v \in Nat
        <4> QED
          BY ONLY <1>39, <4>1
      <3>6. s1[6 + 1] = s2[6] /\ 6 + 1 = 7
        <4>1. 6 \in 1 .. Len(s2)
          BY ONLY <1>42, v \in Nat
        <4> QED
          BY ONLY <1>40, <4>1
      <3> QED
        BY ONLY <1>34, <3>1, <3>2, <3>3, <3>4, <3>5, <3>6
    <2>4. s1[8] = y
      <3>1. s7[1 + 1] = s8[1] /\ 1 + 1 = 2
        <4>1. 1 \in 1 .. Len(s8)
          BY ONLY <1>42, v \in Nat
        <4> QED
          BY ONLY <1>34, <4>1
      <3>2. s6[2 + 1] = s7[2] /\ 2 + 1 = 3
        <4>1. 2 \in 1 .. Len(s7)
          BY ONLY <1>42, v \in Nat
        <4> QED
          BY ONLY <1>35, <4>1
      <3>3. s5[3 + 1] = s6[3] /\ 3 + 1 = 4
        <4>1. 3 \in 1 .. Len(s6)
          BY ONLY <1>42, v \in Nat
        <4> QED
          BY ONLY <1>36, <4>1
      <3>4. s4[4 + 1] = s5[4] /\ 4 + 1 = 5
        <4>1. 4 \in 1 .. Len(s5)
          BY ONLY <1>42, v \in Nat
        <4> QED
          BY ONLY <1>37, <4>1
      <3>5. s3[5 + 1] = s4[5] /\ 5 + 1 = 6
        <4>1. 5 \in 1 .. Len(s4)
          BY ONLY <1>42, v \in Nat
        <4> QED
          BY ONLY <1>38, <4>1
      <3>6. s2[6 + 1] = s3[6] /\ 6 + 1 = 7
        <4>1. 6 \in 1 .. Len(s3)
          BY ONLY <1>42, v \in Nat
        <4> QED
          BY ONLY <1>39, <4>1
      <3>7. s1[7 + 1] = s2[7] /\ 7 + 1 = 8
        <4>1. 7 \in 1 .. Len(s2)
          BY ONLY <1>42, v \in Nat
        <4> QED
          BY ONLY <1>40, <4>1
      <3> QED
        BY ONLY <1>33, <3>1, <3>2, <3>3, <3>4, <3>5, <3>6, <3>7
    <2> QED
      BY ONLY <2>1, <2>2, <2>3, <2>4
  <1>44. PICK pieces \in Seq(R) : pieces = Pieces(t, mark) /\ pieces = s1
    BY ONLY <1>22, <1>40, s1 \in Seq(R)
  <1>45. y # <<>>
    <2>1. PICK l \in Nat : l = Len(h)
      BY ONLY Texts, <1>a
    <2>2. Len(y) >= l + 1
      BY ONLY <1>31, <2>1 DEF StartsQuoted
    <2>3. Len(<<>>) = 0
      OBVIOUS
    <2> QED
      BY ONLY <2>2, <2>3, l \in Nat
  <1>46. PICK k \in 1 .. Len(Pieces(t, mark)) : k = 8
    BY ONLY <1>42, <1>44, v \in Nat
  <1>47. /\ Len(Split(t, mark)) \in Nat /\ Len(Split(t, mark)) >= k
         /\ \A j \in 1 .. k : Split(t, mark)[j] = Pieces(t, mark)[j]
    <2>1. Pieces(t, mark) \in Seq(R) /\ Pieces(t, mark)[k] # <<>>
      BY ONLY <1>44, <1>43, <1>46, <1>45
    <2> QED
      BY ONLY <2>1, k \in 1 .. Len(Pieces(t, mark)), SplitKeeps
  <1> QED
    <2>1. 2 \in 1 .. k /\ 5 \in 1 .. k /\ 7 \in 1 .. k /\ 8 \in 1 .. k
      BY ONLY <1>46
    <2>2. /\ Split(t, mark)[2] = b /\ Split(t, mark)[5] = e
          /\ Split(t, mark)[7] = g /\ Split(t, mark)[8] = y
      <3>1. PICK sp, ps : sp = Split(t, mark) /\ ps = Pieces(t, mark)
        OBVIOUS
      <3>2. \A j \in 1 .. k : sp[j] = ps[j]
        BY ONLY <1>47, <3>1
      <3>3. ps = s1
        BY ONLY <1>44, <3>1
      <3>4. sp[2] = s1[2] /\ sp[5] = s1[5] /\ sp[7] = s1[7] /\ sp[8] = s1[8]
        BY ONLY <2>1, <3>2, <3>3
      <3>5. sp[2] = b /\ sp[5] = e /\ sp[7] = g /\ sp[8] = y
        BY ONLY <1>43, <3>4
      <3> QED
        BY ONLY <3>1, <3>5
    <2>3. Len(Split(t, mark)) \in Nat /\ Len(Split(t, mark)) >= 8
      BY ONLY <1>46, <1>47
    <2> QED
      BY ONLY <1>2, <1>31, <2>2, <2>3, y \in Chars DEF CutInto

(* A text before the first quote of another one is its first piece there.  *)
Quoteless(t) == \A k \in 1 .. Len(t) : t[k] # Quote

(* The cut at the quote gives back the reduction.                          *)
LEMMA QuoteCut ==
  ASSUME NEW y \in Chars, NEW h \in Chars, h # <<>>, Quoteless(h), StartsQuoted(y, h)
  PROVE  Split(y, Quote) # <<>> /\ Split(y, Quote)[1] = h
  <1>1. PICK l \in Nat : l = Len(h)
    BY ONLY Texts, h \in Chars
  <1>2. PICK e \in Nat, i \in Nat : e = l + 1 /\ i = 1 /\ i > 0 /\ i <= e
    BY ONLY l \in Nat
  <1>16. PICK mark : mark = Quote
    OBVIOUS
  <1>3. e <= Len(y) /\ y[e] = mark /\ Stands(y, i, h) /\ i + Len(h) - 1 = e - 1
    BY ONLY <1>1, <1>2, <1>16, StartsQuoted(y, h), l \in Nat DEF StartsQuoted
  <1>4. NoneFrom(y, mark, i, e)
    <2> SUFFICES ASSUME NEW k \in i .. e - 1 PROVE y[k] # mark
      BY DEF NoneFrom
    <2>1. k \in 1 .. l /\ i + k - 1 = k
      BY ONLY <1>2, k \in i .. e - 1, l \in Nat
    <2>2. y[i + k - 1] = h[k]
      BY ONLY <1>1, <1>3, <2>1 DEF Stands
    <2> QED
      BY ONLY <1>1, <1>16, <2>1, <2>2, Quoteless(h) DEF Quoteless
  <1>5. PICK u : /\ Pieces(y, mark) = u[1] /\ Cutting(y, mark, u)
                 /\ \E R : \A j \in Nat : u[j] \in Seq(R)
    BY ONLY y \in Chars, PiecesIs DEF Cutting
  <1>6. PICK R : \A j \in Nat : u[j] \in Seq(R)
    BY ONLY <1>5
  <1>7. u[i] = <<SubSeq(y, i, e - 1)>> \o u[e + 1]
    <2>1. i > 0 /\ i <= e
      BY ONLY <1>2
    <2>2. e <= Len(y) /\ y[e] = mark
      BY ONLY <1>3
    <2>3. Cutting(y, mark, u)
      BY ONLY <1>5
    <2> QED
      BY ONLY <1>4, <2>1, <2>2, <2>3, y \in Chars, i \in Nat, e \in Nat, PieceBefore
  <1>8. SubSeq(y, i, i + Len(h) - 1) = h
    BY ONLY <1>2, <1>3, y \in Chars, h \in Chars, i \in Nat, CutOut
  <1>9. PICK s \in Seq(R) : s = u[e + 1]
    <2>1. PICK j \in Nat : j = e + 1
      BY ONLY e \in Nat
    <2> QED
      BY ONLY <1>6, <2>1, j \in Nat
  <1>10. PICK p \in Seq(R) : p = Pieces(y, mark) /\ p = <<h>> \o s
    <2>1. u[i] \in Seq(R)
      BY ONLY <1>6, i \in Nat
    <2>2. SubSeq(y, i, e - 1) = h
      BY ONLY <1>3, <1>8
    <2> QED
      BY ONLY <1>2, <1>5, <1>7, <1>9, <2>1, <2>2
  <1>11. Len(p) = Len(s) + 1 /\ Len(s) \in Nat /\ p[1] = h
    <2>1. /\ Len(<<h>> \o s) = Len(s) + 1 /\ Len(s) \in Nat
          /\ (<<h>> \o s)[1] = h
          /\ \A k \in 1 .. Len(s) : (<<h>> \o s)[k + 1] = s[k]
      BY ONLY s \in Seq(R), Before
    <2> QED
      BY ONLY <1>10, <2>1
  <1>12. PICK k \in 1 .. Len(Pieces(y, mark)) : k = 1
    BY ONLY <1>10, <1>11
  <1>13. /\ Len(Split(y, mark)) \in Nat /\ Len(Split(y, mark)) >= k
         /\ \A j \in 1 .. k : Split(y, mark)[j] = Pieces(y, mark)[j]
    <2>1. Pieces(y, mark) \in Seq(R) /\ Pieces(y, mark)[k] # <<>>
      BY ONLY <1>10, <1>11, <1>12, h # <<>>
    <2> QED
      BY ONLY <2>1, k \in 1 .. Len(Pieces(y, mark)), SplitKeeps
  <1>14. Split(y, mark) # <<>>
    <2>1. Len(<<>>) = 0
      OBVIOUS
    <2> QED
      BY ONLY <1>12, <1>13, <2>1
  <1>15. Split(y, mark)[1] = h
    <2>1. 1 \in 1 .. k
      BY ONLY <1>12
    <2> QED
      BY ONLY <1>10, <1>11, <1>13, <2>1
  <1> QED
    BY ONLY <1>16, <1>14, <1>15

(* Texts of digits, and texts without quotes.                              *)
LEMMA QuotelessTexts ==
  /\ \A t \in Seq(Digit) : t \in Chars /\ Quoteless(t) /\ Unmarked(t)
  /\ \A a, b \in Chars : Quoteless(a) /\ Quoteless(b) => Quoteless(a \o b)
  /\ <<">">> \in Chars /\ Quoteless(<<">">>)
  <1>1. ASSUME NEW t \in Seq(Digit) PROVE Quoteless(t)
    <2> SUFFICES ASSUME NEW k \in 1 .. Len(t) PROVE t[k] # Quote
      BY DEF Quoteless
    <2>1. t[k] \in Digit
      BY ONLY t \in Seq(Digit), k \in 1 .. Len(t), ElementOfSeq
    <2> QED
      BY ONLY <2>1 DEF Digit, Quote
  <1>2. ASSUME NEW a \in Chars, NEW b \in Chars, Quoteless(a), Quoteless(b)
        PROVE  Quoteless(a \o b)
    <2>1. /\ Len(a) \in Nat /\ Len(b) \in Nat /\ Len(a \o b) = Len(a) + Len(b)
          /\ a \o b \in Chars
          /\ \A k \in 1 .. Len(a) : (a \o b)[k] = a[k]
          /\ \A k \in 1 .. Len(b) : (a \o b)[Len(a) + k] = b[k]
      BY ONLY a \in Chars, b \in Chars, Parts
    <2> SUFFICES ASSUME NEW k \in 1 .. Len(a \o b) PROVE (a \o b)[k] # Quote
      BY DEF Quoteless
    <2>2. CASE k <= Len(a)
      BY ONLY <2>1, <2>2, k \in 1 .. Len(a \o b), Quoteless(a) DEF Quoteless
    <2>3. CASE k > Len(a)
      <3>1. k - Len(a) \in 1 .. Len(b) /\ Len(a) + (k - Len(a)) = k
        BY ONLY <2>1, <2>3, k \in 1 .. Len(a \o b)
      <3> QED
        BY ONLY <2>1, <3>1, Quoteless(b) DEF Quoteless
    <2> QED
      BY ONLY <2>1, <2>2, <2>3, k \in 1 .. Len(a \o b)
  <1>3. PICK m \in Chars : m = <<">">> /\ Len(m) = 1 /\ m[1] = ">"
    BY ONLY NameAssumption, Texts
  <1>4. Quoteless(m)
    <2>1. \A k \in 1 .. Len(m) : m[k] = ">"
      BY ONLY <1>3
    <2>2. ">" # Quote
      BY DEF Quote
    <2> QED
      BY ONLY <2>1, <2>2 DEF Quoteless
  <1> QED
    BY ONLY <1>1, <1>2, <1>3, <1>4, PlainTexts

(* A row of which every text can be shown.                                 *)
Showable(row) ==
  /\ Typed(row) /\ Price(row) < IntLimit
  /\ NoMarks(row.goodsName) /\ NoMarks(row.putInTime) /\ NoMarks(row.goodsSIC)

(* The columns of such a row as texts.                                     *)
LEMMA ColumnTexts ==
  ASSUME NEW row, Showable(row)
  PROVE  /\ \A col \in AllColumn :
              Column(row, col) \in Chars /\ Quoteless(Column(row, col)) /\ Unmarked(Column(row, col))
         /\ \A col \in NumberColumn :
              /\ Column(row, col) \in Seq(Digit) \ {<<>>}
              /\ Atoi(Column(row, col)) = row[col] /\ row[col] \in Nat
         /\ Column(row, "goodsName") = row.goodsName
  <1>1. ASSUME NEW col \in NumberColumn
        PROVE  /\ Column(row, col) \in Seq(Digit) \ {<<>>}
               /\ Atoi(Column(row, col)) = row[col] /\ row[col] \in Nat
    <2>1. PICK n \in Nat : n = row[col]
      BY ONLY col \in NumberColumn, Showable(row) DEF Showable, Typed
    <2>2. Column(row, col) = Digits(n)
      BY ONLY <2>1, col \in NumberColumn DEF Column
    <2>3. Typed(row) /\ col \in AllColumn
      BY ONLY Showable(row), col \in NumberColumn DEF Showable, AllColumn
    <2>4. (IF col \in NumberColumn THEN Atoi(Column(row, col)) ELSE Column(row, col)) = row[col]
      BY ONLY <2>3, ColumnIsRead
    <2>5. Digits(n) \in Seq(Digit) \ {<<>>}
      BY ONLY n \in Nat, DigitsAre
    <2> QED
      BY ONLY <2>1, <2>2, <2>4, <2>5, col \in NumberColumn
  <1>2. ASSUME NEW t \in Chars, NoMarks(t) PROVE Quoteless(t) /\ Unmarked(t)
    <2>1. DOMAIN t = 1 .. Len(t)
      BY ONLY t \in Chars DEF Chars
    <2> QED
      BY ONLY <1>2, <2>1 DEF NoMarks, Quoteless, Unmarked
  <1>3. ASSUME NEW col \in AllColumn
        PROVE  /\ Column(row, col) \in Chars
               /\ Quoteless(Column(row, col)) /\ Unmarked(Column(row, col))
    <2>1. CASE col \in NumberColumn
      BY ONLY <1>1, <2>1, QuotelessTexts
    <2>2. CASE col \notin NumberColumn
      <3>1. row[col] \in Chars /\ Column(row, col) = row[col]
        BY ONLY <2>2, col \in AllColumn, Showable(row) DEF Showable, Typed, Column
      <3>2. NoMarks(row[col])
        BY ONLY <2>2, col \in AllColumn, Showable(row) DEF Showable, AllColumn, TextColumn
      <3> QED
        BY ONLY <1>2, <3>1, <3>2
    <2> QED
      BY ONLY <2>1, <2>2
  <1>4. Column(row, "goodsName") = row.goodsName
    BY ONLY Zenon DEF Column, NumberColumn
  <1> QED
    BY ONLY <1>1, <1>3, <1>4

(* The text of a row is made of its columns,                               *)
LEMMA ItemIsFields ==
  ASSUME NEW row
  PROVE  ItemText(row) =
           Fields(Column(row, "goodsType"), Column(row, "goodsName"), Column(row, "goodsID"),
                  Column(row, "putInTime"), Column(row, "goodsProperty"),
                  Column(row, "goodsSIC"), Column(row, "cost"), Column(row, "costoff"))
  BY ONLY DEF ItemText, Fields

(* and can be said as it is.                                               *)
LEMMA ShowableTells ==
  ASSUME NEW row, Showable(row)
  PROVE  Telling(row)
  <1>1. PICK m \in Chars : m = <<">">> /\ Quoteless(m)
    BY ONLY QuotelessTexts
  <1>2. PICK a \in Chars : a = Column(row, "goodsType") /\ Quoteless(a)
    <2>1. PICK col \in AllColumn : col = "goodsType"
      BY DEF AllColumn, NumberColumn, TextColumn
    <2>2. Column(row, col) \in Chars /\ Quoteless(Column(row, col))
      BY ONLY Showable(row), col \in AllColumn, ColumnTexts
    <2> QED
      BY ONLY <2>1, <2>2
  <1>3. PICK b \in Chars : b = Column(row, "goodsName") /\ Quoteless(b)
    <2>1. PICK col \in AllColumn : col = "goodsName"
      BY DEF AllColumn, NumberColumn, TextColumn
    <2>2. Column(row, col) \in Chars /\ Quoteless(Column(row, col))
      BY ONLY Showable(row), col \in AllColumn, ColumnTexts
    <2> QED
      BY ONLY <2>1, <2>2
  <1>4. PICK c \in Chars : c = Column(row, "goodsID") /\ Quoteless(c)
    <2>1. PICK col \in AllColumn : col = "goodsID"
      BY DEF AllColumn, NumberColumn, TextColumn
    <2>2. Column(row, col) \in Chars /\ Quoteless(Column(row, col))
      BY ONLY Showable(row), col \in AllColumn, ColumnTexts
    <2> QED
      BY ONLY <2>1, <2>2
  <1>5. PICK d \in Chars : d = Column(row, "putInTime") /\ Quoteless(d)
    <2>1. PICK col \in AllColumn : col = "putInTime"
      BY DEF AllColumn, NumberColumn, TextColumn
    <2>2. Column(row, col) \in Chars /\ Quoteless(Column(row, col))
      BY ONLY Showable(row), col \in AllColumn, ColumnTexts
    <2> QED
      BY ONLY <2>1, <2>2
  <1>6. PICK e \in Chars : e = Column(row, "goodsProperty") /\ Quoteless(e)
    <2>1. PICK col \in AllColumn : col = "goodsProperty"
      BY DEF AllColumn, NumberColumn, TextColumn
    <2>2. Column(row, col) \in Chars /\ Quoteless(Column(row, col))
      BY ONLY Showable(row), col \in AllColumn, ColumnTexts
    <2> QED
      BY ONLY <2>1, <2>2
  <1>7. PICK f \in Chars : f = Column(row, "goodsSIC") /\ Quoteless(f)
    <2>1. PICK col \in AllColumn : col = "goodsSIC"
      BY DEF AllColumn, NumberColumn, TextColumn
    <2>2. Column(row, col) \in Chars /\ Quoteless(Column(row, col))
      BY ONLY Showable(row), col \in AllColumn, ColumnTexts
    <2> QED
      BY ONLY <2>1, <2>2
  <1>8. PICK g \in Chars : g = Column(row, "cost") /\ Quoteless(g)
    <2>1. PICK col \in AllColumn : col = "cost"
      BY DEF AllColumn, NumberColumn, TextColumn
    <2>2. Column(row, col) \in Chars /\ Quoteless(Column(row, col))
      BY ONLY Showable(row), col \in AllColumn, ColumnTexts
    <2> QED
      BY ONLY <2>1, <2>2
  <1>9. PICK h \in Chars : h = Column(row, "costoff") /\ Quoteless(h)
    <2>1. PICK col \in AllColumn : col = "costoff"
      BY DEF AllColumn, NumberColumn, TextColumn
    <2>2. Column(row, col) \in Chars /\ Quoteless(Column(row, col))
      BY ONLY Showable(row), col \in AllColumn, ColumnTexts
    <2> QED
      BY ONLY <2>1, <2>2
  <1>10. PICK p1 \in Chars : p1 = a /\ Quoteless(p1)
    BY ONLY <1>2, a \in Chars
  <1>11. PICK p2 \in Chars : p2 = (p1 \o m) \o b /\ Quoteless(p2)
    <2>1. PICK q \in Chars : q = p1 \o m /\ Quoteless(q)
      BY ONLY <1>1, <1>10, Texts, QuotelessTexts, p1 \in Chars, m \in Chars
    <2> QED
      BY ONLY <1>3, <2>1, Texts, QuotelessTexts, q \in Chars, b \in Chars
  <1>12. PICK p3 \in Chars : p3 = (p2 \o m) \o c /\ Quoteless(p3)
    <2>1. PICK q \in Chars : q = p2 \o m /\ Quoteless(q)
      BY ONLY <1>1, <1>11, Texts, QuotelessTexts, p2 \in Chars, m \in Chars
    <2> QED
      BY ONLY <1>4, <2>1, Texts, QuotelessTexts, q \in Chars, c \in Chars
  <1>13. PICK p4 \in Chars : p4 = (p3 \o m) \o d /\ Quoteless(p4)
    <2>1. PICK q \in Chars : q = p3 \o m /\ Quoteless(q)
      BY ONLY <1>1, <1>12, Texts, QuotelessTexts, p3 \in Chars, m \in Chars
    <2> QED
      BY ONLY <1>5, <2>1, Texts, QuotelessTexts, q \in Chars, d \in Chars
  <1>14. PICK p5 \in Chars : p5 = (p4 \o m) \o e /\ Quoteless(p5)
    <2>1. PICK q \in Chars : q = p4 \o m /\ Quoteless(q)
      BY ONLY <1>1, <1>13, Texts, QuotelessTexts, p4 \in Chars, m \in Chars
    <2> QED
      BY ONLY <1>6, <2>1, Texts, QuotelessTexts, q \in Chars, e \in Chars
  <1>15. PICK p6 \in Chars : p6 = (p5 \o m) \o f /\ Quoteless(p6)
    <2>1. PICK q \in Chars : q = p5 \o m /\ Quoteless(q)
      BY ONLY <1>1, <1>14, Texts, QuotelessTexts, p5 \in Chars, m \in Chars
    <2> QED
      BY ONLY <1>7, <2>1, Texts, QuotelessTexts, q \in Chars, f \in Chars
  <1>16. PICK p7 \in Chars : p7 = (p6 \o m) \o g /\ Quoteless(p7)
    <2>1. PICK q \in Chars : q = p6 \o m /\ Quoteless(q)
      BY ONLY <1>1, <1>15, Texts, QuotelessTexts, p6 \in Chars, m \in Chars
    <2> QED
      BY ONLY <1>8, <2>1, Texts, QuotelessTexts, q \in Chars, g \in Chars
  <1>17. PICK p8 \in Chars : p8 = (p7 \o m) \o h /\ Quoteless(p8)
    <2>1. PICK q \in Chars : q = p7 \o m /\ Quoteless(q)
      BY ONLY <1>1, <1>16, Texts, QuotelessTexts, p7 \in Chars, m \in Chars
    <2> QED
      BY ONLY <1>9, <2>1, Texts, QuotelessTexts, q \in Chars, h \in Chars
  <1>18. ItemText(row) = p8
    <2>1. Fields(a, b, c, d, e, f, g, h) = p8
      BY ONLY <1>1, <1>10, <1>11, <1>12, <1>13, <1>14, <1>15, <1>16, <1>17 DEF Fields
    <2> QED
      BY ONLY <2>1, <1>2, <1>3, <1>4, <1>5, <1>6, <1>7, <1>8, <1>9, ItemIsFields
  <1>19. h \in Seq(Digit) \ {<<>>}
    <2>1. PICK col \in NumberColumn : col = "costoff"
      BY DEF NumberColumn
    <2>2. Column(row, col) \in Seq(Digit) \ {<<>>}
      BY ONLY Showable(row), col \in NumberColumn, ColumnTexts
    <2> QED
      BY ONLY <1>9, <2>1, <2>2
  <1>20. PICK n \in Nat, l \in Nat : n = Len(p8) /\ l = Len(h) /\ l > 0
         /\ l \in 1 .. l /\ h[l] \in Digit
    <2>1. Len(h) \in Nat /\ Len(h) > 0 /\ h[Len(h)] \in Digit
      BY ONLY <1>19
    <2>2. Len(p8) \in Nat
      BY ONLY Texts, p8 \in Chars
    <2>3. Len(h) \in 1 .. Len(h)
      BY ONLY <2>1
    <2> QED
      BY ONLY <2>1, <2>2, <2>3
  <1>21. n >= l /\ n > 0 /\ p8[n] = h[l]
    <2>1. PICK q \in Chars : q = p7 \o m
      BY ONLY Texts, p7 \in Chars, m \in Chars
    <2>2. /\ Len(q) \in Nat /\ Len(h) \in Nat /\ Len(q \o h) = Len(q) + Len(h)
          /\ q \o h \in Chars
          /\ \A k \in 1 .. Len(q) : (q \o h)[k] = q[k]
          /\ \A k \in 1 .. Len(h) : (q \o h)[Len(q) + k] = h[k]
      BY ONLY q \in Chars, h \in Chars, Parts
    <2>3. p8 = q \o h
      BY ONLY <1>17, <2>1
    <2>4. n = Len(q) + l /\ p8[Len(q) + l] = h[l]
      BY ONLY <1>20, <2>2, <2>3
    <2> QED
      BY ONLY <1>20, <2>2, <2>4
  <1>22. Raw(p8)
    <2>1. p8[Len(p8)] \notin Space \union {Backslash}
      BY ONLY <1>20, <1>21 DEF Digit, Space, Backslash
    <2>2. p8 # <<>>
      <3>1. Len(<<>>) = 0
        OBVIOUS
      <3> QED
        BY ONLY <1>20, <1>21, <3>1
    <2> QED
      BY ONLY <1>17, <2>1, <2>2 DEF Raw, Quoteless
  <1>23. p8 \in Token
    BY ONLY <1>22, p8 \in Chars, RawIsToken
  <1> QED
    BY ONLY <1>18, <1>23 DEF Telling

(* The display shows of an answer what the first row says.                 *)
LEMMA ShowsDue ==
  ASSUME NEW row, Showable(row), NEW t \in Chars, Leads(t, Quoted(ItemText(row)))
  PROVE  NotifyForSystemString(t) = Due(row)
  <1>1. PICK a \in Chars :
          /\ a = Column(row, "goodsType") /\ Unmarked(a)
          /\ Atoi(a) = row["goodsType"] /\ row["goodsType"] \in Nat
    <2>1. PICK col \in AllColumn : col = "goodsType" /\ col \in NumberColumn
      BY DEF AllColumn, NumberColumn, TextColumn
    <2>2. Column(row, col) \in Chars /\ Quoteless(Column(row, col)) /\ Unmarked(Column(row, col))
      BY ONLY Showable(row), col \in AllColumn, ColumnTexts
    <2>3. Column(row, col) # <<>> /\ Atoi(Column(row, col)) = row[col] /\ row[col] \in Nat
      BY ONLY <2>1, Showable(row), ColumnTexts
    <2> QED
      BY ONLY <2>1, <2>2, <2>3
  <1>2. PICK b \in Chars :
          /\ b = Column(row, "goodsName") /\ Unmarked(b)
          /\ b = row.goodsName
    <2>1. PICK col \in AllColumn : col = "goodsName"
      BY DEF AllColumn, NumberColumn, TextColumn
    <2>2. Column(row, col) \in Chars /\ Quoteless(Column(row, col)) /\ Unmarked(Column(row, col))
      BY ONLY Showable(row), col \in AllColumn, ColumnTexts
    <2>3. Column(row, "goodsName") = row.goodsName
      BY ONLY Showable(row), ColumnTexts
    <2> QED
      BY ONLY <2>1, <2>2, <2>3
  <1>3. PICK c \in Chars :
          /\ c = Column(row, "goodsID") /\ Unmarked(c)
          /\ Atoi(c) = row["goodsID"] /\ row["goodsID"] \in Nat
    <2>1. PICK col \in AllColumn : col = "goodsID" /\ col \in NumberColumn
      BY DEF AllColumn, NumberColumn, TextColumn
    <2>2. Column(row, col) \in Chars /\ Quoteless(Column(row, col)) /\ Unmarked(Column(row, col))
      BY ONLY Showable(row), col \in AllColumn, ColumnTexts
    <2>3. Column(row, col) # <<>> /\ Atoi(Column(row, col)) = row[col] /\ row[col] \in Nat
      BY ONLY <2>1, Showable(row), ColumnTexts
    <2> QED
      BY ONLY <2>1, <2>2, <2>3
  <1>4. PICK d \in Chars :
          /\ d = Column(row, "putInTime") /\ Unmarked(d)
    <2>1. PICK col \in AllColumn : col = "putInTime"
      BY DEF AllColumn, NumberColumn, TextColumn
    <2>2. Column(row, col) \in Chars /\ Quoteless(Column(row, col)) /\ Unmarked(Column(row, col))
      BY ONLY Showable(row), col \in AllColumn, ColumnTexts
    <2> QED
      BY ONLY <2>1, <2>2
  <1>5. PICK e \in Chars :
          /\ e = Column(row, "goodsProperty") /\ Unmarked(e)
          /\ Atoi(e) = row["goodsProperty"] /\ row["goodsProperty"] \in Nat
    <2>1. PICK col \in AllColumn : col = "goodsProperty" /\ col \in NumberColumn
      BY DEF AllColumn, NumberColumn, TextColumn
    <2>2. Column(row, col) \in Chars /\ Quoteless(Column(row, col)) /\ Unmarked(Column(row, col))
      BY ONLY Showable(row), col \in AllColumn, ColumnTexts
    <2>3. Column(row, col) # <<>> /\ Atoi(Column(row, col)) = row[col] /\ row[col] \in Nat
      BY ONLY <2>1, Showable(row), ColumnTexts
    <2> QED
      BY ONLY <2>1, <2>2, <2>3
  <1>6. PICK f \in Chars :
          /\ f = Column(row, "goodsSIC") /\ Unmarked(f)
    <2>1. PICK col \in AllColumn : col = "goodsSIC"
      BY DEF AllColumn, NumberColumn, TextColumn
    <2>2. Column(row, col) \in Chars /\ Quoteless(Column(row, col)) /\ Unmarked(Column(row, col))
      BY ONLY Showable(row), col \in AllColumn, ColumnTexts
    <2> QED
      BY ONLY <2>1, <2>2
  <1>7. PICK g \in Chars :
          /\ g = Column(row, "cost") /\ Unmarked(g)
          /\ Atoi(g) = row["cost"] /\ row["cost"] \in Nat
    <2>1. PICK col \in AllColumn : col = "cost" /\ col \in NumberColumn
      BY DEF AllColumn, NumberColumn, TextColumn
    <2>2. Column(row, col) \in Chars /\ Quoteless(Column(row, col)) /\ Unmarked(Column(row, col))
      BY ONLY Showable(row), col \in AllColumn, ColumnTexts
    <2>3. Column(row, col) # <<>> /\ Atoi(Column(row, col)) = row[col] /\ row[col] \in Nat
      BY ONLY <2>1, Showable(row), ColumnTexts
    <2> QED
      BY ONLY <2>1, <2>2, <2>3
  <1>8. PICK h \in Chars :
          /\ h = Column(row, "costoff") /\ Unmarked(h)
          /\ h # <<>> /\ Quoteless(h)
          /\ Atoi(h) = row["costoff"] /\ row["costoff"] \in Nat
    <2>1. PICK col \in AllColumn : col = "costoff" /\ col \in NumberColumn
      BY DEF AllColumn, NumberColumn, TextColumn
    <2>2. Column(row, col) \in Chars /\ Quoteless(Column(row, col)) /\ Unmarked(Column(row, col))
      BY ONLY Showable(row), col \in AllColumn, ColumnTexts
    <2>3. Column(row, col) # <<>> /\ Atoi(Column(row, col)) = row[col] /\ row[col] \in Nat
      BY ONLY <2>1, Showable(row), ColumnTexts
    <2> QED
      BY ONLY <2>1, <2>2, <2>3
  <1>9. ItemText(row) = Fields(a, b, c, d, e, f, g, h)
    BY ONLY <1>1, <1>2, <1>3, <1>4, <1>5, <1>6, <1>7, <1>8, ItemIsFields
  <1>10. PICK y \in Chars :
           /\ StartsQuoted(y, h)
           /\ Len(Split(t, ">")) \in Nat /\ Len(Split(t, ">")) >= 8
           /\ Split(t, ">")[2] = b /\ Split(t, ">")[5] = e
           /\ Split(t, ">")[7] = g /\ Split(t, ">")[8] = y
    <2>1. HasFields(ItemText(row), b, e, g, h)
      <3>1. /\ b \in Chars /\ e \in Chars /\ g \in Chars /\ h \in Chars /\ h # <<>>
            /\ Unmarked(b) /\ Unmarked(e) /\ Unmarked(g) /\ Unmarked(h)
        BY ONLY <1>2, <1>5, <1>7, <1>8, b \in Chars, e \in Chars, g \in Chars, h \in Chars
      <3>2. \E a1, c1, d1, f1 \in Chars :
              /\ Unmarked(a1) /\ Unmarked(c1) /\ Unmarked(d1) /\ Unmarked(f1)
              /\ ItemText(row) = Fields(a1, b, c1, d1, e, f1, g, h)
        BY ONLY <1>1, <1>3, <1>4, <1>6, <1>9, a \in Chars, c \in Chars, d \in Chars, f \in Chars
      <3> QED
        BY ONLY <3>1, <3>2 DEF HasFields
    <2>2. CutInto(t, b, e, g, h)
      BY ONLY <2>1, t \in Chars, Leads(t, Quoted(ItemText(row))), CutUp
    <2> QED
      BY ONLY <2>2 DEF CutInto
  <1>11. Split(y, Quote) # <<>> /\ Split(y, Quote)[1] = h
    BY ONLY <1>8, <1>10, y \in Chars, h \in Chars, QuoteCut
  <1>12. PICK buf, off : buf = Split(t, ">") /\ off = Split(y, Quote)
    OBVIOUS
  <1>13. /\ ~(Len(buf) <= 7) /\ buf[2] = b /\ buf[5] = e /\ buf[7] = g /\ buf[8] = y
    BY ONLY <1>10, <1>12
  <1>14. off # <<>> /\ off[1] = h /\ off = Split(buf[8], Quote)
    BY ONLY <1>11, <1>12, <1>13
  <1>15. PICK price \in Nat, number \in Nat, costoff \in Nat :
           /\ price = row.cost
           /\ number = row.goodsProperty /\ costoff = row.costoff
    BY ONLY <1>5, <1>7, <1>8
  <1>16. NotifyForSystemString(t) =
           Shown(b, Atoi(g), Atoi(e), Atoi(h), Percent(Wrap(Atoi(g) * Atoi(e) * Atoi(h))))
    BY ONLY <1>12, <1>13, <1>14, Zenon DEF NotifyForSystemString
  <1>17. PICK n \in Nat : n = price * number * costoff /\ n < IntLimit
    <2>1. price * number * costoff \in Nat
      <3>1. price * number \in Nat
        BY ONLY price \in Nat, number \in Nat
      <3>2. PICK x \in Nat : x = price * number
        BY ONLY <3>1
      <3>3. x * costoff \in Nat
        BY ONLY x \in Nat, costoff \in Nat
      <3> QED
        BY ONLY <3>2, <3>3
    <2>2. Price(row) = price * number * costoff
      BY ONLY <1>15 DEF Price
    <2>3. Price(row) < IntLimit
      BY ONLY Showable(row) DEF Showable
    <2> QED
      BY ONLY <2>1, <2>2, <2>3
  <1>18. Percent(Wrap(n)) = n \div 100
    BY ONLY <1>17, n \in Nat, NoWrap
  <1>19. Atoi(g) = price /\ Atoi(e) = number /\ Atoi(h) = costoff
    BY ONLY <1>5, <1>7, <1>8, <1>15
  <1>20. NotifyForSystemString(t) = Shown(row.goodsName, price, number, costoff, n \div 100)
    BY ONLY <1>2, <1>16, <1>17, <1>18, <1>19
  <1>21. Due(row) = Shown(row.goodsName, price, number, costoff, n \div 100)
    <2>1. Price(row) = n
      BY ONLY <1>15, <1>17 DEF Price
    <2> QED
      BY ONLY <1>15, <2>1 DEF Due
  <1> QED
    BY ONLY <1>20, <1>21

(* What is shown of the answer with rows: what is due for the first one.   *)
LEMMA AnswerShows ==
  ASSUME NEW R, \A row \in R : Showable(row), NEW rows \in Seq(R), Len(rows) > 0
  PROVE  NotifyForSystemString(Answer(rows)) = Due(rows[1])
  <1>1. \A row \in R : Telling(row)
    BY ONLY \A row \in R : Showable(row), ShowableTells
  <1>2. Answer(rows) \in Chars /\ Leads(Answer(rows), Quoted(ItemText(rows[1])))
    BY ONLY <1>1, rows \in Seq(R), Len(rows) > 0, AnswerLeads
  <1>3. PICK row \in R : row = rows[1]
    BY ONLY rows \in Seq(R), Len(rows) > 0
  <1>4. PICK t \in Chars : t = Answer(rows)
    BY ONLY <1>2
  <1>5. NotifyForSystemString(t) = Due(row)
    <2>1. Showable(row) /\ Leads(t, Quoted(ItemText(row)))
      BY ONLY <1>2, <1>3, <1>4, row \in R, \A r \in R : Showable(r)
    <2> QED
      BY ONLY <2>1, t \in Chars, ShowsDue
  <1> QED
    BY ONLY <1>3, <1>4, <1>5

-----------------------------------------------------------------------------
(* The question about a tag, and the price on the screen.                  *)

(* What is asked of a column when a tag was reported.                      *)
TagAsks(tag, col) ==
  IF col = "goodsSIC"
    THEN Criterion(IF Atoi(tag) = FUZZY_CHECK THEN "FUZZY" ELSE "EXACT", tag, 0)
    ELSE NoCriterion

(* The control thread asks exactly that: for the tag, and nothing else.    *)
LEMMA TagIsAsked ==
  ASSUME NEW tag \in Chars, EncodeCheck(tag) = -1, Literal(tag), NoPattern(tag)
  PROVE  \A col \in AllColumn : /\ Asks(col, TagAsks(tag, col))
                                /\ Meets(Item(TagQuestion(tag), col), TagAsks(tag, col))
  <1>1. PICK v : v = NoQuestion
    OBVIOUS
  <1>2. Complete(v) /\ \A col \in AllColumn : Item(v, col).mode = "NOCHECK"
    BY ONLY <1>1, NothingAsked
  <1>3. PICK e \in TextColumn : e = "goodsSIC"
    BY DEF TextColumn
  <1>4. e \in AllColumn
    BY ONLY e \in TextColumn DEF AllColumn
  <1>5. PICK m \in {FUZZY_CHECK, EXACT_CHECK} : m = EXACT_CHECK
    OBVIOUS
  <1>6. Stored(tag, TRUE) = tag /\ Stored(tag, FALSE) = tag
    BY ONLY EncodeCheck(tag) = -1 DEF Stored
  <1>7. PICK r : r = TagQuestion(tag)
    OBVIOUS
  <1>8. r = Assign(Assign(v, K(CheckKey(e)), SetInt(m)), FromKey(e), SetStr(tag, TRUE))
    <2>1. SetStr(tag, TRUE) = SetStr(tag, FALSE)
      BY ONLY <1>6 DEF SetStr
    <2>2. CheckKey(e) = "iGoodsSIC"
      BY ONLY <1>3 DEF CheckKey
    <2> QED
      BY ONLY <1>1, <1>3, <1>5, <1>7, <2>1, <2>2 DEF TagQuestion
  <1>9. Changes(v, r, e) /\ TextAsked(Item(r, e), e, tag, m)
    BY ONLY <1>2, <1>8, TextIsAsked, e \in TextColumn, tag \in Chars,
            m \in {FUZZY_CHECK, EXACT_CHECK}
  <1>10. \A d \in AllColumn : d # e => Item(r, d) = Item(v, d)
    BY ONLY <1>2, <1>4, <1>9, StaysComplete
  <1>11. ASSUME NEW col \in AllColumn
         PROVE  Asks(col, TagAsks(tag, col)) /\ Meets(Item(r, col), TagAsks(tag, col))
    <2>1. PICK c : c = TagAsks(tag, col)
      OBVIOUS
    <2>2. CASE col = "goodsSIC"
      <3>1. /\ c.mode = IF Atoi(tag) = FUZZY_CHECK THEN "FUZZY" ELSE "EXACT"
            /\ c.from = tag
        BY ONLY <2>1, <2>2 DEF TagAsks, Criterion
      <3>2. Asks(col, c)
        <4>1. Askable(col, c)
          BY ONLY <2>2, <3>1, tag \in Chars, EncodeCheck(tag) = -1 DEF Askable
        <4>2. TextsOf(c) = {tag} /\ c.mode # "RANGE"
          BY ONLY <3>1 DEF TextsOf
        <4>3. Sayable(c)
          BY ONLY <3>1, <4>2, Literal(tag), NoPattern(tag), Zenon DEF Sayable
        <4> QED
          BY ONLY <4>1, <4>3 DEF Asks
      <3>3. /\ Item(r, col).from = tag
            /\ Item(r, col).mode = IF Atoi(tag) = FUZZY_CHECK THEN "FUZZY" ELSE "EXACT"
        BY ONLY <1>3, <1>6, <1>9, <2>2 DEF TextAsked
      <3>4. Meets(Item(r, col), c)
        BY ONLY <3>1, <3>3 DEF Meets
      <3> QED
        BY ONLY <2>1, <3>2, <3>4
    <2>3. CASE col # "goodsSIC"
      <3>1. c.mode = "NOCHECK"
        BY ONLY <2>1, <2>3 DEF TagAsks, NoCriterion, Criterion
      <3>2. Item(r, col).mode = "NOCHECK"
        BY ONLY <1>2, <1>3, <1>10, <2>3, col \in AllColumn
      <3>3. Askable(col, c) /\ Meets(Item(r, col), c)
        BY ONLY <3>1, <3>2 DEF Askable, Meets
      <3>4. TextsOf(c) = {} /\ c.mode # "RANGE" /\ c.mode # "FUZZY"
        BY ONLY <3>1 DEF TextsOf
      <3>5. Asks(col, c)
        BY ONLY <3>3, <3>4, Zenon DEF Asks, Sayable
      <3> QED
        BY ONLY <2>1, <3>3, <3>5
    <2> QED
      BY ONLY <2>2, <2>3
  <1> QED
    BY ONLY <1>7, <1>11

(* A text that begins with another one of its length is this one.          *)
LEMMA WholeBeginning ==
  ASSUME NEW t \in Chars, NEW b \in Chars, Len(t) = Len(b)
  PROVE  StartsWith(t, b) <=> t = b
  <1>1. PICK n \in Nat : n = Len(t) /\ n = Len(b)
    BY ONLY Texts, t \in Chars, Len(t) = Len(b)
  <1>2. SubSeq(t, 1, n) = t
    BY ONLY <1>1, t \in Chars, SubSeqFull DEF Chars
  <1> QED
    BY ONLY <1>1, <1>2, n \in Nat DEF StartsWith

(* It finds the rows with the tag, when nothing else can be taken for it.  *)
LEMMA RowsOfTag ==
  ASSUME table \in Seq(Row), NEW tag \in Tag, Carried(tag)
  PROVE  Rows(TagQuestion(tag)) = WithTag(tag)
  <1>1. tag \in Chars /\ EncodeCheck(tag) = -1 /\ Literal(tag) /\ NoPattern(tag)
    BY TagAssumption
  <1>2. PICK question : question = [col \in AllColumn |-> TagAsks(tag, col)]
    OBVIOUS
  <1>3. PICK items : items = SetCheckItems(TagQuestion(tag))
    OBVIOUS
  <1>4. PICK clauses : clauses = GetCheckItems(items)
    OBVIOUS
  <1>5. /\ \A col \in AllColumn : Asks(col, question[col])
        /\ \A col \in AllColumn : Meets(items[col], question[col])
    <2>1. \A col \in AllColumn : /\ Asks(col, TagAsks(tag, col))
                                 /\ Meets(Item(TagQuestion(tag), col), TagAsks(tag, col))
      BY ONLY <1>1, TagIsAsked
    <2>2. \A col \in AllColumn : question[col] = TagAsks(tag, col)
      BY ONLY <1>2
    <2>3. \A col \in AllColumn : Item(TagQuestion(tag), col) = items[col]
      BY ONLY <1>3 DEF Item
    <2> QED
      BY ONLY <2>1, <2>2, <2>3
  <1>6. ASSUME NEW i \in DOMAIN table
        PROVE  (\A j \in DOMAIN clauses : Holds(clauses[j].cond, table[i][clauses[j].col]))
               <=> table[i].goodsSIC = tag
    <2>1. PICK row \in Row : row = table[i]
      BY ONLY table \in Seq(Row), i \in DOMAIN table, ElementOfSeq
    <2>2. Typed(row)
      BY ONLY row \in Row, RowsAreTyped
    <2>3. (\A j \in DOMAIN clauses : Holds(clauses[j].cond, row[clauses[j].col]))
          <=> (\A col \in AllColumn :
                 question[col].mode # "NOCHECK" => Holds(question[col], row[col]))
      BY ONLY <1>4, <1>5, <2>2, ItemsHold
    <2>4. PICK x \in Chars : x = row["goodsSIC"]
      BY ONLY <2>2 DEF Typed, AllColumn, NumberColumn, TextColumn
    <2>5. PICK c : c = TagAsks(tag, "goodsSIC")
      OBVIOUS
    <2>6. /\ c.mode = IF Atoi(tag) = FUZZY_CHECK THEN "FUZZY" ELSE "EXACT"
          /\ c.from = tag
      BY ONLY <2>5 DEF TagAsks, Criterion
    <2>7. Holds(c, x) <=> x = tag
      <3>1. CASE Atoi(tag) = FUZZY_CHECK
        <4>1. c.mode = "FUZZY"
          BY ONLY <2>6, <3>1
        <4>2. Holds(c, x) <=> StartsWith(x, tag)
          BY ONLY <1>1, <2>6, <4>1, HoldsIs
        <4>3. Len(x) = Len(tag)
          BY ONLY <2>1, <2>4, <3>1, Carried(tag), i \in DOMAIN table DEF Carried
        <4> QED
          BY ONLY <1>1, <4>2, <4>3, x \in Chars, WholeBeginning
      <3>2. CASE Atoi(tag) # FUZZY_CHECK
        <4>1. c.mode = "EXACT"
          BY ONLY <2>6, <3>2
        <4>2. Holds(c, x) <=> SameText(x, tag)
          BY ONLY <2>6, <4>1, HoldsIs
        <4>3. SameText(x, tag) => x = tag
          <5>1. SameText(row.goodsSIC, tag) => row.goodsSIC = tag
            BY SpellingAssumption
          <5> QED
            BY ONLY <2>4, <5>1
        <4>4. x = tag => SameText(x, tag)
          BY ONLY DEF SameText
        <4> QED
          BY ONLY <4>2, <4>3, <4>4
      <3> QED
        BY ONLY <3>1, <3>2
    <2>8. c.mode # "NOCHECK"
      BY ONLY <2>6
    <2>9. \A col \in AllColumn : col # "goodsSIC" => question[col].mode = "NOCHECK"
      BY ONLY <1>2 DEF TagAsks, NoCriterion, Criterion
    <2>10. "goodsSIC" \in AllColumn /\ question["goodsSIC"] = c
      BY ONLY <1>2, <2>5 DEF AllColumn, TextColumn
    <2>11. (\A col \in AllColumn :
              question[col].mode # "NOCHECK" => Holds(question[col], row[col]))
           <=> Holds(c, x)
      BY ONLY <2>4, <2>8, <2>9, <2>10
    <2> QED
      BY ONLY <2>1, <2>3, <2>4, <2>7, <2>11
  <1>7. {r \in DOMAIN table :
           \A i \in DOMAIN clauses : Holds(clauses[i].cond, table[r][clauses[i].col])}
        = {i \in DOMAIN table : table[i].goodsSIC = tag}
    BY ONLY <1>6
  <1>8. Select(table, clauses) = InOrder(table, {i \in DOMAIN table : table[i].goodsSIC = tag})
    BY ONLY <1>7 DEF Select
  <1> QED
    BY ONLY <1>3, <1>4, <1>8 DEF Rows, WithTag

(* What the way of a price keeps: the rows of the table are rows of the    *)
(* module, because of what was inserted, and only a report changes the     *)
(* screen.                                                                 *)
ShownInv == table \in Seq(Row) /\ PriceShown

(* A report shows the price of the row whose tag was read.                 *)
LEMMA ReportShows ==
  ASSUME table \in Seq(Row), NEW tag \in Tag, Carried(tag), Rows(TagQuestion(tag)) # <<>>
  PROVE  NotifyForSystemString(Answer(Rows(TagQuestion(tag)))) = Due(WithTag(tag)[1])
  <1>1. PICK rows : rows = WithTag(tag)
    OBVIOUS
  <1>2. Rows(TagQuestion(tag)) = rows
    BY ONLY <1>1, table \in Seq(Row), tag \in Tag, Carried(tag), RowsOfTag
  <1>3. PICK R : R = {row \in Row : Showable(row)}
    OBVIOUS
  <1>4. \A row \in R : Showable(row)
    BY ONLY <1>3
  <1>5. \A i \in 1 .. Len(table) : table[i] \in R
    <2> SUFFICES ASSUME NEW i \in 1 .. Len(table) PROVE table[i] \in R
      OBVIOUS
    <2>1. i \in DOMAIN table
      BY ONLY table \in Seq(Row), i \in 1 .. Len(table)
    <2>2. PICK row \in Row : row = table[i]
      BY ONLY <2>1, table \in Seq(Row), ElementOfSeq
    <2>3. Typed(row) /\ NoMarks(row.putInTime) /\ NoMarks(row.goodsSIC)
      BY RowAssumption, RowsAreTyped
    <2>4. NoMarks(row.goodsName) /\ Price(row) < IntLimit
      BY ONLY <2>1, <2>2, Carried(tag) DEF Carried
    <2> QED
      BY ONLY <1>3, <2>2, <2>3, <2>4 DEF Showable
  <1>6. table \in Seq(R)
    <2>1. table \in [1 .. Len(table) -> R] /\ Len(table) \in Nat
      BY ONLY <1>5, table \in Seq(Row)
    <2> QED
      BY ONLY <2>1
  <1>7. rows \in Seq(R)
    BY ONLY <1>1, <1>6, InOrderHas DEF WithTag
  <1>8. Len(rows) > 0
    <2>1. rows # <<>>
      BY ONLY <1>2, Rows(TagQuestion(tag)) # <<>>
    <2> QED
      BY ONLY <1>7, <2>1, EmptySeq
  <1>9. NotifyForSystemString(Answer(rows)) = Due(rows[1])
    BY ONLY <1>4, <1>7, <1>8, AnswerShows
  <1> QED
    BY ONLY <1>1, <1>2, <1>9

(* The inductive step.                                                     *)
LEMMA ShownStays == ShownInv /\ [StoreNext]_storeVars => ShownInv'
  <1> SUFFICES ASSUME ShownInv, [StoreNext]_storeVars
               PROVE  ShownInv'
    OBVIOUS
  <1>1. table' \in Seq(Row)
    BY TableStays DEF ShownInv
  <1>2. CASE ReportTag
    <2>1. PICK tag \in Tag, ok \in BOOLEAN :
            \E rows \in {Rows(TagQuestion(tag))} :
              LET shows == ok /\ rows # <<>> IN
              /\ screen' = IF shows THEN NotifyForSystemString(Answer(rows)) ELSE screen
              /\ due' = IF ~shows THEN due
                        ELSE IF Carried(tag) THEN Due(WithTag(tag)[1]) ELSE screen'
      BY <1>2 DEF ReportTag
    <2>2. PICK rows, shows :
            /\ rows = Rows(TagQuestion(tag))
            /\ shows = (ok /\ rows # <<>>)
            /\ screen' = IF shows THEN NotifyForSystemString(Answer(rows)) ELSE screen
            /\ due' = IF ~shows THEN due
                      ELSE IF Carried(tag) THEN Due(WithTag(tag)[1]) ELSE screen'
      BY <2>1
    <2>3. CASE ~shows \/ ~Carried(tag)
      <3>1. CASE ~shows
        <4>1. screen' = screen /\ due' = due
          BY ONLY <2>2, <3>1
        <4> QED
          BY ONLY <1>1, <4>1, ShownInv DEF ShownInv, PriceShown
      <3>2. CASE shows /\ ~Carried(tag)
        <4>1. due' = screen'
          BY ONLY <2>2, <3>2
        <4> QED
          BY ONLY <1>1, <4>1 DEF ShownInv, PriceShown
      <3> QED
        BY ONLY <2>3, <3>1, <3>2
    <2>4. CASE shows /\ Carried(tag)
      <3>1. NotifyForSystemString(Answer(rows)) = Due(WithTag(tag)[1])
        BY <2>2, <2>4, ReportShows DEF ShownInv
      <3> QED
        BY ONLY <1>1, <2>2, <2>4, <3>1 DEF ShownInv, PriceShown
    <2> QED
      BY <2>3, <2>4
  <1>3. CASE Connection \/ InsertValueIntoTable \/ DeleteValueFromTable \/ UNCHANGED storeVars
    <2>1. screen' = screen /\ due' = due
      BY <1>3 DEF Connection, InsertValueIntoTable, DeleteValueFromTable, storeVars
    <2> QED
      BY ONLY <1>1, <2>1, ShownInv DEF ShownInv, PriceShown
  <1> QED
    BY <1>2, <1>3 DEF StoreNext

(* Whatever rows are loaded or inserted and whatever tag is reported, what *)
(* the display shows behind a report is the price of the first row with    *)
(* this tag: the question finds exactly the rows with it, the text of the  *)
(* first one leads its answer, the cuts of the display give back its       *)
(* columns, and the product is the price, with the exceptions of Carried.  *)
THEOREM PriceIsShown == StoreSpec => []PriceShown
  <1>1. StoreInit => ShownInv
    <2>1. StoreInit => table \in Seq(Row)
      BY LoadedAre
    <2>2. StoreInit => screen = due
      BY DEF StoreInit
    <2> QED
      BY ONLY <2>1, <2>2 DEF ShownInv, PriceShown
  <1>2. ShownInv /\ [StoreNext]_storeVars => ShownInv'
    BY ShownStays
  <1>3. ShownInv => PriceShown
    BY DEF ShownInv
  <1> QED
    BY <1>1, <1>2, <1>3, PTL DEF StoreSpec
=============================================================================
