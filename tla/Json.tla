-------------------------------- MODULE Json ---------------------------------
(***************************************************************************)
(* LinuxServer/base/BaseJson.cpp (copies of it: mysqllib/framework/        *)
(* json.cpp, ClientJNI/base, DisplaysJNI/base): the documents in which the *)
(* database library returns goods, the control thread asks for them and    *)
(* the phone logs in.                                                      *)
(*                                                                         *)
(* How texts and values are represented, and what is left out, is said in  *)
(* module JsonText.                                                        *)
(***************************************************************************)
EXTENDS JsonText, SequencesExt

(* What a reader of a string gets.                                         *)
ToStr(v) == IF v.type = "STRING" THEN Decode(v.val) ELSE v.val

Copy(v) == InitText(CStr(v), FALSE)
Equal(v, w) == CStr(v) = CStr(w)

-----------------------------------------------------------------------------
(* Changing.                                                               *)

GetKeyIndex(v, k) ==
  IF v.type = "OBJECT" THEN SelectInSeq(v.keys, LAMBDA x : x = k) ELSE 0
IsKeyExist(v, k) == GetKeyIndex(v, k) # 0

(* operator[] for reading: a key that is not there gives the object.       *)
At(v, k) ==
  CASE v.type # "OBJECT" -> Null
    [] IsKeyExist(v, k)  -> v.kids[GetKeyIndex(v, k)]
    [] OTHER -> v

(* Numbers as they are printed and read; a text that starts with anything  *)
(* but digits is the number 0.  An int has up to ten digits.               *)
Powers  == <<1, 10, 100, 1000, 10000, 100000, 1000000, 10000000, 100000000, 1000000000>>
Numeral == <<"0", "1", "2", "3", "4", "5", "6", "7", "8", "9">>

Digits(n) ==
  LET width == Min({k \in 1 .. 9 : n < Powers[k + 1]} \union {10})
  IN  [i \in 1 .. width |-> Numeral[((n \div Powers[width + 1 - i]) % 10) + 1]]

(* What is written of a number where a value is made of it: nine           *)
(* characters, since JS_INT_SIZE is 10.                                    *)
Printed(n) ==
  LET digits == Digits(n) IN IF Len(digits) <= 9 THEN digits ELSE SubSeq(digits, 1, 9)

Atoi(t) ==
  LET leading == Max({j \in 0 .. Len(t) : \A k \in 1 .. j : t[k] \in Digit})
      number[i \in 0 .. leading] ==
        IF i = 0 THEN 0
        ELSE 10 * number[i - 1] + (CHOOSE k \in 0 .. 9 : Numeral[k + 1] = t[i])
  IN  number[leading]

(* toInt and toBool of a value: objects and arrays have no text.           *)
ToInt(v)  == Atoi(v.val)
ToBool(v) == v.val # <<>> /\ v.val[1] = "true"

(* operator= with a text, and setStr, which can escape it.                 *)
SetStr(t, bEncode) == Str(Stored(t, bEncode))
SetInt(n) == Value("DIGITAL", Printed(n), <<>>, <<>>)

(* The value of key k becomes what text t says.  (Blanks in it stay when   *)
(* the key is there already.)                                              *)
PutKey(v, k, w) ==
  CASE v.type = "NULL" -> Object(<<k>>, <<w>>)
    [] IsKeyExist(v, k) -> [v EXCEPT !.kids[GetKeyIndex(v, k)] = w]
    [] v.type \in {"OBJECT", "MAX"} /\ ~IsKeyExist(v, k) ->
         Object(Append(v.keys, k), Append(v.kids, w))
    [] OTHER -> v

AddElementKey(v, k, t) == PutKey(v, k, InitText(t, ~IsKeyExist(v, k)))

AddProperty(v, k, t, bEncode) == AddElementKey(v, k, Quoted(Stored(t, bEncode)))
AddPropertyInt(v, k, n)       == AddElementKey(v, k, Printed(n))
AddPropertyJson(v, k, w)      == AddElementKey(v, k, CStr(w))

(* Variant: the last property leaves an empty object.                      *)
DelProperty_Empty(v, k) ==
  IF IsKeyExist(v, k)
    THEN Object(RemoveAt(v.keys, GetKeyIndex(v, k)),
                RemoveAt(v.kids, GetKeyIndex(v, k)))
    ELSE v

DelProperty(v, k) ==
  IF ~IsKeyExist(v, k) THEN v
  ELSE IF Len(v.keys) = 1 THEN InitText(<<"null">>, FALSE)
  ELSE Object(RemoveAt(v.keys, GetKeyIndex(v, k)),
              RemoveAt(v.kids, GetKeyIndex(v, k)))

AddElementVal(v, t) ==
  CASE v.type = "NULL"  -> Array(<<InitText(t, FALSE)>>)
    [] v.type = "ARRAY" -> Array(Append(v.kids, InitText(t, FALSE)))
    [] OTHER -> v

AddVal(v, t, bEncode) == AddElementVal(v, Quoted(Stored(t, bEncode)))
AddValJson(v, w)      == AddElementVal(v, CStr(w))

(* getObjIndex and isStrExist: the text is looked for as it is stored.     *)
GetObjIndex(v, w) ==
  IF v.type = "ARRAY" THEN SelectInSeq(v.kids, LAMBDA x : Equal(x, w)) ELSE 0
IsStrExist(v, t) == GetObjIndex(v, SetStr(t, FALSE)) # 0

AddValNoRepeat(v, t, bEncode) ==
  IF IsStrExist(v, t) THEN v ELSE AddVal(v, t, bEncode)

DelVal(v, i) ==
  IF v.type # "ARRAY" \/ i \notin DOMAIN v.kids THEN v
  ELSE IF Len(v.kids) = 1 THEN InitText(<<"null">>, FALSE)
  ELSE Array(RemoveAt(v.kids, i))

(* v[k] = w.  Without the key, operator[] answers with v itself, so that   *)
(* the whole value is replaced; what is no object keeps its value, because *)
(* a shared null value is assigned instead.                                *)
Assign(v, k, w) ==
  CASE v.type # "OBJECT" -> v
    [] IsKeyExist(v, k) -> [v EXCEPT !.kids[GetKeyIndex(v, k)] = w]
    [] OTHER -> w
=============================================================================
