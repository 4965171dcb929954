------------------------------ MODULE JsonText -------------------------------
(***************************************************************************)
(* How LinuxServer/base/BaseJson.cpp writes and reads: its escaping, the   *)
(* text of a document with the memory that is allocated for it, and the    *)
(* way back.  (Module Json changes documents.)                             *)
(*                                                                         *)
(* A text is a sequence of characters; a word (null, true, false) is one   *)
(* character, and "\n" stands for the three characters that are escaped    *)
(* with a letter.  A value is a record: its type, the text m_pValue as it  *)
(* is stored (for a string: still escaped), the keys and the children.     *)
(*                                                                         *)
(* What parse makes of text that is not well formed, numbers with a        *)
(* fraction or an exponent, texts longer than JS_MAX_STR_LEN and failures  *)
(* of malloc are not modelled.                                             *)
(***************************************************************************)
EXTENDS Integers, Sequences, FiniteSetsExt

CONSTANTS
  Char,      (* the characters, words included                              *)
  MaxDepth   (* bound: the levels of a value                                *)

Quote     == "\""
Backslash == "\\"

Digit == {"0", "1", "2", "3", "4", "5", "6", "7", "8", "9"}
Bool  == {"true", "false"}
Space == {" ", "\n"}

ASSUME CharAssumption ==
  {Quote, Backslash, "\n", "n", ",", ":", "{", "}", "[", "]", "null"}
    \union Digit \union Bool \subseteq Char
ASSUME DepthAssumption == MaxDepth \in Nat

(* Texts.                                                                  *)
Chars == Seq(Char)

-----------------------------------------------------------------------------
(* Escaping.                                                               *)

EncodeChar(c) ==
  CASE c = Quote     -> <<Backslash, Quote>>
    [] c = Backslash -> <<Backslash, Backslash>>
    [] c = "\n"      -> <<Backslash, "n">>
    [] OTHER         -> <<c>>

Encode(t) ==
  LET upTo[i \in 0 .. Len(t)] ==
        IF i = 0 THEN <<>> ELSE upTo[i - 1] \o EncodeChar(t[i])
  IN  upTo[Len(t)]

(* The size a buffer for the escaped text needs, its final NUL included;   *)
(* -1 says that there is nothing to escape.                                *)
EncodeCheck(t) ==
  LET size[i \in 0 .. Len(t)] ==
        IF i = 0 THEN 1
        ELSE size[i - 1] + (IF t[i] \in {Quote, Backslash, "\n"} THEN 2 ELSE 1)
  IN  IF size[Len(t)] = Len(t) + 1 THEN -1 ELSE size[Len(t)]

(* The text to be stored for t: escaped when the caller asks and there is  *)
(* something to escape.                                                    *)
Stored(t, bEncode) == IF bEncode /\ EncodeCheck(t) # -1 THEN Encode(t) ELSE t

Quoted(t) == <<Quote>> \o t \o <<Quote>>

(* The end of the string whose quote is at i: the next quote that no       *)
(* backslash escapes; i when there is none.                                *)
StringEnd(s, i) ==
  LET escaped[j \in i + 1 .. Len(s)] ==
        j > i + 1 /\ s[j - 1] = Backslash /\ ~escaped[j - 1]
      ends == {j \in i + 1 .. Len(s) : s[j] = Quote /\ ~escaped[j]}
  IN  IF ends = {} THEN i ELSE Min(ends)

(* Reading a text from the left, of which the last character may have been *)
(* a backslash that escapes the next one.  (The code leaves open what an   *)
(* escaped character becomes that Encode never escapes; no text has one.)  *)
DecodeChar(r, c) ==
  IF r.escaped THEN [text |-> Append(r.text, IF c = "n" THEN "\n" ELSE c), escaped |-> FALSE]
  ELSE IF c = Backslash THEN [text |-> r.text, escaped |-> TRUE]
  ELSE [text |-> Append(r.text, c), escaped |-> FALSE]

Decode(raw) ==
  LET upTo[i \in 0 .. Len(raw)] ==
        IF i = 0 THEN [text |-> <<>>, escaped |-> FALSE]
        ELSE DecodeChar(upTo[i - 1], raw[i])
  IN  upTo[Len(raw)].text

-----------------------------------------------------------------------------
(* Writing.                                                                *)

Type == {"OBJECT", "ARRAY", "DIGITAL", "STRING", "BOOL", "NULL", "MAX"}

Value(type, val, keys, kids) ==
  [type |-> type, val |-> val, keys |-> keys, kids |-> kids]
Null        == Value("NULL", <<"null">>, <<>>, <<>>)
Untyped     == Value("MAX", <<>>, <<>>, <<>>)
Str(raw)    == Value("STRING", raw, <<>>, <<>>)
Array(kids) == Value("ARRAY", <<>>, <<>>, kids)
Object(keys, kids) == Value("OBJECT", <<>>, keys, kids)

(* The values with at most d levels, of which the innermost is empty.      *)
Doc[d \in 0 .. MaxDepth] ==
  IF d = 0 THEN {}
  ELSE {v \in [type : Type, val : Chars, keys : Seq(Chars), kids : Seq(Doc[d - 1])] :
          v.type = "OBJECT" => Len(v.keys) = Len(v.kids)}

(* Those of them that a text can say, given the ones with a level less:    *)
(* strings and keys are escaped, numbers are digits.                       *)
Escaped == {raw \in Chars : Encode(Decode(raw)) = raw}
Formed(values, inner) ==
  {v \in values :
     \/ v = Null
     \/ \E b \in Bool : v = Value("BOOL", <<b>>, <<>>, <<>>)
     \/ v.val \in Seq(Digit) \ {<<>>} /\ v = Value("DIGITAL", v.val, <<>>, <<>>)
     \/ v.val \in Escaped /\ v = Str(v.val)
     \/ v.kids \in Seq(inner) /\ v = Array(v.kids)
     \/ v.keys \in Seq(Escaped) /\ v.kids \in Seq(inner) /\ v = Object(v.keys, v.kids)}
WellFormedDoc[d \in 0 .. MaxDepth] == IF d = 0 THEN {} ELSE Formed(Doc[d], WellFormedDoc[d - 1])

(* Texts with commas between them.                                         *)
Joined(texts) ==
  LET upTo[i \in 0 .. Len(texts)] ==
        IF i = 0 THEN <<>>
        ELSE upTo[i - 1] \o (IF i > 1 THEN <<",">> ELSE <<>>) \o texts[i]
  IN  upTo[Len(texts)]

(* Their length.  Variant: the commas are forgotten.                       *)
LenJoined_NoComma(lens) ==
  LET len[i \in 0 .. Len(lens)] == IF i = 0 THEN 0 ELSE len[i - 1] + lens[i]
  IN  len[Len(lens)]

LenJoined(lens) ==
  LET len[i \in 0 .. Len(lens)] ==
        IF i = 0 THEN 0 ELSE len[i - 1] + (IF i > 1 THEN 1 ELSE 0) + lens[i]
  IN  len[Len(lens)]

Written[d \in 0 .. MaxDepth] ==
  IF d = 0 THEN <<>>
  ELSE [v \in Doc[d] |->
          CASE v.type = "OBJECT" ->
                 <<"{">> \o Joined([i \in 1 .. Len(v.kids) |->
                   Quoted(v.keys[i]) \o <<":">> \o Written[d - 1][v.kids[i]]]) \o <<"}">>
            [] v.type = "ARRAY" ->
                 <<"[">> \o Joined([i \in 1 .. Len(v.kids) |-> Written[d - 1][v.kids[i]]])
                   \o <<"]">>
            [] v.type = "STRING" -> Quoted(v.val)
            [] v.type = "MAX" -> <<>>
            [] OTHER -> v.val]
CStr(v) == Written[MaxDepth][v]

(* The length for which c_str allocates its buffer.                        *)
Measured[d \in 0 .. MaxDepth] ==
  IF d = 0 THEN <<>>
  ELSE [v \in Doc[d] |->
          CASE v.type = "OBJECT" ->
                 LenJoined([i \in 1 .. Len(v.kids) |->
                   3 + Len(v.keys[i]) + Measured[d - 1][v.kids[i]]]) + 2
            [] v.type = "ARRAY" ->
                 LenJoined([i \in 1 .. Len(v.kids) |-> Measured[d - 1][v.kids[i]]]) + 2
            [] v.type = "STRING" -> Len(v.val) + 2
            [] v.type = "MAX" -> 0
            [] OTHER -> Len(v.val)]
GetStrLen(v) == Measured[MaxDepth][v]

-----------------------------------------------------------------------------
(* Reading.                                                                *)

(* Blanks go, except in strings.                                           *)
TrimChar(r, c) ==
  [text    |-> IF c \in Space /\ ~r.quoted THEN r.text ELSE Append(r.text, c),
   quoted  |-> IF c = Quote /\ ~r.escaped THEN ~r.quoted ELSE r.quoted,
   escaped |-> IF c \in Space THEN r.escaped ELSE c = Backslash /\ ~r.escaped]

Trim(s) ==
  LET upTo[i \in 0 .. Len(s)] ==
        IF i = 0 THEN [text |-> <<>>, quoted |-> FALSE, escaped |-> FALSE]
        ELSE TrimChar(upTo[i - 1], s[i])
  IN  upTo[Len(s)].text

(* The last position of the token that starts at i; i itself when there is *)
(* no end.  "closing" has the bracket that closes what opens at i.         *)
NumberEnd(s, i) ==
  Max({j \in i .. Len(s) : \A k \in i + 1 .. j : s[k] \in Digit})

TokenEnd(s, i, closing) ==
  CASE s[i] = "[" -> Max({i, closing["]"]})
    [] s[i] = "{" -> Max({i, closing["}"]})
    [] s[i] = Quote -> StringEnd(s, i)
    [] s[i] \in Digit -> NumberEnd(s, i)
    [] OTHER -> i

(* For each position the bracket that closes a container which is open     *)
(* there, or 0.                                                            *)
ContainerEnd(s) ==
  LET end[i \in Nat] ==
        [close \in {"]", "}"} |->
          IF i > Len(s) THEN 0
          ELSE IF s[i] = close /\ s[i - 1] # Backslash THEN i
          ELSE IF s[i] \in {"[", "{", Quote} /\ s[i - 1] # Backslash
            THEN LET Behind(e) == IF e = i /\ close = "]" THEN 0 ELSE end[e + 1][close]
                 IN  Behind(TokenEnd(s, i, end[i + 1]))
          ELSE end[i + 1][close]]
  IN  end

(* Variant: a container ends at the first closing bracket.                 *)
GetEndChPos_First(s, i) ==
  LET first == Min({j \in i .. Len(s) : j = Len(s) \/ s[j] \in {"]", "}"}})
  IN  TokenEnd(s, i, [close \in {"]", "}"} |-> first])

GetEndChPos(s, i) == TokenEnd(s, i, ContainerEnd(s)[i + 1])

ParseValue(s) ==
  CASE s = <<>> -> Untyped
    [] s # <<>> /\ s[1] = Quote ->
         IF GetEndChPos(s, 1) = Len(s) THEN Str(SubSeq(s, 2, Len(s) - 1))
                                       ELSE Untyped
    [] s # <<>> /\ s[1] \in Digit ->
         IF GetEndChPos(s, 1) = Len(s) THEN Value("DIGITAL", s, <<>>, <<>>)
                                       ELSE Untyped
    [] s = <<"null">> -> Null
    [] Len(s) = 1 /\ s[1] \in Bool -> Value("BOOL", s, <<>>, <<>>)
    [] OTHER -> Untyped

(* The values in an array's text, of which "parsed" says what they are.    *)
Elements(s, parsed) ==
  LET from[i \in Nat] ==
        IF i > Len(s) THEN <<>>
        ELSE LET e == GetEndChPos(s, i)
             IN  <<parsed[SubSeq(s, i, e)]>> \o from[e + 2]
  IN  from[2]

ParseArray(s, parsed) ==
  IF s[2] \in {Quote, "[", "{", "null"} \union Bool \union Digit
    THEN Array(Elements(s, parsed))
    ELSE Array(<<>>)

(* The properties in an object's text; they are complete unless a key is   *)
(* without a colon.  The key at i ends at e and its value at f.            *)
ReadMember(s, parsed, i, e, f, rest) ==
  IF e + 1 > Len(s) \/ s[e + 1] # ":"
    THEN [complete |-> FALSE, keys |-> <<>>, kids |-> <<>>]
    ELSE [complete |-> rest.complete,
          keys |-> <<SubSeq(s, i + 1, e - 1)>> \o rest.keys,
          kids |-> <<parsed[SubSeq(s, e + 2, f)]>> \o rest.kids]

Members(s, parsed) ==
  LET from[i \in Nat] ==
        IF i > Len(s) THEN [complete |-> TRUE, keys |-> <<>>, kids |-> <<>>]
        ELSE LET e == GetEndChPos(s, i)
                 f == GetEndChPos(s, e + 2)
             IN  ReadMember(s, parsed, i, e, f, from[f + 2])
  IN  from[2]

(* An object whose text breaks off has no properties at all.               *)
ObjectOf(read) ==
  IF read.complete THEN Object(read.keys, read.kids) ELSE Object(<<>>, <<>>)

ParseObject(s, parsed) ==
  IF s[2] = Quote THEN ObjectOf(Members(s, parsed)) ELSE Object(<<>>, <<>>)

(* The values of the texts with at most d levels.                          *)
Parsed[d \in 0 .. MaxDepth] ==
  IF d = 0 THEN <<>>
  ELSE [s \in Chars |->
          IF s # <<>> /\ s[1] = "[" /\ s[Len(s)] = "]"
            THEN IF Len(s) = 2 THEN Array(<<>>) ELSE ParseArray(s, Parsed[d - 1])
          ELSE IF s # <<>> /\ s[1] = "{" /\ s[Len(s)] = "}"
            THEN IF Len(s) = 2 THEN Object(<<>>, <<>>) ELSE ParseObject(s, Parsed[d - 1])
          ELSE ParseValue(s)]
Parse(s) == Parsed[MaxDepth][s]

(* init, with the check that the constructor from a text asks for.         *)
InitText(s, bCheck) == Parse(IF bCheck THEN Trim(s) ELSE s)
=============================================================================
