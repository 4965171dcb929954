---------------------------- MODULE JsonDocument -----------------------------
(***************************************************************************)
(* A document of module Json in the hands of its users: the database       *)
(* library builds the list of goods, the control thread its question, the  *)
(* phone its login, and what one writes another reads.                     *)
(*                                                                         *)
(* Callers store a text unescaped only when it needs no escaping: device   *)
(* names, tags and the goods in the table are such texts.                  *)
(***************************************************************************)
EXTENDS Json

CONSTANTS Key,       (* the keys                                            *)
          Text,      (* the texts to store                                  *)
          Number,    (* the numbers                                         *)
          MaxKids,   (* bound: children of the document                     *)
          MaxInner   (* bound: children of such a child                     *)

ASSUME KeyAssumption    == Key \subseteq {k \in Chars : EncodeCheck(k) = -1}
ASSUME TextAssumption   == Text \subseteq Chars
(* (A longer number loses its end, Printed.)                               *)
ASSUME NumberAssumption == Number \subseteq {n \in Nat : n <= 999999999}
(* The document, a child of it, a child of that child.                     *)
ASSUME LevelAssumption  == MaxDepth >= 3

VARIABLE doc

Small(v) ==
  /\ Len(v.kids) <= MaxKids
  /\ \A i \in DOMAIN v.kids :
       /\ Len(v.kids[i].kids) <= MaxInner
       /\ \A j \in DOMAIN v.kids[i].kids : v.kids[i].kids[j].kids = <<>>

(* The documents that callers add to others.                               *)
Part == {Null, Object(<<>>, <<>>), Array(<<>>)}

DocInit == doc \in Part

(* An operation on the document or, by operator[], on a child of it.       *)
ApplyTo(v, Op(_)) ==
  {Op(v)} \union {[v EXCEPT !.kids[i] = Op(@)] : i \in DOMAIN v.kids}
Apply(Op(_)) == doc' \in {w \in ApplyTo(doc, Op) : Small(w)}

MayStore(t, bEncode) == bEncode \/ EncodeCheck(t) = -1

AddTextProperty ==
  \E k \in Key, t \in Text, bEncode \in BOOLEAN :
    /\ MayStore(t, bEncode)
    /\ Apply(LAMBDA v : AddProperty(v, k, t, bEncode))

AddOtherProperty ==
  \E k \in Key :
    \/ \E n \in Number : Apply(LAMBDA v : AddPropertyInt(v, k, n))
    \/ \E w \in Part   : Apply(LAMBDA v : AddPropertyJson(v, k, w))

DeleteProperty == \E k \in Key : Apply(LAMBDA v : DelProperty(v, k))

AddTextVal ==
  \E t \in Text, bEncode \in BOOLEAN :
    /\ MayStore(t, bEncode)
    /\ \/ Apply(LAMBDA v : AddVal(v, t, bEncode))
       \/ Apply(LAMBDA v : AddValNoRepeat(v, t, bEncode))

AddOtherVal ==
  \/ \E n \in Number : Apply(LAMBDA v : AddElementVal(v, Printed(n)))
  \/ \E w \in Part   : Apply(LAMBDA v : AddValJson(v, w))

DeleteVal == \E i \in 1 .. MaxKids : Apply(LAMBDA v : DelVal(v, i))

AssignText ==
  \E k \in Key, t \in Text, bEncode \in BOOLEAN :
    /\ MayStore(t, bEncode)
    /\ Apply(LAMBDA v : Assign(v, k, SetStr(t, bEncode)))

(* The document is written, sent to another part and read there, or it is  *)
(* assigned to another one.                                                *)
Pass == doc' \in {InitText(CStr(doc), TRUE), Copy(doc)}

DocNext ==
  \/ AddTextProperty \/ AddOtherProperty \/ DeleteProperty
  \/ AddTextVal \/ AddOtherVal \/ DeleteVal
  \/ AssignText \/ Pass

DocSpec == DocInit /\ [][DocNext]_doc

-----------------------------------------------------------------------------
(* Properties.                                                             *)

Content == INSTANCE JsonContent

(* What a reader gets from a document by operator[] and toStr.             *)
MeaningAt[d \in 0 .. MaxDepth] ==
  IF d = 0 THEN <<>>
  ELSE [v \in Doc[d] |->
          CASE v.type = "OBJECT" ->
                 Content!Map([k \in {v.keys[i] : i \in DOMAIN v.keys} |->
                                MeaningAt[d - 1][v.kids[GetKeyIndex(v, k)]]])
            [] v.type = "ARRAY" ->
                 Content!List([i \in DOMAIN v.kids |-> MeaningAt[d - 1][v.kids[i]]])
            [] v.type = "NULL" -> Content!Nothing
            [] OTHER -> Content!Leaf(v.type, ToStr(v))]
Meaning(v) == MeaningAt[MaxDepth][v]

(* A document is the same after it was written and read, with its blanks   *)
(* removed or not, and every text in it comes out as it was put in: what   *)
(* strings contain (quotes, backslashes, brackets, blanks) never cuts or   *)
(* changes them.                                                           *)
ReadsBack ==
  /\ InitText(CStr(doc), TRUE) = doc
  /\ Copy(doc) = doc
  /\ \A t \in Text : ToStr(Parse(CStr(SetStr(t, TRUE)))) = t

(* c_str writes into exactly the memory that getStrLen computed, and       *)
(* encode into what encodeCheck said, so that nothing is cut off.          *)
BufferFits ==
  /\ GetStrLen(doc) = Len(CStr(doc))
  /\ \A t \in Text :
       EncodeCheck(t) = IF Encode(t) = t THEN -1 ELSE Len(Encode(t)) + 1

(* Whatever was done to a document before, each operation does to its      *)
(* meaning what module JsonContent says: a property or value that is added *)
(* is found, those beside it stay, what is deleted is gone, and the text   *)
(* that was stored escaped or not is the text that was given.              *)
ActsAsContent ==
  LET c == Meaning(doc)
      Leaf(t) == Content!Leaf("STRING", t)
  IN
  /\ \A k \in Key, t \in Text :
       /\ Meaning(AddProperty(doc, k, t, TRUE)) = Content!Put(c, k, Leaf(t))
       /\ Meaning(Assign(doc, k, SetStr(t, TRUE))) = Content!Store(c, k, Leaf(t))
  /\ \A k \in Key, w \in Part :
       Meaning(AddPropertyJson(doc, k, w)) = Content!Put(c, k, Meaning(w))
  /\ \A k \in Key, n \in Number :
       ToInt(At(AddPropertyInt(doc, k, n), k)) =
         IF c.kind \in {"NULL", "OBJECT"} THEN n ELSE 0
  /\ \A k \in Key : Meaning(DelProperty(doc, k)) = Content!Drop(c, k)
  /\ \A t \in Text : Meaning(AddVal(doc, t, TRUE)) = Content!Push(c, Leaf(t))
  /\ \A w \in Part : Meaning(AddValJson(doc, w)) = Content!Push(c, Meaning(w))
  /\ \A i \in 1 .. MaxKids : Meaning(DelVal(doc, i)) = Content!Cut(c, i)
=============================================================================
