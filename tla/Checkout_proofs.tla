--------------------------- MODULE Checkout_proofs ---------------------------
(***************************************************************************)
(* Proofs about Checkout, for any phones, goods and bounds.                *)
(***************************************************************************)
EXTENDS Checkout, SequenceTheorems, FiniteSetTheorems, WellFoundedInduction, TLAPS

(* The first element of a sequence is one of its elements.                 *)
LEMMA HeadOfSeq == ASSUME NEW S, NEW q \in Seq(S), q # <<>> PROVE Head(q) \in S
  OBVIOUS

(* Every nonempty set of numbers has a least element.                      *)
LEMMA NatMin == ASSUME NEW S \in SUBSET Nat, S # {} PROVE \E x \in S : \A y \in S : x <= y
  <1>1. IsWellFoundedOn(OpToRel(<, Nat), Nat)
    BY NatLessThanWellFounded, Zenon
  <1>2. PICK x \in S : \A y \in S : ~(<<y, x>> \in OpToRel(<, Nat))
    BY <1>1, WFMin, Zenon
  <1>3. \A y \in S : ~(y < x)
    BY <1>2, Zenon DEF OpToRel
  <1> QED
    BY <1>3

(* Induction up to n, over a set: what the proofs by induction below cite. *)
LEMMA UpTo ==
  ASSUME NEW n \in Nat, NEW S, 0 \in S,
         \A i \in Nat : i < n /\ i \in S => i + 1 \in S
  PROVE  0 .. n \subseteq S
  <1> DEFINE Out == {i \in Nat : i <= n /\ i \notin S}
  <1> SUFFICES ASSUME Out # {} PROVE FALSE
    OBVIOUS
  <1>1. PICK x \in Out : \A y \in Out : x <= y
    BY NatMin
  <1>2. x # 0 /\ x \in Nat /\ x <= n /\ x \notin S
    BY <1>1
  <1>3. x - 1 \in Nat /\ x - 1 < n /\ x - 1 \notin Out
    BY <1>1, <1>2
  <1>4. x - 1 \in S
    BY <1>2, <1>3
  <1> QED
    BY <1>2, <1>3, <1>4

(* Tail, as a function.                                                    *)
LEMMA TailIs ==
  ASSUME NEW S, NEW q \in Seq(S), q # <<>>
  PROVE  Tail(q) = [i \in 1 .. Len(q) - 1 |-> q[i + 1]]
  <1> DEFINE a == Tail(q)
             n == Len(q)
  <1>1. /\ n \in Nat \ {0} /\ a \in Seq(S) /\ Len(a) = n - 1
        /\ \A i \in 1 .. n - 1 : a[i] = q[i + 1]
    OBVIOUS
  <1> HIDE DEF a, n
  <1>2. a = [i \in 1 .. n - 1 |-> a[i]]
    BY <1>1, LenProperties
  <1> QED
    BY <1>1, <1>2 DEF a, n

USE ConnAssumption, PriceAssumption, BoundAssumption

-----------------------------------------------------------------------------
(* What a frame does in the display.                                       *)
LEMMA FrameTyped ==
  ASSUME TypeOK,
         NEW type, NEW dest \in Nat, NEW tag \in Tag \union {NOBODY}, NEW bill \in Nat,
         NEW asker \in Asker, type = "EPC_AUTO" => tag \in Tag,
         OnReceivedFrame(type, dest, tag, bill, asker)
  PROVE  /\ ulDest' \in Nat
         /\ cQueue' \in Seq(Item)
         /\ \A i \in 1 .. Len(cQueue') : cQueue'[i].type = "EPC_AUTO" => cQueue'[i].tag \in Tag
  <1> DEFINE before == [i \in DOMAIN cQueue |-> [cQueue[i] EXCEPT !.alone = FALSE]]
             item   == [type |-> type, tag |-> tag, bill |-> bill, asker |-> asker,
                        alone |-> TRUE]
  <1>1. /\ cQueue \in Seq(Item)
        /\ \A i \in 1 .. Len(cQueue) : cQueue[i].type = "EPC_AUTO" => cQueue[i].tag \in Tag
    BY DEF TypeOK
  <1>2. /\ before \in Seq(Item) /\ Len(before) = Len(cQueue)
        /\ \A i \in 1 .. Len(before) : before[i].type = "EPC_AUTO" => before[i].tag \in Tag
    <2>1. DOMAIN cQueue = 1 .. Len(cQueue) /\ Len(cQueue) \in Nat
      BY <1>1
    <2>2. ASSUME NEW i \in 1 .. Len(cQueue)
          PROVE  /\ [cQueue[i] EXCEPT !.alone = FALSE] \in Item
                 /\ [cQueue[i] EXCEPT !.alone = FALSE].type = cQueue[i].type
                 /\ [cQueue[i] EXCEPT !.alone = FALSE].tag = cQueue[i].tag
      <3>1. cQueue[i] \in Item
        BY <1>1
      <3> QED
        BY <3>1 DEF Item
    <2>3. before \in [1 .. Len(cQueue) -> Item]
      BY <2>1, <2>2
    <2>4. before \in Seq(Item) /\ Len(before) = Len(cQueue)
      BY <2>1, <2>3
    <2> QED
      BY <1>1, <2>1, <2>2, <2>4
  <1>3. type \in ForScreen => item \in Item
    BY DEF Item
  <1>4. ulDest' = dest /\ cQueue' = IF type \in ForScreen THEN Append(before, item) ELSE before
    BY DEF OnReceivedFrame
  <1>5. item.type = type /\ item.tag = tag
    OBVIOUS
  <1> HIDE DEF before, item
  <1>6. CASE type \in ForScreen
    BY <1>2, <1>3, <1>4, <1>5, <1>6
  <1>7. CASE type \notin ForScreen
    BY <1>2, <1>4, <1>7
  <1> QED
    BY <1>6, <1>7

(* What a sender says next goes behind what it said before.                *)
LEMMA SayTyped ==
  ASSUME TypeOK, NEW s \in Sender, NEW msg, Say(s, msg),
         s \in Phone => msg \in ClientSays,
         s = DisplayConn => msg \in DisplaySays
  PROVE  /\ waiting' \in [Sender -> Seq(ClientSays \union DisplaySays)]
         /\ \A p \in Phone : waiting'[p] \in Seq(ClientSays)
         /\ waiting'[DisplayConn] \in Seq(DisplaySays)
  <1>1. /\ waiting \in [Sender -> Seq(ClientSays \union DisplaySays)]
        /\ \A p \in Phone : waiting[p] \in Seq(ClientSays)
        /\ waiting[DisplayConn] \in Seq(DisplaySays)
    BY DEF TypeOK
  <1>2. waiting' = [waiting EXCEPT ![s] = Append(waiting[s], msg)]
    BY DEF Say
  <1>3. msg \in ClientSays \union DisplaySays
    BY DEF Sender
  <1>4. Append(waiting[s], msg) \in Seq(ClientSays \union DisplaySays)
    BY <1>1, <1>3
  <1>5. waiting' \in [Sender -> Seq(ClientSays \union DisplaySays)]
    BY <1>1, <1>2, <1>4
  <1>6. ASSUME NEW p \in Phone PROVE waiting'[p] \in Seq(ClientSays)
    <2>1. p \in Sender
      BY DEF Sender
    <2>2. CASE p = s
      <3>1. Append(waiting[p], msg) \in Seq(ClientSays)
        BY <1>1, <2>2
      <3> QED
        BY <1>1, <1>2, <2>1, <2>2, <3>1
    <2>3. CASE p # s
      BY <1>1, <1>2, <2>1, <2>3
    <2> QED
      BY <2>2, <2>3
  <1>7. waiting'[DisplayConn] \in Seq(DisplaySays)
    <2>1. DisplayConn \in Sender
      BY DEF Sender
    <2>2. CASE DisplayConn = s
      <3>1. Append(waiting[DisplayConn], msg) \in Seq(DisplaySays)
        BY <1>1, <2>2
      <3> QED
        BY <1>1, <1>2, <2>1, <2>2, <3>1
    <2>3. CASE DisplayConn # s
      BY <1>1, <1>2, <2>1, <2>3
    <2> QED
      BY <2>2, <2>3
  <1> QED
    BY <1>5, <1>6, <1>7

(* The first message of a sender is one that sender can say, and the rest  *)
(* stays typed.                                                            *)
LEMMA HeadTyped ==
  ASSUME TypeOK, NEW s \in Sender, waiting[s] # <<>>,
         waiting' = [waiting EXCEPT ![s] = Tail(@)]
  PROVE  /\ waiting' \in [Sender -> Seq(ClientSays \union DisplaySays)]
         /\ \A p \in Phone : waiting'[p] \in Seq(ClientSays)
         /\ waiting'[DisplayConn] \in Seq(DisplaySays)
         /\ s \in Phone => Head(waiting[s]) \in ClientSays
         /\ s = DisplayConn => Head(waiting[s]) \in DisplaySays
  <1>1. /\ waiting \in [Sender -> Seq(ClientSays \union DisplaySays)]
        /\ \A p \in Phone : waiting[p] \in Seq(ClientSays)
        /\ waiting[DisplayConn] \in Seq(DisplaySays)
    BY DEF TypeOK
  <1>2. Tail(waiting[s]) \in Seq(ClientSays \union DisplaySays)
    BY <1>1
  <1>3. waiting' \in [Sender -> Seq(ClientSays \union DisplaySays)]
    BY <1>1, <1>2
  <1>4. ASSUME NEW p \in Phone PROVE waiting'[p] \in Seq(ClientSays)
    <2>1. p \in Sender
      BY DEF Sender
    <2>2. p = s => Tail(waiting[p]) \in Seq(ClientSays)
      BY <1>1
    <2> QED
      BY <1>1, <2>1, <2>2
  <1>5. waiting'[DisplayConn] \in Seq(DisplaySays)
    <2>1. DisplayConn \in Sender
      BY DEF Sender
    <2>2. DisplayConn = s => Tail(waiting[DisplayConn]) \in Seq(DisplaySays)
      BY <1>1
    <2> QED
      BY <1>1, <2>1, <2>2
  <1>6. /\ s \in Phone => Head(waiting[s]) \in ClientSays
        /\ s = DisplayConn => Head(waiting[s]) \in DisplaySays
    <2>1. waiting[s] # <<>>
      OBVIOUS
    <2>2. s \in Phone => waiting[s] \in Seq(ClientSays)
      BY <1>1
    <2>3. s = DisplayConn => waiting[s] \in Seq(DisplaySays)
      BY <1>1
    <2> QED
      BY ONLY <2>1, <2>2, <2>3, HeadOfSeq
  <1> QED
    BY <1>3, <1>4, <1>5, <1>6

(* What an item makes of the screen.                                       *)
LEMMA ItemTyped ==
  ASSUME NEW scr \in [text : Seq([tag : Tag, bill : Nat]), dAllCount : Nat],
         NEW item \in Item, item.type = "EPC_AUTO" => item.tag \in Tag
  PROVE  AfterItem(scr, item) \in [text : Seq([tag : Tag, bill : Nat]), dAllCount : Nat]
  <1>1. CASE item.type = "EPC_AUTO"
    <2>1. item.tag \in Tag /\ item.bill \in Nat /\ Price[item.tag] \in Nat
      BY <1>1 DEF Item
    <2>2. [tag |-> item.tag, bill |-> item.bill] \in [tag : Tag, bill : Nat]
      BY <2>1
    <2> DEFINE shown == IF scr.dAllCount = 0 THEN <<>> ELSE scr.text
    <2>3. shown \in Seq([tag : Tag, bill : Nat])
      OBVIOUS
    <2>4. Append(shown, [tag |-> item.tag, bill |-> item.bill]) \in Seq([tag : Tag, bill : Nat])
      BY <2>2, <2>3
    <2>5. scr.dAllCount + Price[item.tag] \in Nat
      BY <2>1
    <2>6. AfterItem(scr, item) = [text |-> Append(shown, [tag |-> item.tag, bill |-> item.bill]),
                                  dAllCount |-> scr.dAllCount + Price[item.tag]]
      BY <1>1 DEF AfterItem, WithGood
    <2> QED
      BY <2>4, <2>5, <2>6
  <1>2. CASE item.type # "EPC_AUTO"
    BY <1>2 DEF AfterItem
  <1> QED
    BY <1>1, <1>2

-----------------------------------------------------------------------------
(* Type correctness.                                                       *)

LEMMA InitTyped == Init => TypeOK
  <1> SUFFICES ASSUME Init PROVE TypeOK
    OBVIOUS
  <1>1. DisplayConn \in Sender /\ Phone \subseteq Sender
    BY DEF Sender
  <1>2. <<>> \in Seq(ClientSays) /\ <<>> \in Seq(DisplaySays)
        /\ <<>> \in Seq(ClientSays \union DisplaySays)
    OBVIOUS
  <1>3. screen \in [text : Seq([tag : Tag, bill : Nat]), dAllCount : Nat]
    BY DEF Init
  <1> QED
    BY <1>1, <1>2, <1>3 DEF Init, TypeOK

(* The handlers of the control thread for messages that wait.              *)
LEMMA HandleTyped ==
  ASSUME TypeOK, NEW s \in Sender, Handle(s)
  PROVE  TypeOK'
  <1> DEFINE msg == Head(waiting[s])
  <1>1. /\ waiting' \in [Sender -> Seq(ClientSays \union DisplaySays)]
        /\ \A p \in Phone : waiting'[p] \in Seq(ClientSays)
        /\ waiting'[DisplayConn] \in Seq(DisplaySays)
        /\ s \in Phone => msg \in ClientSays
        /\ s = DisplayConn => msg \in DisplaySays
    BY HeadTyped DEF Handle
  <1>2. s \in Phone \/ s = DisplayConn
    BY DEF Sender
  <1>3. s = DisplayConn => msg.type = "CONFIRM_PAY_MENT"
    BY <1>1 DEF DisplaySays
  <1>4. /\ UNCHANGED <<scanning, screen, bIsNeedToSend, taps, typed>>
        /\ \/ Video(msg) \/ CommEpcAuto(msg) \/ CommEpcAutoStop(msg, s) \/ RequestToPay(msg, s)
           \/ ConfirmPayMent(msg)
    BY DEF Handle, phoneVars
  <1> HIDE DEF msg
  <1>5. /\ ends \in Nat /\ CurrentList \subseteq Tag /\ unpriced \subseteq CurrentList
        /\ scanning \in Nat \union {-1}
        /\ commands \in Seq([type : {"AutoScan", "StopScan", "ReadData"}, bill : Nat])
        /\ screen \in [text : Seq([tag : Tag, bill : Nat]), dAllCount : Nat]
        /\ bIsNeedToSend \subseteq Phone /\ taps \in Nat /\ typed \in Nat
        /\ ulDest \in Nat /\ cQueue \in Seq(Item)
        /\ \A i \in 1 .. Len(cQueue) : cQueue[i].type = "EPC_AUTO" => cQueue[i].tag \in Tag
    BY DEF TypeOK
  <1>6. NOBODY \in Asker /\ NOBODY \in Tag \union {NOBODY} /\ 0 \in Nat
        /\ Phone \subseteq Nat /\ DisplayConn \in Nat /\ Number \in Nat /\ Phone \subseteq Asker
    BY DEF NOBODY, Asker
  <1> DEFINE DisplayTyped ==
        /\ ulDest' \in Nat /\ cQueue' \in Seq(Item)
        /\ \A i \in 1 .. Len(cQueue') : cQueue'[i].type = "EPC_AUTO" => cQueue'[i].tag \in Tag
      Commands == Seq([type : {"AutoScan", "StopScan", "ReadData"}, bill : Nat])
  <1>7. ASSUME NEW type, NEW dest \in Nat, Plain(type, dest), type # "EPC_AUTO"
        PROVE DisplayTyped
    BY <1>5, <1>6, <1>7, FrameTyped DEF Plain
  <1>8. NothingToDisplay => DisplayTyped
    BY <1>5 DEF NothingToDisplay
  <1>9. ASSUME NEW type \in {"AutoScan", "StopScan"}, Command(type) PROVE commands' \in Commands
    <2>1. [type |-> type, bill |-> ends] \in [type : {"AutoScan", "StopScan", "ReadData"}, bill : Nat]
      BY <1>5
    <2> QED
      BY <1>5, <1>9, <2>1 DEF Command
  <1>10. /\ DisplayTyped /\ commands' \in Commands
         /\ UNCHANGED <<CurrentList, unpriced>> /\ ends' \in Nat
    <2>1. CASE Video(msg)
      BY <2>1, <1>5, <1>6, <1>7 DEF Video
    <2>2. CASE CommEpcAuto(msg)
      BY <2>2, <1>5, <1>8, <1>9 DEF CommEpcAuto
    <2>3. CASE CommEpcAutoStop(msg, s)
      <3>1. s \in Phone
        BY <2>3, <1>2, <1>3 DEF CommEpcAutoStop
      <3> QED
        BY <2>3, <3>1, <1>5, <1>6, <1>7, <1>9 DEF CommEpcAutoStop
    <2>4. CASE RequestToPay(msg, s)
      <3>1. s \in Phone
        BY <2>4, <1>2, <1>3 DEF RequestToPay
      <3>2. DisplayTyped
        BY <2>4, <3>1, <1>5, <1>6, FrameTyped DEF RequestToPay
      <3> QED
        BY <2>4, <3>2, <1>5, <1>9 DEF RequestToPay
    <2>5. CASE ConfirmPayMent(msg)
      <3>1. DisplayTyped
        BY <2>5, <1>6, <1>7, <1>8 DEF ConfirmPayMent
      <3> QED
        BY <2>5, <3>1, <1>5 DEF ConfirmPayMent
    <2> QED
      BY <1>4, <2>1, <2>2, <2>3, <2>4, <2>5
  <1> QED
    BY <1>1, <1>4, <1>5, <1>10 DEF TypeOK

(* What the reader does, with the handlers of its reports.                 *)
LEMMA ReaderTyped ==
  ASSUME TypeOK, (\E t \in Tag : Report(t)) \/ Obey
  PROVE  TypeOK'
  <1>1. /\ ends \in Nat /\ CurrentList \subseteq Tag /\ unpriced \subseteq CurrentList
        /\ scanning \in Nat \union {-1}
        /\ commands \in Seq([type : {"AutoScan", "StopScan", "ReadData"}, bill : Nat])
        /\ screen \in [text : Seq([tag : Tag, bill : Nat]), dAllCount : Nat]
        /\ bIsNeedToSend \subseteq Phone /\ taps \in Nat /\ typed \in Nat
        /\ ulDest \in Nat /\ cQueue \in Seq(Item)
        /\ \A i \in 1 .. Len(cQueue) : cQueue[i].type = "EPC_AUTO" => cQueue[i].tag \in Tag
    BY DEF TypeOK
  <1>2. NOBODY \in Asker /\ NOBODY \in Tag \union {NOBODY} /\ 0 \in Nat
    BY DEF NOBODY, Asker
  <1>3. UNCHANGED <<waiting, screen, bIsNeedToSend, taps, typed>>
    BY DEF Report, Obey, phoneVars
  <1> DEFINE DisplayTyped ==
        /\ ulDest' \in Nat /\ cQueue' \in Seq(Item)
        /\ \A i \in 1 .. Len(cQueue') : cQueue'[i].type = "EPC_AUTO" => cQueue'[i].tag \in Tag
      ServerTyped == ends' \in Nat /\ CurrentList' \subseteq Tag /\ unpriced' \subseteq CurrentList'
      ReaderTypedP == /\ scanning' \in Nat \union {-1}
                      /\ commands' \in Seq([type : {"AutoScan", "StopScan", "ReadData"}, bill : Nat])
  <1>4. NothingToDisplay => DisplayTyped
    BY <1>1 DEF NothingToDisplay
  <1>5. UNCHANGED serverVars => ServerTyped
    BY <1>1 DEF serverVars
  <1>6. ASSUME NEW t \in Tag, Report(t) PROVE DisplayTyped /\ ServerTyped /\ ReaderTypedP
    <2>1. scanning \in Nat /\ UNCHANGED readerVars
      BY <1>1, <1>6 DEF Report
    <2>2. ReaderTypedP
      BY <1>1, <2>1 DEF readerVars
    <2>3. CASE EpcAuto(t, scanning)
      <3>1. ServerTyped
        BY <1>1, <2>3 DEF EpcAuto
      <3>2. DisplayTyped
        <4>1. CASE NothingToDisplay
          BY <1>4, <4>1
        <4>2. CASE OnReceivedFrame("EPC_AUTO", 0, t, scanning, NOBODY)
          BY <1>2, <2>1, <4>2, FrameTyped
        <4> QED
          BY <2>3, <4>1, <4>2 DEF EpcAuto
      <3> QED
        BY <2>2, <3>1, <3>2
    <2>4. CASE EpcAutoAgain(t)
      BY <1>4, <1>5, <2>2, <2>4 DEF EpcAutoAgain
    <2> QED
      BY <1>6, <2>3, <2>4 DEF Report
  <1>7. ASSUME Obey PROVE DisplayTyped /\ ServerTyped /\ ReaderTypedP
    <2>1. /\ commands # <<>> /\ commands' = Tail(commands)
      BY <1>7 DEF Obey
    <2>2. /\ commands' \in Seq([type : {"AutoScan", "StopScan", "ReadData"}, bill : Nat])
          /\ Head(commands) \in [type : {"AutoScan", "StopScan", "ReadData"}, bill : Nat]
      BY <1>1, <2>1, HeadTailProperties
    <2>3. Head(commands).bill \in Nat
      BY <2>2
    <2>4. CASE /\ scanning' = IF scanning = -1 THEN Head(commands).bill ELSE scanning
               /\ NothingToDisplay /\ UNCHANGED serverVars
      BY <1>1, <1>4, <1>5, <2>2, <2>3, <2>4
    <2>5. CASE scanning' = -1 /\ AutoStop
      BY <1>1, <1>4, <2>2, <2>5 DEF AutoStop, ClearCurrentList
    <2>6. CASE NothingToDisplay /\ UNCHANGED <<scanning, serverVars>>
      BY <1>1, <1>4, <1>5, <2>2, <2>6
    <2>7. CASE EpcData /\ UNCHANGED scanning
      <3>1. DisplayTyped
        BY <1>1, <1>2, <2>7, FrameTyped DEF EpcData
      <3> QED
        BY <1>1, <2>2, <2>7, <3>1 DEF EpcData
    <2> QED
      BY <1>7, <2>4, <2>5, <2>6, <2>7 DEF Obey
  <1>8. DisplayTyped /\ ServerTyped /\ ReaderTypedP
    BY <1>6, <1>7
  <1>9. /\ waiting \in [Sender -> Seq(ClientSays \union DisplaySays)]
        /\ \A p \in Phone : waiting[p] \in Seq(ClientSays)
        /\ waiting[DisplayConn] \in Seq(DisplaySays)
    BY DEF TypeOK
  <1> QED
    BY <1>1, <1>3, <1>8, <1>9 DEF TypeOK

(* Buttons, pictures and commands.                                         *)
LEMMA PeopleTyped ==
  ASSUME TypeOK,
         \/ \E p \in Phone, button \in {"COMM_EPC_AUTO", "COMM_EPC_AUTO_STOP", "REQUEST_TO_PAY"} :
              OnClick(p, button)
         \/ \E p \in Phone : OnPreviewFrame(p)
         \/ Console
  PROVE  TypeOK'
  <1>1. ASSUME NEW p \in Phone,
               NEW button \in {"COMM_EPC_AUTO", "COMM_EPC_AUTO_STOP", "REQUEST_TO_PAY"},
               OnClick(p, button)
        PROVE  TypeOK'
    <2>1. p \in Sender /\ p # DisplayConn /\ [type |-> button] \in ClientSays
      BY DEF Sender, ClientSays
    <2>2. Say(p, [type |-> button])
      BY <1>1 DEF OnClick
    <2>3. /\ waiting' \in [Sender -> Seq(ClientSays \union DisplaySays)]
          /\ \A q \in Phone : waiting'[q] \in Seq(ClientSays)
          /\ waiting'[DisplayConn] \in Seq(DisplaySays)
      BY <2>1, <2>2, SayTyped
    <2> QED
      BY <1>1, <2>3 DEF OnClick, TypeOK, serverVars, readerVars, displayVars
  <1>2. ASSUME NEW p \in Phone, OnPreviewFrame(p) PROVE TypeOK'
    <2>1. p \in Sender /\ p # DisplayConn /\ [type |-> "VIDEO"] \in ClientSays
      BY DEF Sender, ClientSays
    <2>2. Say(p, [type |-> "VIDEO"])
      BY <1>2 DEF OnPreviewFrame
    <2>3. /\ waiting' \in [Sender -> Seq(ClientSays \union DisplaySays)]
          /\ \A q \in Phone : waiting'[q] \in Seq(ClientSays)
          /\ waiting'[DisplayConn] \in Seq(DisplaySays)
      BY <2>1, <2>2, SayTyped
    <2> QED
      BY <1>2, <2>3 DEF OnPreviewFrame, TypeOK, serverVars, readerVars, displayVars
  <1>3. CASE Console
    <2>1. PICK type \in {"AutoScan", "StopScan", "ReadData"} : Command(type)
      BY <1>3 DEF Console
    <2>2. [type |-> type, bill |-> ends] \in [type : {"AutoScan", "StopScan", "ReadData"}, bill : Nat]
      BY DEF TypeOK
    <2>3. commands' \in Seq([type : {"AutoScan", "StopScan", "ReadData"}, bill : Nat])
      BY <2>1, <2>2 DEF Command, TypeOK
    <2> QED
      BY <1>3, <2>3 DEF Console, TypeOK, serverVars, displayVars, phoneVars
  <1> QED
    BY <1>1, <1>2, <1>3

(* An item that is shown keeps the types.                                  *)
LEMMA UpdateTyped == TypeOK /\ Update => TypeOK'
  <1> SUFFICES ASSUME TypeOK, Update PROVE TypeOK'
    OBVIOUS
  <1> DEFINE item == Head(cQueue)
             said == [type |-> "CONFIRM_PAY_MENT", dest |-> ulDest, amount |-> screen.dAllCount,
                      asker |-> item.asker, alone |-> item.alone]
  <1>1. /\ cQueue \in Seq(Item) /\ cQueue # <<>> /\ cQueue' = Tail(cQueue)
        /\ \A i \in 1 .. Len(cQueue) : cQueue[i].type = "EPC_AUTO" => cQueue[i].tag \in Tag
        /\ screen \in [text : Seq([tag : Tag, bill : Nat]), dAllCount : Nat]
    BY DEF Update, TypeOK
  <1>2. item = cQueue[1] /\ item \in Item /\ (item.type = "EPC_AUTO" => item.tag \in Tag)
    <2>1. 1 \in 1 .. Len(cQueue)
      BY <1>1
    <2> QED
      BY <1>1, <2>1
  <1>3. /\ cQueue' \in Seq(Item)
        /\ \A i \in 1 .. Len(cQueue') : cQueue'[i].type = "EPC_AUTO" => cQueue'[i].tag \in Tag
    <2>1. /\ cQueue' \in Seq(Item) /\ Len(cQueue') = Len(cQueue) - 1
          /\ \A i \in 1 .. Len(cQueue') : cQueue'[i] = cQueue[i + 1]
      BY <1>1
    <2>2. \A i \in 1 .. Len(cQueue') : i + 1 \in 1 .. Len(cQueue)
      BY <1>1, <2>1
    <2> QED
      BY <1>1, <2>1, <2>2
  <1>4. screen' \in [text : Seq([tag : Tag, bill : Nat]), dAllCount : Nat]
    BY <1>1, <1>2, ItemTyped DEF Update
  <1>5. said \in DisplaySays
    <2>1. item.asker \in Asker /\ item.alone \in BOOLEAN
      BY <1>2 DEF Item
    <2> QED
      BY <1>1, <2>1 DEF DisplaySays, TypeOK
  <1>6. /\ waiting' \in [Sender -> Seq(ClientSays \union DisplaySays)]
        /\ \A p \in Phone : waiting'[p] \in Seq(ClientSays)
        /\ waiting'[DisplayConn] \in Seq(DisplaySays)
    <2>1. CASE Say(DisplayConn, said)
      <3>1. DisplayConn \in Sender /\ DisplayConn \notin Phone
        BY DEF Sender
      <3> HIDE DEF said
      <3> QED
        BY <1>5, <2>1, <3>1, SayTyped
    <2>2. CASE UNCHANGED waiting
      BY <2>2 DEF TypeOK
    <2> QED
      BY <2>1, <2>2 DEF Update
  <1> QED
    BY <1>3, <1>4, <1>6 DEF Update, TypeOK, serverVars, readerVars, phoneVars

(* Every step keeps the types.                                             *)
LEMMA NextTyped == TypeOK /\ [Next]_vars => TypeOK'
  <1> SUFFICES ASSUME TypeOK, [Next]_vars PROVE TypeOK'
    OBVIOUS
  <1>1. CASE \E s \in Sender : Handle(s)
    BY <1>1, HandleTyped
  <1>2. CASE (\E t \in Tag : Report(t)) \/ Obey
    BY <1>2, ReaderTyped
  <1>3. CASE \/ \E p \in Phone, button \in {"COMM_EPC_AUTO", "COMM_EPC_AUTO_STOP", "REQUEST_TO_PAY"} :
                  OnClick(p, button)
             \/ \E p \in Phone : OnPreviewFrame(p)
             \/ Console
    BY <1>3, PeopleTyped
  <1>4. CASE Update
    BY <1>4, UpdateTyped
  <1>5. CASE UNCHANGED vars
    BY <1>5 DEF TypeOK, vars, phoneVars, serverVars, readerVars, displayVars
  <1> QED
    BY <1>1, <1>2, <1>3, <1>4, <1>5 DEF Next

(* The variables keep their kinds: goods are goods, no sum is negative,    *)
(* and only the display confirms payments.                                 *)
THEOREM TypeCorrect == Spec => []TypeOK
  BY InitTyped, NextTyped, PTL DEF Spec

-----------------------------------------------------------------------------
(* Whom the display confirms a payment to.                                 *)

(* A request that nothing followed is the last item, and the destination   *)
(* is still that of its frame.                                             *)
AloneIsLast ==
  \A i \in 1 .. Len(cQueue) :
    cQueue[i].asker # NOBODY /\ cQueue[i].alone =>
      i = Len(cQueue) /\ ulDest = cQueue[i].asker

IndInv == TypeOK /\ AloneIsLast /\ ConfirmedToAsker

(* A frame keeps that if it is addressed to whom it names as the asker.    *)
LEMMA FrameKeepsAlone ==
  ASSUME TypeOK, AloneIsLast, NEW type, NEW dest, NEW tag, NEW bill, NEW asker,
         asker # NOBODY => dest = asker,
         OnReceivedFrame(type, dest, tag, bill, asker)
  PROVE  AloneIsLast'
  <1> DEFINE before == [i \in DOMAIN cQueue |-> [cQueue[i] EXCEPT !.alone = FALSE]]
             item   == [type |-> type, tag |-> tag, bill |-> bill, asker |-> asker,
                        alone |-> TRUE]
  <1>1. cQueue \in Seq(Item) /\ DOMAIN cQueue = 1 .. Len(cQueue) /\ Len(cQueue) \in Nat
    BY DEF TypeOK
  <1>2. /\ before \in Seq(Item) /\ Len(before) = Len(cQueue)
        /\ \A i \in 1 .. Len(before) : before[i].alone = FALSE
    <2>1. ASSUME NEW i \in 1 .. Len(cQueue)
          PROVE  /\ [cQueue[i] EXCEPT !.alone = FALSE] \in Item
                 /\ [cQueue[i] EXCEPT !.alone = FALSE].alone = FALSE
      <3>1. cQueue[i] \in Item
        BY <1>1
      <3> QED
        BY <3>1 DEF Item
    <2>2. before \in [1 .. Len(cQueue) -> Item]
      BY <1>1, <2>1
    <2>3. before \in Seq(Item) /\ Len(before) = Len(cQueue)
      BY <1>1, <2>2
    <2> QED
      BY <1>1, <2>1, <2>3
  <1>3. ulDest' = dest /\ cQueue' = IF type \in ForScreen THEN Append(before, item) ELSE before
    BY DEF OnReceivedFrame
  <1>4. item.asker = asker
    OBVIOUS
  <1> HIDE DEF before, item
  <1>5. CASE type \in ForScreen
    <2>1. Len(cQueue') = Len(before) + 1 /\ cQueue'[Len(before) + 1] = item
          /\ \A i \in 1 .. Len(before) : cQueue'[i] = before[i]
      BY <1>2, <1>3, <1>5
    <2>2. ASSUME NEW i \in 1 .. Len(cQueue'), cQueue'[i].asker # NOBODY, cQueue'[i].alone
          PROVE  i = Len(cQueue') /\ ulDest' = cQueue'[i].asker
      <3>1. i \notin 1 .. Len(before)
        BY <1>2, <2>1, <2>2
      <3>2. i = Len(before) + 1
        BY <1>1, <1>2, <2>1, <3>1
      <3> QED
        BY <1>3, <1>4, <2>1, <2>2, <3>2
    <2> QED
      BY <2>2 DEF AloneIsLast
  <1>6. CASE type \notin ForScreen
    BY <1>2, <1>3, <1>6 DEF AloneIsLast
  <1> QED
    BY <1>5, <1>6

(* What leaves the display alone keeps it.                                 *)
LEMMA NothingKeepsAlone == AloneIsLast /\ NothingToDisplay => AloneIsLast'
  BY DEF AloneIsLast, NothingToDisplay

(* What the display has confirmed stays right while nothing is added to it.*)
LEMMA SameConfirmed ==
  ConfirmedToAsker /\ waiting'[DisplayConn] = waiting[DisplayConn] => ConfirmedToAsker'
  BY DEF ConfirmedToAsker, Addressed

(* To take a message or to add one that is right keeps what the display    *)
(* has confirmed right.                                                    *)
LEMMA HeadKeepsConfirmed ==
  ASSUME TypeOK, ConfirmedToAsker, NEW s \in Sender, waiting[s] # <<>>,
         waiting' = [waiting EXCEPT ![s] = Tail(@)]
  PROVE  ConfirmedToAsker'
  <1>1. DisplayConn \in Sender /\ waiting[DisplayConn] \in Seq(DisplaySays)
    BY DEF TypeOK, Sender
  <1>2. CASE s = DisplayConn
    <2> DEFINE q == waiting[DisplayConn]
    <2>1. waiting'[DisplayConn] = Tail(q) /\ q # <<>> /\ q \in Seq(DisplaySays)
      BY <1>1, <1>2 DEF TypeOK
    <2>2. /\ DOMAIN Tail(q) = 1 .. Len(q) - 1 /\ DOMAIN q = 1 .. Len(q) /\ Len(q) \in Nat
          /\ \A i \in 1 .. Len(q) - 1 : Tail(q)[i] = q[i + 1]
      BY <2>1
    <2>3. \A i \in DOMAIN Tail(q) : i + 1 \in DOMAIN q /\ Tail(q)[i] = q[i + 1]
      BY <2>2
    <2> HIDE DEF q
    <2>4. \A i \in DOMAIN q : q[i].asker # NOBODY /\ q[i].alone => Addressed(q[i].dest) = {q[i].asker}
      BY DEF ConfirmedToAsker, q
    <2>5. \A i \in DOMAIN Tail(q) : LET m == Tail(q)[i]
                                   IN  m.asker # NOBODY /\ m.alone => Addressed(m.dest) = {m.asker}
      BY ONLY <2>3, <2>4
    <2>6. waiting'[DisplayConn] = Tail(q)
      BY <2>1
    <2> QED
      BY ONLY <2>5, <2>6 DEF ConfirmedToAsker, Addressed
  <1>3. CASE s # DisplayConn
    <2>1. waiting'[DisplayConn] = waiting[DisplayConn]
      BY <1>1, <1>3 DEF TypeOK
    <2> QED
      BY ONLY <2>1, SameConfirmed, ConfirmedToAsker
  <1> QED
    BY <1>2, <1>3

(* What a phone says does not touch what the display has confirmed.        *)
LEMMA PhoneKeepsConfirmed ==
  ASSUME TypeOK, ConfirmedToAsker, NEW p \in Phone, NEW msg, Say(p, msg)
  PROVE  ConfirmedToAsker'
  <1>1. waiting'[DisplayConn] = waiting[DisplayConn]
    BY DEF TypeOK, Say, Sender
  <1> QED
    BY <1>1, SameConfirmed

(* Update confirms to the phone whose request was the last item, or not at *)
(* all.                                                                    *)
LEMMA UpdateKeeps ==
  ASSUME IndInv, Update PROVE AloneIsLast' /\ ConfirmedToAsker'
  <1> DEFINE item == Head(cQueue)
             said == [type |-> "CONFIRM_PAY_MENT", dest |-> ulDest, amount |-> screen.dAllCount,
                      asker |-> item.asker, alone |-> item.alone]
             q    == waiting[DisplayConn]
  <1>1. /\ cQueue \in Seq(Item) /\ cQueue # <<>> /\ cQueue' = Tail(cQueue)
        /\ UNCHANGED ulDest /\ AloneIsLast
    BY DEF IndInv, TypeOK, Update
  <1>2. /\ Len(cQueue) \in Nat \ {0} /\ Len(cQueue') = Len(cQueue) - 1
        /\ \A i \in 1 .. Len(cQueue') : cQueue'[i] = cQueue[i + 1]
        /\ item = cQueue[1] /\ item \in Item
    BY <1>1
  <1>3. AloneIsLast'
    <2>1. \A i \in 1 .. Len(cQueue') : i + 1 \in 1 .. Len(cQueue)
      BY <1>2
    <2>2. ASSUME NEW i \in 1 .. Len(cQueue'), cQueue'[i].asker # NOBODY, cQueue'[i].alone
          PROVE  i = Len(cQueue') /\ ulDest' = cQueue'[i].asker
      <3>1. i + 1 = Len(cQueue) /\ ulDest = cQueue[i + 1].asker
        BY <1>1, <1>2, <2>1, <2>2 DEF AloneIsLast
      <3>2. i = Len(cQueue') /\ cQueue'[i] = cQueue[i + 1]
        BY ONLY <1>2, <3>1, i \in 1 .. Len(cQueue')
      <3> QED
        BY <1>1, <3>1, <3>2
    <2> QED
      BY <2>2 DEF AloneIsLast
  <1>4. item.asker # NOBODY /\ item.alone => ulDest = item.asker /\ item.asker \in Phone
    <2>1. 1 \in 1 .. Len(cQueue) /\ item.asker \in Asker
      BY <1>2 DEF Item
    <2> HIDE DEF item
    <2> QED
      BY <1>1, <1>2, <2>1 DEF AloneIsLast, Asker
  <1>5. DisplayConn \in Sender /\ q \in Seq(DisplaySays)
        /\ \A i \in DOMAIN q : q[i].asker # NOBODY /\ q[i].alone => Addressed(q[i].dest) = {q[i].asker}
    BY DEF IndInv, TypeOK, Sender, ConfirmedToAsker
  <1>6. CASE UNCHANGED waiting
    BY <1>3, <1>5, <1>6 DEF ConfirmedToAsker, Addressed
  <1>7. CASE Say(DisplayConn, said)
    <2>1. /\ said.dest = ulDest /\ said.asker = item.asker /\ said.alone = item.alone
      OBVIOUS
    <2> HIDE DEF said, q, item
    <2>2. waiting'[DisplayConn] = Append(q, said)
      BY <1>5, <1>7 DEF IndInv, TypeOK, Say, q
    <2>3. said.asker # NOBODY /\ said.alone => Addressed(said.dest) = {said.asker}
      BY <1>4, <2>1 DEF Addressed, NOBODY
    <2>4. /\ DOMAIN Append(q, said) = 1 .. Len(q) + 1 /\ DOMAIN q = 1 .. Len(q) /\ Len(q) \in Nat
          /\ Append(q, said)[Len(q) + 1] = said
          /\ \A i \in 1 .. Len(q) : Append(q, said)[i] = q[i]
      BY <1>5
    <2>5. \A i \in 1 .. Len(q) + 1 : i \in 1 .. Len(q) \/ i = Len(q) + 1
      BY <2>4
    <2>6. ASSUME NEW i \in DOMAIN Append(q, said)
          PROVE  LET m == Append(q, said)[i]
                 IN  m.asker # NOBODY /\ m.alone => Addressed(m.dest) = {m.asker}
      BY <1>5, <2>3, <2>4, <2>5
    <2> QED
      BY <1>3, <2>2, <2>6 DEF ConfirmedToAsker, Addressed
  <1> QED
    BY <1>3, <1>6, <1>7 DEF Update

(* Both hold at the start.                                                 *)
LEMMA InitAlone == Init => AloneIsLast /\ ConfirmedToAsker
  BY DEF Init, AloneIsLast, ConfirmedToAsker, Sender

(* The handlers of the control thread.                                     *)
LEMMA HandleKeeps ==
  ASSUME IndInv, NEW s \in Sender, Handle(s) PROVE AloneIsLast' /\ ConfirmedToAsker'
  <1>1. ConfirmedToAsker'
    BY HeadKeepsConfirmed DEF IndInv, Handle
  <1>2. ASSUME NEW type, NEW dest, Plain(type, dest) PROVE AloneIsLast'
    BY <1>2, FrameKeepsAlone DEF Plain, IndInv, NOBODY
  <1>3. NothingToDisplay => AloneIsLast'
    BY NothingKeepsAlone DEF IndInv
  <1> DEFINE msg == Head(waiting[s])
  <1>4. \/ Video(msg) \/ CommEpcAuto(msg) \/ CommEpcAutoStop(msg, s) \/ RequestToPay(msg, s)
        \/ ConfirmPayMent(msg)
    BY DEF Handle
  <1> HIDE DEF msg
  <1>5. ASSUME RequestToPay(msg, s) PROVE AloneIsLast'
    BY <1>5, FrameKeepsAlone DEF RequestToPay, IndInv
  <1> QED
    BY <1>1, <1>2, <1>3, <1>4, <1>5 DEF Video, CommEpcAuto, CommEpcAutoStop, ConfirmPayMent

(* The reader's reports name nobody who asks.                              *)
LEMMA ReaderKeeps ==
  ASSUME IndInv, (\E t \in Tag : Report(t)) \/ Obey PROVE AloneIsLast' /\ ConfirmedToAsker'
  <1>1. ConfirmedToAsker'
    BY DEF IndInv, ConfirmedToAsker, Addressed, Report, Obey
  <1>2. ASSUME NEW type, NEW tag, NEW bill, OnReceivedFrame(type, 0, tag, bill, NOBODY)
        PROVE  AloneIsLast'
    BY <1>2, FrameKeepsAlone DEF IndInv
  <1>3. NothingToDisplay => AloneIsLast'
    BY NothingKeepsAlone DEF IndInv
  <1>4. ASSUME NEW t \in Tag, Report(t) PROVE AloneIsLast'
    BY <1>2, <1>3, <1>4 DEF Report, EpcAuto, EpcAutoAgain
  <1>5. ASSUME Obey PROVE AloneIsLast'
    BY <1>2, <1>3, <1>5 DEF Obey, AutoStop, EpcData
  <1> QED
    BY <1>1, <1>4, <1>5

(* Buttons, pictures and commands are not the display's.                   *)
LEMMA PeopleKeep ==
  ASSUME IndInv,
         \/ \E p \in Phone, button \in {"COMM_EPC_AUTO", "COMM_EPC_AUTO_STOP", "REQUEST_TO_PAY"} :
              OnClick(p, button)
         \/ \E p \in Phone : OnPreviewFrame(p)
         \/ Console
  PROVE  AloneIsLast' /\ ConfirmedToAsker'
  <1>1. AloneIsLast'
    BY DEF IndInv, AloneIsLast, OnClick, OnPreviewFrame, Console, displayVars
  <1>2. ASSUME NEW p \in Phone, NEW button, OnClick(p, button) PROVE ConfirmedToAsker'
    BY <1>2, PhoneKeepsConfirmed DEF IndInv, OnClick
  <1>3. ASSUME NEW p \in Phone, OnPreviewFrame(p) PROVE ConfirmedToAsker'
    BY <1>3, PhoneKeepsConfirmed DEF IndInv, OnPreviewFrame
  <1>4. ASSUME Console PROVE ConfirmedToAsker'
    BY <1>4, SameConfirmed DEF IndInv, Console
  <1> QED
    BY <1>1, <1>2, <1>3, <1>4

(* The invariant is inductive.                                             *)
LEMMA Inductive == IndInv /\ [Next]_vars => IndInv'
  <1> SUFFICES ASSUME IndInv, [Next]_vars PROVE IndInv'
    OBVIOUS
  <1>1. TypeOK'
    BY NextTyped DEF IndInv
  <1>2. CASE \E s \in Sender : Handle(s)
    BY <1>1, <1>2, HandleKeeps DEF IndInv
  <1>3. CASE (\E t \in Tag : Report(t)) \/ Obey
    BY <1>1, <1>3, ReaderKeeps DEF IndInv
  <1>4. CASE \/ \E p \in Phone, button \in {"COMM_EPC_AUTO", "COMM_EPC_AUTO_STOP", "REQUEST_TO_PAY"} :
                  OnClick(p, button)
             \/ \E p \in Phone : OnPreviewFrame(p)
             \/ Console
    BY <1>1, <1>4, PeopleKeep DEF IndInv
  <1>5. CASE Update
    BY <1>1, <1>5, UpdateKeeps DEF IndInv
  <1>6. CASE UNCHANGED vars
    BY <1>1, <1>6 DEF IndInv, AloneIsLast, ConfirmedToAsker, Addressed, vars, displayVars
  <1> QED
    BY <1>2, <1>3, <1>4, <1>5, <1>6 DEF Next

(* A payment is confirmed to the phone that asked, and to no other device, *)
(* unless the server sent something else to the display before the display *)
(* took up the request, for any number of phones and of buttons pressed.   *)
THEOREM RightCustomer == Spec => []ConfirmedToAsker
  <1>1. Init => IndInv
    BY InitTyped, InitAlone DEF IndInv
  <1>2. IndInv => ConfirmedToAsker
    BY DEF IndInv
  <1> QED
    BY <1>1, <1>2, Inductive, PTL DEF Spec

-----------------------------------------------------------------------------
(* The items that wait, shown one by one: f[i] is what the first i of them *)
(* make of s.                                                              *)
Shows(f, s, items) ==
  f = [i \in 0 .. Len(items) |-> IF i = 0 THEN s ELSE WithItem(f[i - 1], items[i])]

(* There is such a function ...                                            *)
LEMMA ShowsExists ==
  ASSUME NEW T, NEW items \in Seq(T), NEW s
  PROVE  \E f : Shows(f, s, items)
  <1> DEFINE n == Len(items)
             Good(i, f) == f = [j \in 0 .. i |-> IF j = 0 THEN s ELSE WithItem(f[j - 1], items[j])]
             S == {i \in Nat : \E f : Good(i, f)}
  <1>1. n \in Nat
    OBVIOUS
  <1>2. 0 \in S
    <2>1. Good(0, [j \in 0 .. 0 |-> s])
      OBVIOUS
    <2> QED
      BY <2>1
  <1>3. ASSUME NEW i \in Nat, i < n, i \in S PROVE i + 1 \in S
    <2>1. PICK f : Good(i, f)
      BY <1>3
    <2> DEFINE g == [j \in 0 .. i + 1 |-> IF j = i + 1 THEN WithItem(f[i], items[j]) ELSE f[j]]
    <2>2. ASSUME NEW j \in 0 .. i + 1
          PROVE g[j] = IF j = 0 THEN s ELSE WithItem(g[j - 1], items[j])
      <3>1. CASE j = i + 1
        BY <3>1
      <3>2. CASE j # i + 1
        <4>1. j \in 0 .. i /\ (j # 0 => j - 1 \in 0 .. i + 1 /\ j - 1 # i + 1)
          BY <3>2
        <4>2. f[j] = IF j = 0 THEN s ELSE WithItem(f[j - 1], items[j])
          BY <2>1, <4>1
        <4> QED
          BY <3>2, <4>1, <4>2
      <3> QED
        BY <3>1, <3>2
    <2>3. g = [j \in 0 .. i + 1 |-> IF j = 0 THEN s ELSE WithItem(g[j - 1], items[j])]
      <3> HIDE DEF g
      <3>1. g = [j \in 0 .. i + 1 |-> g[j]]
        BY DEF g
      <3> QED
        BY <2>2, <3>1
    <2>4. Good(i + 1, g)
      BY <2>3
    <2> HIDE DEF g, Good
    <2> QED
      BY <2>4
  <1> HIDE DEF S, n, Good
  <1>4. 0 .. n \subseteq S
    BY <1>1, <1>2, <1>3, UpTo
  <1>5. n \in S
    BY <1>1, <1>4
  <1> QED
    BY <1>5, Zenon DEF S, Shows, n, Good

(* ... only one ...                                                        *)
LEMMA ShowsOne ==
  ASSUME NEW T, NEW items \in Seq(T), NEW s, NEW f, NEW g, Shows(f, s, items), Shows(g, s, items)
  PROVE  f = g
  <1> DEFINE n == Len(items)
             S == {i \in Nat : i <= n => f[i] = g[i]}
  <1>1. n \in Nat
    OBVIOUS
  <1>2. ASSUME NEW i \in 0 .. n
        PROVE  /\ f[i] = IF i = 0 THEN s ELSE WithItem(f[i - 1], items[i])
               /\ g[i] = IF i = 0 THEN s ELSE WithItem(g[i - 1], items[i])
    BY DEF Shows
  <1>3. 0 \in S
    BY <1>1, <1>2
  <1>4. ASSUME NEW i \in Nat, i < n, i \in S PROVE i + 1 \in S
    BY <1>1, <1>2, <1>4
  <1>5. 0 .. n \subseteq S
    <2> HIDE DEF S
    <2> QED BY <1>1, <1>3, <1>4, UpTo
  <1>6. \A i \in 0 .. n : f[i] = g[i]
    BY <1>1, <1>5
  <1>7. f = [i \in 0 .. n |-> f[i]] /\ g = [i \in 0 .. n |-> g[i]]
    BY DEF Shows
  <1> QED
    BY <1>6, <1>7

(* ... and it tells what AfterItems is.                                    *)
LEMMA AfterItemsIs ==
  ASSUME NEW T, NEW items \in Seq(T), NEW s, NEW f, Shows(f, s, items)
  PROVE  AfterItems(s, items) = f[Len(items)]
  <1> DEFINE c == CHOOSE g : g = [i \in 0 .. Len(items) |->
                                   IF i = 0 THEN s ELSE WithItem(g[i - 1], items[i])]
  <1>1. Shows(c, s, items)
    BY ShowsExists, Zenon DEF Shows
  <1>2. AfterItems(s, items) = c[Len(items)]
    BY Zenon DEF AfterItems
  <1> HIDE DEF c
  <1>3. c = f
    BY <1>1, ShowsOne
  <1> QED
    BY <1>2, <1>3

(* Nothing waits: nothing changes.                                         *)
LEMMA NoItems == ASSUME NEW s PROVE AfterItems(s, <<>>) = s
  <1>1. <<>> \in Seq(Item) /\ Len(<<>>) = 0
    OBVIOUS
  <1>2. PICK f : Shows(f, s, <<>>)
    BY <1>1, ShowsExists
  <1>3. f[0] = s
    BY <1>1, <1>2 DEF Shows
  <1> QED
    BY <1>1, <1>2, <1>3, AfterItemsIs

(* One item more behind the others is shown last ...                       *)
LEMMA LastItem ==
  ASSUME NEW T, NEW items \in Seq(T), NEW x \in T, NEW s
  PROVE  AfterItems(s, Append(items, x)) = WithItem(AfterItems(s, items), x)
  <1> DEFINE n == Len(items)
             more == Append(items, x)
  <1>1. /\ more \in Seq(T) /\ n \in Nat /\ Len(more) = n + 1 /\ more[n + 1] = x
        /\ \A i \in 1 .. n : more[i] = items[i]
    OBVIOUS
  <1>2. PICK f : Shows(f, s, items)
    BY ShowsExists
  <1> HIDE DEF n, more
  <1> DEFINE g == [i \in 0 .. n + 1 |-> IF i = n + 1 THEN WithItem(f[n], x) ELSE f[i]]
  <1>3. ASSUME NEW i \in 0 .. n + 1
        PROVE g[i] = IF i = 0 THEN s ELSE WithItem(g[i - 1], more[i])
    <2>1. CASE i = n + 1
      BY <1>1, <2>1
    <2>2. CASE i # n + 1
      <3>1. i \in 0 .. n /\ (i # 0 => i - 1 \in 0 .. n + 1 /\ i - 1 # n + 1 /\ i \in 1 .. n)
        BY <1>1, <2>2
      <3>2. f[i] = IF i = 0 THEN s ELSE WithItem(f[i - 1], items[i])
        BY <1>2, <3>1 DEF Shows, n
      <3> QED
        BY <1>1, <2>2, <3>1, <3>2
    <2> QED
      BY <2>1, <2>2
  <1>4. g = [i \in 0 .. n + 1 |-> g[i]] /\ g[n + 1] = WithItem(f[n], x)
    BY <1>1
  <1> HIDE DEF g
  <1>5. Shows(g, s, more)
    BY <1>1, <1>3, <1>4 DEF Shows
  <1>6. AfterItems(s, more) = g[n + 1]
    BY <1>1, <1>5, AfterItemsIs
  <1>7. AfterItems(s, items) = f[n]
    BY <1>2, AfterItemsIs DEF n
  <1> QED
    BY <1>4, <1>6, <1>7 DEF more

(* ... and to show the first one now changes nothing in the end.           *)
LEMMA FirstItem ==
  ASSUME NEW T, NEW items \in Seq(T), items # <<>>, NEW s
  PROVE  AfterItems(WithItem(s, Head(items)), Tail(items)) = AfterItems(s, items)
  <1> DEFINE rest == Tail(items)
             t == WithItem(s, Head(items))
             n == Len(items)
  <1>1. /\ rest \in Seq(T) /\ n \in Nat \ {0} /\ Len(rest) = n - 1 /\ Head(items) = items[1]
        /\ \A i \in 1 .. n - 1 : rest[i] = items[i + 1]
    OBVIOUS
  <1>2. PICK f : Shows(f, t, rest)
    BY <1>1, ShowsExists
  <1>3. \A i \in 0 .. n - 1 : f[i] = IF i = 0 THEN t ELSE WithItem(f[i - 1], rest[i])
    BY <1>1, <1>2 DEF Shows
  <1> DEFINE g == [i \in 0 .. n |-> IF i = 0 THEN s ELSE f[i - 1]]
  <1>4. t = WithItem(s, items[1])
    BY <1>1
  <1> HIDE DEF n, rest, t
  <1>5. ASSUME NEW i \in 0 .. n
        PROVE g[i] = IF i = 0 THEN s ELSE WithItem(g[i - 1], items[i])
    <2>1. CASE i = 0
      BY <1>1, <2>1
    <2>2. CASE i = 1
      <3>1. g[i] = f[0] /\ g[i - 1] = s /\ f[0] = t
        BY <1>1, <1>3, <2>2
      <3> QED
        BY <1>4, <2>2, <3>1
    <2>3. CASE i # 0 /\ i # 1
      <3>1. i - 1 \in 1 .. n - 1 /\ i - 1 \in 0 .. n - 1 /\ i - 1 \in 0 .. n /\ i - 1 # 0
        BY <1>1, <2>3
      <3>2. g[i] = f[i - 1] /\ g[i - 1] = f[(i - 1) - 1] /\ rest[i - 1] = items[i]
        BY <1>1, <2>3, <3>1
      <3>3. f[i - 1] = WithItem(f[(i - 1) - 1], rest[i - 1])
        BY <1>3, <3>1
      <3> QED
        BY <2>3, <3>2, <3>3
    <2> QED
      BY <2>1, <2>2, <2>3
  <1>6. g = [i \in 0 .. n |-> g[i]] /\ g[n] = f[n - 1]
    BY <1>1
  <1> HIDE DEF g
  <1>7. Shows(g, s, items)
    BY <1>5, <1>6 DEF Shows, n
  <1>8. AfterItems(s, items) = g[n]
    BY <1>7, AfterItemsIs DEF n
  <1>9. AfterItems(t, rest) = f[n - 1]
    BY <1>1, <1>2, AfterItemsIs
  <1> QED
    BY <1>6, <1>8, <1>9 DEF t, rest

(* What the screen makes of an item does not depend on its history.        *)
LEMMA AloneAside ==
  ASSUME NEW items \in Seq(Item), NEW s,
         NEW others, others = [i \in DOMAIN items |-> [items[i] EXCEPT !.alone = FALSE]]
  PROVE  AfterItems(s, others) = AfterItems(s, items)
  <1> DEFINE n == Len(items)
  <1>1. n \in Nat /\ DOMAIN items = 1 .. n
    OBVIOUS
  <1>2. ASSUME NEW i \in 1 .. n
        PROVE  /\ others[i] \in Item
               /\ \A x : WithItem(x, others[i]) = WithItem(x, items[i])
    <2>1. items[i] \in Item
      OBVIOUS
    <2>2. others[i] = [items[i] EXCEPT !.alone = FALSE]
      BY <1>1
    <2>3. /\ others[i].type = items[i].type /\ others[i].tag = items[i].tag
          /\ others[i].bill = items[i].bill /\ others[i].asker = items[i].asker
          /\ others[i] \in Item
      BY <2>1, <2>2 DEF Item
    <2>4. ASSUME NEW x PROVE WithItem(x, others[i]) = WithItem(x, items[i])
      <3>1. WithGood(x.scr, others[i]) = WithGood(x.scr, items[i])
        BY <2>3 DEF WithGood
      <3>2. AfterItem(x.scr, others[i]) = AfterItem(x.scr, items[i])
        BY <2>3, <3>1 DEF AfterItem
      <3>3. Bill(others[i].asker, x.scr.dAllCount) = Bill(items[i].asker, x.scr.dAllCount)
        BY <2>3
      <3> DEFINE Due(item) == IF item.type = "REQUEST_TO_PAY"
                              THEN Append(x.due, Bill(item.asker, x.scr.dAllCount)) ELSE x.due
      <3>4. Due(others[i]) = Due(items[i])
        BY <2>3, <3>3
      <3>5. \A item : WithItem(x, item) = [scr |-> AfterItem(x.scr, item), due |-> Due(item)]
        BY DEF WithItem
      <3> HIDE DEF Due
      <3> QED
        BY <3>2, <3>4, <3>5
    <2> QED
      BY <2>3, <2>4
  <1>3. others \in Seq(Item) /\ Len(others) = n
    <2>1. others \in [1 .. n -> Item]
      BY <1>1, <1>2
    <2> QED
      BY <1>1, <2>1
  <1>4. PICK f : Shows(f, s, items)
    BY ShowsExists
  <1> HIDE DEF n
  <1>5. ASSUME NEW i \in 0 .. n
        PROVE f[i] = IF i = 0 THEN s ELSE WithItem(f[i - 1], others[i])
    <2>1. f[i] = IF i = 0 THEN s ELSE WithItem(f[i - 1], items[i])
      BY <1>4 DEF Shows, n
    <2>2. i # 0 => i \in 1 .. n
      BY <1>1
    <2> QED
      BY <1>2, <2>1, <2>2
  <1>6. f = [i \in 0 .. n |-> f[i]]
    BY <1>4 DEF Shows, n
  <1>7. Shows(f, s, others)
    BY <1>3, <1>5, <1>6 DEF Shows
  <1> QED
    BY <1>3, <1>4, <1>7, AfterItemsIs DEF n

-----------------------------------------------------------------------------
(* The sum of a list of goods, taken in the same way.                      *)
Adds(f, goods) ==
  f = [i \in 0 .. Len(goods) |-> IF i = 0 THEN 0 ELSE f[i - 1] + Price[goods[i]]]

(* There is a function of the partial sums of a list, up to its end.       *)
LEMMA AddsExists ==
  ASSUME NEW T, NEW goods \in Seq(T)
  PROVE  \E f : Adds(f, goods)
  <1> DEFINE n == Len(goods)
             Good(i, f) == f = [j \in 0 .. i |-> IF j = 0 THEN 0 ELSE f[j - 1] + Price[goods[j]]]
             S == {i \in Nat : \E f : Good(i, f)}
  <1>1. n \in Nat
    OBVIOUS
  <1>2. 0 \in S
    <2>1. Good(0, [j \in 0 .. 0 |-> 0])
      OBVIOUS
    <2> QED
      BY <2>1
  <1>3. ASSUME NEW i \in Nat, i < n, i \in S PROVE i + 1 \in S
    <2>1. PICK f : Good(i, f)
      BY <1>3
    <2> DEFINE g == [j \in 0 .. i + 1 |-> IF j = i + 1 THEN f[i] + Price[goods[j]] ELSE f[j]]
    <2>2. ASSUME NEW j \in 0 .. i + 1
          PROVE g[j] = IF j = 0 THEN 0 ELSE g[j - 1] + Price[goods[j]]
      <3>1. CASE j = i + 1
        BY <3>1
      <3>2. CASE j # i + 1
        <4>1. j \in 0 .. i /\ (j # 0 => j - 1 \in 0 .. i + 1 /\ j - 1 # i + 1)
          BY <3>2
        <4>2. f[j] = IF j = 0 THEN 0 ELSE f[j - 1] + Price[goods[j]]
          BY <2>1, <4>1
        <4> QED
          BY <3>2, <4>1, <4>2
      <3> QED
        BY <3>1, <3>2
    <2>3. g = [j \in 0 .. i + 1 |-> IF j = 0 THEN 0 ELSE g[j - 1] + Price[goods[j]]]
      <3> HIDE DEF g
      <3>1. g = [j \in 0 .. i + 1 |-> g[j]]
        BY DEF g
      <3> QED
        BY <2>2, <3>1
    <2>4. Good(i + 1, g)
      BY <2>3
    <2> HIDE DEF g, Good
    <2> QED
      BY <2>4
  <1> HIDE DEF S, n, Good
  <1>4. 0 .. n \subseteq S
    BY <1>1, <1>2, <1>3, UpTo
  <1>5. n \in S
    BY <1>1, <1>4
  <1> QED
    BY <1>5, Zenon DEF S, Adds, n, Good

(* A sum is the last value of any such function: there is only one.        *)
LEMMA SumIs ==
  ASSUME NEW T, NEW goods \in Seq(T), NEW f, Adds(f, goods)
  PROVE  Book!Sum(goods) = f[Len(goods)]
  <1> DEFINE n == Len(goods)
             c == CHOOSE g : g = [i \in 0 .. Len(goods) |->
                                   IF i = 0 THEN 0 ELSE g[i - 1] + Price[goods[i]]]
             S == {i \in Nat : i <= n => f[i] = c[i]}
  <1>1. Adds(c, goods)
    BY AddsExists, Zenon DEF Adds
  <1>2. Book!Sum(goods) = c[n]
    BY Zenon DEF Book!Sum
  <1>3. n \in Nat
    OBVIOUS
  <1> HIDE DEF c
  <1>4. ASSUME NEW i \in 0 .. n
        PROVE  /\ f[i] = IF i = 0 THEN 0 ELSE f[i - 1] + Price[goods[i]]
               /\ c[i] = IF i = 0 THEN 0 ELSE c[i - 1] + Price[goods[i]]
    BY <1>1 DEF Adds
  <1>5. 0 \in S
    BY <1>3, <1>4
  <1>6. ASSUME NEW i \in Nat, i < n, i \in S PROVE i + 1 \in S
    BY <1>3, <1>4, <1>6
  <1>7. 0 .. n \subseteq S
    <2> HIDE DEF S
    <2> QED BY <1>3, <1>5, <1>6, UpTo
  <1> QED
    BY <1>2, <1>3, <1>7

(* Nothing costs nothing, and a good more costs its price more.            *)
LEMMA SumNothing == Book!Sum(<<>>) = 0
  <1>1. <<>> \in Seq(Tag) /\ Len(<<>>) = 0
    OBVIOUS
  <1>2. PICK f : Adds(f, <<>>)
    BY <1>1, AddsExists
  <1>3. f[0] = 0
    BY <1>1, <1>2 DEF Adds
  <1> QED
    BY <1>1, <1>2, <1>3, SumIs

(* One more good adds its price to the sum.                                *)
LEMMA SumMore ==
  ASSUME NEW goods \in Seq(Tag), NEW t \in Tag
  PROVE  Book!Sum(Append(goods, t)) = Book!Sum(goods) + Price[t]
  <1> DEFINE n == Len(goods)
             more == Append(goods, t)
  <1>1. /\ more \in Seq(Tag) /\ n \in Nat /\ Len(more) = n + 1 /\ more[n + 1] = t
        /\ \A i \in 1 .. n : more[i] = goods[i]
    OBVIOUS
  <1>2. PICK f : Adds(f, goods)
    BY AddsExists
  <1> HIDE DEF n, more
  <1> DEFINE g == [i \in 0 .. n + 1 |-> IF i = n + 1 THEN f[n] + Price[t] ELSE f[i]]
  <1>3. ASSUME NEW i \in 0 .. n + 1
        PROVE g[i] = IF i = 0 THEN 0 ELSE g[i - 1] + Price[more[i]]
    <2>1. CASE i = n + 1
      BY <1>1, <2>1
    <2>2. CASE i # n + 1
      <3>1. i \in 0 .. n /\ (i # 0 => i - 1 \in 0 .. n + 1 /\ i - 1 # n + 1 /\ i \in 1 .. n)
        BY <1>1, <2>2
      <3>2. f[i] = IF i = 0 THEN 0 ELSE f[i - 1] + Price[goods[i]]
        BY <1>2, <3>1 DEF Adds, n
      <3> QED
        BY <1>1, <2>2, <3>1, <3>2
    <2> QED
      BY <2>1, <2>2
  <1>4. g = [i \in 0 .. n + 1 |-> g[i]] /\ g[n + 1] = f[n] + Price[t]
    BY <1>1
  <1> HIDE DEF g
  <1>5. Adds(g, more)
    BY <1>1, <1>3, <1>4 DEF Adds
  <1>6. Book!Sum(more) = g[n + 1]
    BY <1>1, <1>5, SumIs
  <1>7. Book!Sum(goods) = f[n]
    BY <1>2, SumIs DEF n
  <1> QED
    BY <1>4, <1>6, <1>7 DEF more

(* A sum is a number, and 0 only if nothing with a price is added.         *)
LEMMA SumNat ==
  ASSUME NEW goods \in Seq(Priced)
  PROVE  Book!Sum(goods) \in Nat /\ (goods # <<>> => Book!Sum(goods) > 0)
  <1> DEFINE n == Len(goods)
  <1>1. n \in Nat /\ \A i \in 1 .. n : Price[goods[i]] \in Nat \ {0}
    <2>1. \A i \in 1 .. n : goods[i] \in Tag /\ Price[goods[i]] > 0
      BY DEF Priced
    <2> QED
      BY <2>1
  <1>2. PICK f : Adds(f, goods)
    BY AddsExists
  <1>3. \A i \in 0 .. n : f[i] = IF i = 0 THEN 0 ELSE f[i - 1] + Price[goods[i]]
    BY <1>2 DEF Adds
  <1> DEFINE S == {i \in Nat : i <= n => f[i] \in Nat /\ (i # 0 => f[i] > 0)}
  <1>4. 0 \in S
    BY <1>1, <1>3
  <1>5. ASSUME NEW i \in Nat, i < n, i \in S PROVE i + 1 \in S
    <2>1. /\ f[i] \in Nat /\ i + 1 \in 0 .. n /\ i + 1 \in 1 .. n /\ (i + 1) - 1 = i
          /\ i + 1 # 0
      BY <1>1, <1>5
    <2>2. f[i + 1] = f[i] + Price[goods[i + 1]] /\ Price[goods[i + 1]] \in Nat \ {0}
      BY <1>1, <1>3, <2>1
    <2> QED
      BY <2>1, <2>2
  <1>6. 0 .. n \subseteq S
    <2> HIDE DEF S, n
    <2> QED BY <1>1, <1>4, <1>5, UpTo
  <1>7. f[n] \in Nat /\ (n # 0 => f[n] > 0)
    BY <1>1, <1>6
  <1>8. Book!Sum(goods) = f[n]
    BY <1>2, SumIs
  <1>9. goods # <<>> => n # 0
    OBVIOUS
  <1> QED
    BY <1>7, <1>8, <1>9

-----------------------------------------------------------------------------
(* The goods with a price on a list, taken in the same way once more.      *)
Reads(f, text) ==
  f = [i \in 0 .. Len(text) |-> IF i = 0 THEN <<>> ELSE WithTag(f[i - 1], text[i].tag)]

(* There is a function that reads the goods of a text item by item.        *)
LEMMA ReadsExists ==
  ASSUME NEW T, NEW text \in Seq(T)
  PROVE  \E f : Reads(f, text)
  <1> DEFINE n == Len(text)
             Good(i, f) == f = [j \in 0 .. i |->
                                  IF j = 0 THEN <<>> ELSE WithTag(f[j - 1], text[j].tag)]
             S == {i \in Nat : \E f : Good(i, f)}
  <1>1. n \in Nat
    OBVIOUS
  <1>2. 0 \in S
    <2>1. Good(0, [j \in 0 .. 0 |-> <<>>])
      OBVIOUS
    <2> QED
      BY <2>1
  <1>3. ASSUME NEW i \in Nat, i < n, i \in S PROVE i + 1 \in S
    <2>1. PICK f : Good(i, f)
      BY <1>3
    <2> DEFINE g == [j \in 0 .. i + 1 |-> IF j = i + 1 THEN WithTag(f[i], text[j].tag) ELSE f[j]]
    <2>2. ASSUME NEW j \in 0 .. i + 1
          PROVE g[j] = IF j = 0 THEN <<>> ELSE WithTag(g[j - 1], text[j].tag)
      <3>1. CASE j = i + 1
        BY <3>1
      <3>2. CASE j # i + 1
        <4>1. j \in 0 .. i /\ (j # 0 => j - 1 \in 0 .. i + 1 /\ j - 1 # i + 1)
          BY <3>2
        <4>2. f[j] = IF j = 0 THEN <<>> ELSE WithTag(f[j - 1], text[j].tag)
          BY <2>1, <4>1
        <4> QED
          BY <3>2, <4>1, <4>2
      <3> QED
        BY <3>1, <3>2
    <2>3. g = [j \in 0 .. i + 1 |-> IF j = 0 THEN <<>> ELSE WithTag(g[j - 1], text[j].tag)]
      <3> HIDE DEF g
      <3>1. g = [j \in 0 .. i + 1 |-> g[j]]
        BY DEF g
      <3> QED
        BY <2>2, <3>1
    <2>4. Good(i + 1, g)
      BY <2>3
    <2> HIDE DEF g, Good
    <2> QED
      BY <2>4
  <1> HIDE DEF S, n, Good
  <1>4. 0 .. n \subseteq S
    BY <1>1, <1>2, <1>3, UpTo
  <1>5. n \in S
    BY <1>1, <1>4
  <1> QED
    BY <1>5, Zenon DEF S, Reads, n, Good

(* The goods of a text are the last value of any such function.            *)
LEMMA GoodsOnIs ==
  ASSUME NEW T, NEW text \in Seq(T), NEW f, Reads(f, text)
  PROVE  GoodsOn(text) = f[Len(text)]
  <1> DEFINE n == Len(text)
             c == CHOOSE g : g = [i \in 0 .. Len(text) |->
                                   IF i = 0 THEN <<>> ELSE WithTag(g[i - 1], text[i].tag)]
             S == {i \in Nat : i <= n => f[i] = c[i]}
  <1>1. Reads(c, text)
    BY ReadsExists, Zenon DEF Reads
  <1>2. GoodsOn(text) = c[n]
    BY Zenon DEF GoodsOn
  <1>3. n \in Nat
    OBVIOUS
  <1> HIDE DEF c
  <1>4. ASSUME NEW i \in 0 .. n
        PROVE  /\ f[i] = IF i = 0 THEN <<>> ELSE WithTag(f[i - 1], text[i].tag)
               /\ c[i] = IF i = 0 THEN <<>> ELSE WithTag(c[i - 1], text[i].tag)
    BY <1>1 DEF Reads
  <1>5. 0 \in S
    BY <1>3, <1>4
  <1>6. ASSUME NEW i \in Nat, i < n, i \in S PROVE i + 1 \in S
    BY <1>3, <1>4, <1>6
  <1>7. 0 .. n \subseteq S
    <2> HIDE DEF S
    <2> QED BY <1>3, <1>5, <1>6, UpTo
  <1> QED
    BY <1>2, <1>3, <1>7

(* There are no goods on an empty screen.                                  *)
LEMMA GoodsOnNothing == GoodsOn(<<>>) = <<>>
  <1>1. <<>> \in Seq(Tag) /\ Len(<<>>) = 0
    OBVIOUS
  <1>2. PICK f : Reads(f, <<>>)
    BY <1>1, ReadsExists
  <1>3. f[0] = <<>>
    BY <1>1, <1>2 DEF Reads
  <1> QED
    BY <1>1, <1>2, <1>3, GoodsOnIs

(* One more line on the screen is one more good, if it costs something.    *)
LEMMA GoodsOnMore ==
  ASSUME NEW T, NEW text \in Seq(T), NEW x \in T
  PROVE  GoodsOn(Append(text, x)) = WithTag(GoodsOn(text), x.tag)
  <1> DEFINE n == Len(text)
             more == Append(text, x)
  <1>1. /\ more \in Seq(T) /\ n \in Nat /\ Len(more) = n + 1 /\ more[n + 1] = x
        /\ \A i \in 1 .. n : more[i] = text[i]
    OBVIOUS
  <1>2. PICK f : Reads(f, text)
    BY ReadsExists
  <1> HIDE DEF n, more
  <1> DEFINE g == [i \in 0 .. n + 1 |-> IF i = n + 1 THEN WithTag(f[n], x.tag) ELSE f[i]]
  <1>3. ASSUME NEW i \in 0 .. n + 1
        PROVE g[i] = IF i = 0 THEN <<>> ELSE WithTag(g[i - 1], more[i].tag)
    <2>1. CASE i = n + 1
      BY <1>1, <2>1
    <2>2. CASE i # n + 1
      <3>1. i \in 0 .. n /\ (i # 0 => i - 1 \in 0 .. n + 1 /\ i - 1 # n + 1 /\ i \in 1 .. n)
        BY <1>1, <2>2
      <3>2. f[i] = IF i = 0 THEN <<>> ELSE WithTag(f[i - 1], text[i].tag)
        BY <1>2, <3>1 DEF Reads, n
      <3> QED
        BY <1>1, <2>2, <3>1, <3>2
    <2> QED
      BY <2>1, <2>2
  <1>4. g = [i \in 0 .. n + 1 |-> g[i]] /\ g[n + 1] = WithTag(f[n], x.tag)
    BY <1>1
  <1> HIDE DEF g
  <1>5. Reads(g, more)
    BY <1>1, <1>3, <1>4 DEF Reads
  <1>6. GoodsOn(more) = g[n + 1]
    BY <1>1, <1>5, GoodsOnIs
  <1>7. GoodsOn(text) = f[n]
    BY <1>2, GoodsOnIs DEF n
  <1> QED
    BY <1>4, <1>6, <1>7 DEF more

(* A list of goods with prices stays one, and a good with a price makes it *)
(* longer.                                                                 *)
LEMMA TagKept ==
  ASSUME NEW goods \in Seq(Priced), NEW t
  PROVE  WithTag(goods, t) \in Seq(Priced) /\ (t \in Priced => WithTag(goods, t) # <<>>)
  <1>1. CASE t \in Priced
    <2>1. WithTag(goods, t) = Append(goods, t)
      BY <1>1 DEF WithTag
    <2> QED
      BY <1>1, <2>1, AppendProperties
  <1>2. CASE t \notin Priced
    BY <1>2 DEF WithTag
  <1> QED
    BY <1>1, <1>2

(* They have a price, and are missing only if nothing on the list has one. *)
LEMMA GoodsOnPriced ==
  ASSUME NEW text \in Seq([tag : Tag, bill : Nat])
  PROVE  /\ GoodsOn(text) \in Seq(Priced)
         /\ \A k \in 1 .. Len(text) : text[k].tag \in Priced => GoodsOn(text) # <<>>
  <1> DEFINE n == Len(text)
  <1>1. n \in Nat
    OBVIOUS
  <1>2. PICK f : Reads(f, text)
    BY ReadsExists
  <1>3. \A i \in 0 .. n : f[i] = IF i = 0 THEN <<>> ELSE WithTag(f[i - 1], text[i].tag)
    BY <1>2 DEF Reads
  <1> DEFINE Fine(i) == /\ f[i] \in Seq(Priced)
                        /\ \A k \in 1 .. i : text[k].tag \in Priced => f[i] # <<>>
             R == {i \in Nat : i <= n => Fine(i)}
  <1>4. 0 \in R
    <2>1. f[0] = <<>> /\ <<>> \in Seq(Priced)
      BY <1>1, <1>3
    <2>2. Fine(0)
      BY <2>1
    <2> HIDE DEF Fine
    <2> QED
      BY <2>2
  <1>5. ASSUME NEW i \in Nat, i < n, i \in R PROVE i + 1 \in R
    <2>1. Fine(i) /\ i + 1 \in 0 .. n /\ (i + 1) - 1 = i /\ i + 1 # 0
      BY <1>1, <1>5
    <2>2. f[i + 1] = WithTag(f[i], text[i + 1].tag)
      BY <1>3, <2>1
    <2>3. \A k \in 1 .. i + 1 : k \in 1 .. i \/ k = i + 1
      OBVIOUS
    <2>4. CASE text[i + 1].tag \in Priced
      <3>2. f[i + 1] \in Seq(Priced) /\ f[i + 1] # <<>>
        BY <2>1, <2>2, <2>4, TagKept
      <3>3. Fine(i + 1)
        BY <3>2
      <3> HIDE DEF Fine
      <3> QED
        BY <3>3
    <2>5. CASE text[i + 1].tag \notin Priced
      <3>1. f[i + 1] = f[i]
        BY <2>2, <2>5 DEF WithTag
      <3>2. Fine(i + 1)
        BY <2>1, <2>3, <2>5, <3>1
      <3> HIDE DEF Fine
      <3> QED
        BY <3>2
    <2> QED
      BY <2>4, <2>5
  <1>6. 0 .. n \subseteq R
    <2> HIDE DEF R, n
    <2> QED BY <1>1, <1>4, <1>5, UpTo
  <1> HIDE DEF Fine
  <1>7. Fine(n)
    BY <1>1, <1>6
  <1> QED
    BY <1>2, <1>7, GoodsOnIs DEF Fine

-----------------------------------------------------------------------------
(* The sum the display keeps is that of the list it shows.                 *)
Screen == [text : Seq([tag : Tag, bill : Nat]), dAllCount : Nat]
Honest(scr) == scr.dAllCount = Book!Sum(GoodsOn(scr.text))
HonestScreen == Honest(screen)

IsItem(item) == item \in Item /\ (item.type = "EPC_AUTO" => item.tag \in Tag)
Dues == Seq([asker : Asker, amount : Nat])

(* An item of goods with a price is one good more on the bill, also when   *)
(* the list is cleared for it; any other item of goods changes no sum.     *)
LEMMA ItemHonest ==
  ASSUME NEW scr \in Screen, Honest(scr), NEW item, IsItem(item)
  PROVE  /\ AfterItem(scr, item) \in Screen /\ Honest(AfterItem(scr, item))
         /\ GoodsOn(AfterItem(scr, item).text) =
              IF item.type = "EPC_AUTO" THEN WithTag(GoodsOn(scr.text), item.tag) ELSE <<>>
  <1>1. item \in Item /\ AfterItem(scr, item) \in Screen
    BY ItemTyped DEF Screen, IsItem
  <1>2. CASE item.type = "EPC_AUTO"
    <2> DEFINE x == [tag |-> item.tag, bill |-> item.bill]
               shown == IF scr.dAllCount = 0 THEN <<>> ELSE scr.text
    <2>1. item.tag \in Tag /\ item.bill \in Nat /\ x \in [tag : Tag, bill : Nat] /\ x.tag = item.tag
      BY <1>1, <1>2 DEF IsItem, Item
    <2>2. scr.text \in Seq([tag : Tag, bill : Nat]) /\ shown \in Seq([tag : Tag, bill : Nat])
      BY DEF Screen
    <2>3. AfterItem(scr, item) = [text |-> Append(shown, x),
                                  dAllCount |-> scr.dAllCount + Price[item.tag]]
      BY <1>2 DEF AfterItem, WithGood
    <2>4. GoodsOn(scr.text) \in Seq(Priced) /\ GoodsOn(scr.text) \in Seq(Tag)
      <3>1. GoodsOn(scr.text) \in Seq(Priced)
        BY <2>2, GoodsOnPriced
      <3>2. Priced \subseteq Tag
        BY DEF Priced
      <3> QED
        BY <3>1, <3>2, SeqMonotonic
    <2>5. GoodsOn(shown) = GoodsOn(scr.text)
      <3>1. CASE scr.dAllCount = 0
        <4> DEFINE goods == GoodsOn(scr.text)
        <4>0. goods \in Seq(Priced) /\ Book!Sum(goods) = 0
          BY <2>4, <3>1 DEF Honest
        <4> HIDE DEF goods
        <4>1. goods = <<>>
          BY <4>0, SumNat
        <4> QED
          BY <3>1, <4>1, GoodsOnNothing DEF goods
      <3>2. CASE scr.dAllCount # 0
        BY <3>2
      <3> QED
        BY <3>1, <3>2
    <2> HIDE DEF x, shown
    <2>6. GoodsOn(Append(shown, x)) = WithTag(GoodsOn(scr.text), item.tag)
      BY <2>1, <2>2, <2>5, GoodsOnMore
    <2>7. Book!Sum(WithTag(GoodsOn(scr.text), item.tag)) = Book!Sum(GoodsOn(scr.text)) + Price[item.tag]
      <3>1. CASE item.tag \in Priced
        <4>1. WithTag(GoodsOn(scr.text), item.tag) = Append(GoodsOn(scr.text), item.tag)
          BY <3>1 DEF WithTag
        <4> QED
          BY <2>1, <2>4, <4>1, SumMore
      <3>2. CASE item.tag \notin Priced
        <4>1. WithTag(GoodsOn(scr.text), item.tag) = GoodsOn(scr.text)
          BY <3>2 DEF WithTag
        <4>2. Price[item.tag] = 0
          BY <2>1, <3>2 DEF Priced
        <4>3. Book!Sum(GoodsOn(scr.text)) \in Nat
          BY <2>4, SumNat
        <4> QED
          BY <4>1, <4>2, <4>3
      <3> QED
        BY <3>1, <3>2
    <2>8. Honest(AfterItem(scr, item))
      BY <2>3, <2>6, <2>7 DEF Honest
    <2> QED
      BY <1>1, <1>2, <2>3, <2>6, <2>8
  <1>3. CASE item.type # "EPC_AUTO"
    <2>1. AfterItem(scr, item) = [text |-> <<>>, dAllCount |-> 0]
      BY <1>3 DEF AfterItem
    <2> QED
      BY <1>1, <1>3, <2>1, GoodsOnNothing, SumNothing DEF Honest
  <1> QED
    BY <1>2, <1>3

(* What the items that wait make of an honest screen is one, and what is   *)
(* due stays due.                                                          *)
LEMMA ItemsHonest ==
  ASSUME NEW items \in Seq(Item), \A i \in 1 .. Len(items) : IsItem(items[i]),
         NEW s, s.scr \in Screen, Honest(s.scr), s.due \in Dues,
         NEW f, Shows(f, s, items), NEW i \in 0 .. Len(items)
  PROVE  /\ f[i].scr \in Screen /\ Honest(f[i].scr) /\ f[i].due \in Dues
         /\ s.due # <<>> => f[i].due # <<>>
  <1> DEFINE n == Len(items)
             Fine(x) == /\ x.scr \in Screen /\ Honest(x.scr) /\ x.due \in Dues
                        /\ s.due # <<>> => x.due # <<>>
             S == {j \in Nat : j <= n => Fine(f[j])}
  <1>1. n \in Nat
    OBVIOUS
  <1>2. \A j \in 0 .. n : f[j] = IF j = 0 THEN s ELSE WithItem(f[j - 1], items[j])
    BY DEF Shows
  <1>3. 0 \in S
    <2>1. f[0] = s
      BY <1>1, <1>2
    <2> QED
      BY <2>1
  <1>4. ASSUME NEW j \in Nat, j < n, j \in S PROVE j + 1 \in S
    <2>1. /\ Fine(f[j]) /\ j + 1 \in 0 .. n /\ (j + 1) - 1 = j /\ j + 1 # 0 /\ j + 1 \in 1 .. n
      BY <1>1, <1>4
    <2> DEFINE x == f[j]
               item == items[j + 1]
    <2>2. f[j + 1] = WithItem(x, item) /\ IsItem(item)
      BY <1>2, <2>1
    <2>3. /\ f[j + 1].scr = AfterItem(x.scr, item)
          /\ f[j + 1].due = IF item.type = "REQUEST_TO_PAY"
                            THEN Append(x.due, Bill(item.asker, x.scr.dAllCount)) ELSE x.due
      BY <2>2 DEF WithItem
    <2>4. f[j + 1].scr \in Screen /\ Honest(f[j + 1].scr)
      BY <2>1, <2>2, <2>3, ItemHonest
    <2>5. Bill(item.asker, x.scr.dAllCount) \in [asker : Asker, amount : Nat]
      BY <2>1, <2>2 DEF IsItem, Item, Screen, Bill
    <2>6. f[j + 1].due \in Dues /\ (x.due # <<>> => f[j + 1].due # <<>>)
      <3> HIDE DEF x, item
      <3>1. x.due \in Dues
        BY <2>1 DEF x
      <3>2. CASE item.type = "REQUEST_TO_PAY"
        <4> DEFINE b == Bill(item.asker, x.scr.dAllCount)
        <4>1. f[j + 1].due = Append(x.due, b)
          BY <2>3, <3>2
        <4>2. b \in [asker : Asker, amount : Nat]
          BY <2>5
        <4> HIDE DEF b
        <4>3. Append(x.due, b) \in Dues /\ Append(x.due, b) # <<>>
          BY <3>1, <4>2, AppendProperties DEF Dues
        <4> QED
          BY <4>1, <4>3
      <3>3. CASE item.type # "REQUEST_TO_PAY"
        BY <2>3, <3>1, <3>3
      <3> QED
        BY <3>2, <3>3
    <2>7. Fine(f[j + 1])
      BY <2>1, <2>4, <2>6
    <2> HIDE DEF Fine
    <2> QED
      BY <2>7
  <1>5. 0 .. n \subseteq S
    <2> HIDE DEF S, n
    <2> QED BY <1>1, <1>3, <1>4, UpTo
  <1> HIDE DEF Fine
  <1>6. Fine(f[i])
    BY <1>1, <1>5
  <1> QED
    BY <1>6 DEF Fine

(* However many items are taken, the sum of the screen stays that of its   *)
(* list.                                                                   *)
LEMMA AfterItemsHonest ==
  ASSUME NEW items \in Seq(Item), \A i \in 1 .. Len(items) : IsItem(items[i]),
         NEW s, s.scr \in Screen, Honest(s.scr), s.due \in Dues
  PROVE  /\ AfterItems(s, items).scr \in Screen /\ Honest(AfterItems(s, items).scr)
         /\ AfterItems(s, items).due \in Dues
  <1>1. PICK f : Shows(f, s, items)
    BY ShowsExists
  <1>2. AfterItems(s, items) = f[Len(items)]
    BY <1>1, AfterItemsIs
  <1>3. Len(items) \in 0 .. Len(items)
    OBVIOUS
  <1> QED
    BY <1>1, <1>2, <1>3, ItemsHonest

(* What is passed on first is what is due first.                           *)
LEMMA FirstDue ==
  ASSUME NEW items \in Seq(Item), \A i \in 1 .. Len(items) : IsItem(items[i]),
         NEW scr \in Screen, Honest(scr), NEW due \in Dues, due # <<>>
  PROVE  LET all  == AfterItems([scr |-> scr, due |-> due], items)
             less == AfterItems([scr |-> scr, due |-> Tail(due)], items)
         IN  less.scr = all.scr /\ all.due # <<>> /\ less.due = Tail(all.due)
  <1> DEFINE n == Len(items)
             s == [scr |-> scr, due |-> due]
             t == [scr |-> scr, due |-> Tail(due)]
  <1>1. s.scr = scr /\ s.due = due /\ n \in Nat /\ n \in 0 .. n
    OBVIOUS
  <1>2. PICK f : Shows(f, s, items)
    BY ShowsExists
  <1> DEFINE g == [i \in 0 .. n |-> [scr |-> f[i].scr, due |-> Tail(f[i].due)]]
  <1>3. ASSUME NEW i \in 0 .. n
        PROVE  /\ f[i] = IF i = 0 THEN s ELSE WithItem(f[i - 1], items[i])
               /\ f[i].due \in Dues /\ f[i].due # <<>>
    <2> HIDE DEF s
    <2>1. f[i] = IF i = 0 THEN s ELSE WithItem(f[i - 1], items[i])
      BY <1>2 DEF Shows
    <2>2. f[i].due \in Dues /\ f[i].due # <<>>
      BY <1>1, <1>2, ItemsHonest
    <2> QED
      BY <2>1, <2>2
  <1>4. ASSUME NEW i \in 0 .. n
        PROVE g[i] = IF i = 0 THEN t ELSE WithItem(g[i - 1], items[i])
    <2>1. CASE i = 0
      BY <1>1, <1>3, <2>1
    <2>2. CASE i # 0
      <3> DEFINE x == f[i - 1]
                 y == g[i - 1]
                 item == items[i]
                 b == Bill(item.asker, x.scr.dAllCount)
      <3>1. i - 1 \in 0 .. n
        BY <1>1, <2>2
      <3>2. x.due \in Dues /\ x.due # <<>> /\ y.scr = x.scr /\ y.due = Tail(x.due)
        BY <1>3, <3>1
      <3>3. f[i] = WithItem(x, item)
        BY <1>3, <2>2
      <3>4. g[i] = [scr |-> f[i].scr, due |-> Tail(f[i].due)]
        OBVIOUS
      <3>5. i \in 1 .. n
        BY <1>1, <2>2
      <3>6. b \in [asker : Asker, amount : Nat]
        <4>1. x.scr \in Screen
          <5> HIDE DEF s
          <5> QED
            BY <1>1, <1>2, <3>1, ItemsHonest
        <4> QED
          BY <3>5, <4>1 DEF IsItem, Item, Screen, Bill
      <3> HIDE DEF x, y, item, b, g, n
      <3>7. Tail(Append(x.due, b)) = Append(Tail(x.due), b)
        BY <3>2, <3>6, HeadTailAppend DEF Dues
      <3>8. WithItem(x, item) = [scr |-> AfterItem(x.scr, item),
                                 due |-> IF item.type = "REQUEST_TO_PAY" THEN Append(x.due, b) ELSE x.due]
        BY DEF WithItem, b
      <3>9. WithItem(y, item) = [scr |-> AfterItem(x.scr, item),
                                 due |-> IF item.type = "REQUEST_TO_PAY" THEN Append(y.due, b) ELSE y.due]
        BY <3>2 DEF WithItem, b
      <3>10. g[i] = WithItem(y, item)
        <4>1. CASE item.type = "REQUEST_TO_PAY"
          <5>1. f[i] = [scr |-> AfterItem(x.scr, item), due |-> Append(x.due, b)]
            BY <3>3, <3>8, <4>1
          <5>2. f[i].scr = AfterItem(x.scr, item) /\ f[i].due = Append(x.due, b)
            BY <5>1
          <5>3. g[i] = [scr |-> AfterItem(x.scr, item), due |-> Append(Tail(x.due), b)]
            BY <3>4, <3>7, <5>2
          <5>4. WithItem(y, item) = [scr |-> AfterItem(x.scr, item), due |-> Append(Tail(x.due), b)]
            BY <3>2, <3>9, <4>1
          <5> QED
            BY <5>3, <5>4
        <4>2. CASE item.type # "REQUEST_TO_PAY"
          BY <3>2, <3>3, <3>4, <3>8, <3>9, <4>2
        <4> QED
          BY <4>1, <4>2
      <3> QED
        BY <2>2, <3>10 DEF y, item
    <2> QED
      BY <2>1, <2>2
  <1>5. g = [i \in 0 .. n |-> g[i]] /\ g[n] = [scr |-> f[n].scr, due |-> Tail(f[n].due)]
    BY <1>1
  <1> HIDE DEF g, s, t
  <1>6. Shows(g, t, items)
    BY <1>4, <1>5 DEF Shows
  <1>7. AfterItems(s, items) = f[n] /\ AfterItems(t, items) = g[n]
    BY <1>2, <1>6, AfterItemsIs
  <1>8. f[n].due # <<>> /\ g[n].scr = f[n].scr /\ g[n].due = Tail(f[n].due)
    BY <1>1, <1>3, <1>5
  <1> QED
    BY <1>7, <1>8 DEF s, t

-----------------------------------------------------------------------------
(* The till is a bill book.                                                *)

(* The confirmations on their way are bills with an asker and an amount.   *)
LEMMA PassedOnTyped == ASSUME TypeOK PROVE PassedOn \in Dues
  <1> DEFINE w == waiting[DisplayConn]
  <1>1. w \in Seq(DisplaySays)
    BY DEF TypeOK
  <1>2. DOMAIN w = 1 .. Len(w) /\ Len(w) \in Nat
    BY <1>1
  <1>3. PassedOn = [i \in 1 .. Len(w) |-> Bill(w[i].asker, w[i].amount)]
    BY <1>2 DEF PassedOn
  <1>4. ASSUME NEW i \in 1 .. Len(w) PROVE Bill(w[i].asker, w[i].amount) \in [asker : Asker, amount : Nat]
    <2>1. w[i] \in DisplaySays
      BY <1>1
    <2> QED
      BY <2>1 DEF DisplaySays, Bill
  <1> HIDE DEF w
  <1> QED
    BY <1>2, <1>3, <1>4 DEF Dues

(* The queue, the screen and the list of what is due are as the lemmas     *)
(* about AfterItems want them.                                             *)
LEMMA EndHonest ==
  ASSUME TypeOK, HonestScreen
  PROVE  /\ cQueue \in Seq(Item) /\ \A i \in 1 .. Len(cQueue) : IsItem(cQueue[i])
         /\ screen \in Screen /\ Honest(screen) /\ PassedOn \in Dues
         /\ InTheEnd.scr \in Screen /\ Honest(InTheEnd.scr) /\ InTheEnd.due \in Dues
  <1>1. cQueue \in Seq(Item) /\ \A i \in 1 .. Len(cQueue) : IsItem(cQueue[i])
    <2>1. /\ cQueue \in Seq(Item)
          /\ \A i \in 1 .. Len(cQueue) : cQueue[i].type = "EPC_AUTO" => cQueue[i].tag \in Tag
      BY DEF TypeOK
    <2> QED
      BY <2>1 DEF IsItem
  <1>2. screen \in Screen /\ Honest(screen)
    BY DEF TypeOK, Screen, HonestScreen
  <1> DEFINE s == [scr |-> screen, due |-> PassedOn]
  <1>3. s.scr = screen /\ s.due = PassedOn /\ PassedOn \in Dues
    BY PassedOnTyped
  <1>4. InTheEnd = AfterItems(s, cQueue)
    BY DEF InTheEnd
  <1> HIDE DEF s
  <1> QED
    BY <1>1, <1>2, <1>3, <1>4, AfterItemsHonest

(* A frame for the screen is one item more in the end; another frame says  *)
(* nothing to the screen.                                                  *)
LEMMA FrameInTheEnd ==
  ASSUME TypeOK, UNCHANGED screen, PassedOn' = PassedOn,
         NEW type, NEW dest, NEW tag \in Tag \union {NOBODY}, NEW bill \in Nat, NEW asker \in Asker,
         OnReceivedFrame(type, dest, tag, bill, asker)
  PROVE  InTheEnd' = IF type \in ForScreen
                     THEN WithItem(InTheEnd, [type |-> type, tag |-> tag, bill |-> bill,
                                              asker |-> asker, alone |-> TRUE])
                     ELSE InTheEnd
  <1> DEFINE before == [i \in DOMAIN cQueue |-> [cQueue[i] EXCEPT !.alone = FALSE]]
             item == [type |-> type, tag |-> tag, bill |-> bill, asker |-> asker, alone |-> TRUE]
             s == [scr |-> screen, due |-> PassedOn]
  <1>1. cQueue \in Seq(Item)
    BY DEF TypeOK
  <1>2. cQueue' = IF type \in ForScreen THEN Append(before, item) ELSE before
    BY DEF OnReceivedFrame
  <1>3. InTheEnd = AfterItems(s, cQueue) /\ InTheEnd' = AfterItems(s, cQueue')
    BY DEF InTheEnd
  <1>4. before \in Seq(Item)
    <2>1. DOMAIN cQueue = 1 .. Len(cQueue) /\ Len(cQueue) \in Nat
      BY <1>1
    <2>2. ASSUME NEW i \in 1 .. Len(cQueue) PROVE [cQueue[i] EXCEPT !.alone = FALSE] \in Item
      <3>1. cQueue[i] \in Item
        BY <1>1
      <3> QED
        BY <3>1 DEF Item
    <2> QED
      BY <2>1, <2>2
  <1>5. type \in ForScreen => item \in Item
    BY DEF Item
  <1>6. AfterItems(s, before) = AfterItems(s, cQueue)
    BY <1>1, AloneAside
  <1> HIDE DEF before, item, s
  <1>7. type \in ForScreen => AfterItems(s, Append(before, item)) = WithItem(AfterItems(s, before), item)
    BY <1>4, <1>5, LastItem
  <1>8. InTheEnd' = IF type \in ForScreen THEN WithItem(InTheEnd, item) ELSE InTheEnd
    BY <1>2, <1>3, <1>6, <1>7
  <1> QED
    BY <1>8 DEF item

(* One item more is a step of the book: a good with a price is put on the  *)
(* bill, a stop clears it, a request to pay closes it.                     *)
LEMMA ItemOnTheBook ==
  ASSUME TypeOK, HonestScreen, NEW item, IsItem(item), InTheEnd' = WithItem(InTheEnd, item)
  PROVE  [Book!Next]_(Book!vars)
  <1>1. InTheEnd.scr \in Screen /\ Honest(InTheEnd.scr)
    BY EndHonest
  <1>2. /\ InTheEnd'.scr = AfterItem(InTheEnd.scr, item)
        /\ InTheEnd'.due = IF item.type = "REQUEST_TO_PAY"
                           THEN Append(InTheEnd.due, Bill(item.asker, InTheEnd.scr.dAllCount))
                           ELSE InTheEnd.due
    BY DEF WithItem
  <1>3. OpenBill = GoodsOn(InTheEnd.scr.text) /\ OpenBill' = GoodsOn(InTheEnd'.scr.text)
    BY DEF OpenBill
  <1>4. OpenBill' = IF item.type = "EPC_AUTO" THEN WithTag(OpenBill, item.tag) ELSE <<>>
    BY <1>1, <1>2, <1>3, ItemHonest
  <1>5. CASE item.type = "EPC_AUTO"
    <2>1. InTheEnd'.due = InTheEnd.due
      BY <1>2, <1>5
    <2>2. CASE item.tag \in Priced
      <3>1. OpenBill' = Append(OpenBill, item.tag)
        BY <1>4, <1>5, <2>2 DEF WithTag
      <3>2. Book!Add(item.tag)
        BY <2>1, <3>1 DEF Book!Add
      <3> QED
        BY <2>2, <3>2 DEF Book!Next
    <2>3. CASE item.tag \notin Priced
      <3>1. OpenBill' = OpenBill
        BY <1>4, <1>5, <2>3 DEF WithTag
      <3> QED
        BY <2>1, <3>1 DEF Book!vars
    <2> QED
      BY <2>2, <2>3
  <1>6. CASE item.type = "REQUEST_TO_PAY"
    <2>1. OpenBill' = <<>>
      BY <1>4, <1>6
    <2>2. InTheEnd'.due = Append(InTheEnd.due, [asker |-> item.asker, amount |-> Book!Sum(OpenBill)])
      BY <1>1, <1>2, <1>3, <1>6 DEF Honest, Bill
    <2>3. item.asker \in Phone \union {NOBODY}
      BY DEF IsItem, Item, Asker
    <2>4. Book!Pay(item.asker)
      BY <2>1, <2>2 DEF Book!Pay
    <2> QED
      BY <2>3, <2>4 DEF Book!Next
  <1>7. CASE item.type \notin {"EPC_AUTO", "REQUEST_TO_PAY"}
    <2>1. OpenBill' = <<>> /\ InTheEnd'.due = InTheEnd.due
      BY <1>2, <1>4, <1>7
    <2>2. Book!Clear
      BY <2>1 DEF Book!Clear
    <2> QED
      BY <2>2 DEF Book!Next
  <1> QED
    BY <1>5, <1>6, <1>7

(* What changes nothing in the end is no step of the book.                 *)
LEMMA NothingOnTheBook ==
  ASSUME InTheEnd' = InTheEnd
  PROVE  [Book!Next]_(Book!vars)
  <1>1. OpenBill' = OpenBill /\ InTheEnd'.due = InTheEnd.due
    BY DEF OpenBill
  <1> QED
    BY <1>1 DEF Book!vars

(* A frame is at most one step of the book.                                *)
LEMMA FrameOnTheBook ==
  ASSUME TypeOK, HonestScreen, UNCHANGED screen, PassedOn' = PassedOn,
         NEW type, NEW dest, NEW tag \in Tag \union {NOBODY}, NEW bill \in Nat, NEW asker \in Asker,
         type = "EPC_AUTO" => tag \in Tag,
         OnReceivedFrame(type, dest, tag, bill, asker)
  PROVE  [Book!Next]_(Book!vars)
  <1> DEFINE item == [type |-> type, tag |-> tag, bill |-> bill, asker |-> asker, alone |-> TRUE]
  <1>1. InTheEnd' = IF type \in ForScreen THEN WithItem(InTheEnd, item) ELSE InTheEnd
    BY FrameInTheEnd
  <1>2. type \in ForScreen => IsItem(item)
    BY DEF IsItem, Item
  <1> HIDE DEF item
  <1> QED
    BY <1>1, <1>2, ItemOnTheBook, NothingOnTheBook

(* What a phone or the console does is out of the book's sight: the        *)
(* display's messages, its queue and its screen stay as they are.          *)
LEMMA PeopleInTheEnd ==
  ASSUME TypeOK,
         \/ \E p \in Phone, button \in {"COMM_EPC_AUTO", "COMM_EPC_AUTO_STOP", "REQUEST_TO_PAY"} :
              OnClick(p, button)
         \/ \E p \in Phone : OnPreviewFrame(p)
         \/ Console
  PROVE  InTheEnd' = InTheEnd
  <1>1. UNCHANGED <<cQueue, screen>>
    BY DEF OnClick, OnPreviewFrame, Console, displayVars
  <1>2. waiting'[DisplayConn] = waiting[DisplayConn]
    <2>1. waiting \in [Sender -> Seq(ClientSays \union DisplaySays)] /\ DisplayConn \in Sender
      BY DEF TypeOK, Sender
    <2>2. ASSUME NEW p \in Phone, NEW msg, Say(p, msg) PROVE waiting'[DisplayConn] = waiting[DisplayConn]
      <3>1. p # DisplayConn
        OBVIOUS
      <3> QED
        BY <2>1, <2>2, <3>1 DEF Say
    <2> QED
      BY <2>2 DEF OnClick, OnPreviewFrame, Console
  <1>3. PassedOn' = PassedOn
    BY <1>2 DEF PassedOn
  <1> QED
    BY <1>1, <1>3 DEF InTheEnd

(* The reader's reports and data are frames for the screen, or none.       *)
LEMMA ReaderOnTheBook ==
  ASSUME TypeOK, HonestScreen, (\E t \in Tag : Report(t)) \/ Obey
  PROVE  [Book!Next]_(Book!vars)
  <1>1. UNCHANGED <<waiting, screen>>
    BY DEF Report, Obey
  <1>2. PassedOn' = PassedOn
    BY <1>1 DEF PassedOn
  <1>3. NothingToDisplay => [Book!Next]_(Book!vars)
    <2>1. NothingToDisplay => InTheEnd' = InTheEnd
      BY <1>1, <1>2 DEF NothingToDisplay, InTheEnd
    <2> QED
      BY <2>1, NothingOnTheBook
  <1>4. NOBODY \in Asker /\ NOBODY \in Tag \union {NOBODY} /\ ends \in Nat /\ scanning \in Nat \union {-1}
    BY DEF Asker, TypeOK
  <1>5. ASSUME NEW t \in Tag, Report(t) PROVE [Book!Next]_(Book!vars)
    <2>1. scanning \in Nat
      BY <1>4, <1>5 DEF Report
    <2>2. CASE OnReceivedFrame("EPC_AUTO", 0, t, scanning, NOBODY)
      BY <1>1, <1>2, <1>4, <2>1, <2>2, FrameOnTheBook
    <2> QED
      BY <1>3, <1>5, <2>2 DEF Report, EpcAuto, EpcAutoAgain
  <1>6. CASE Obey
    <2>1. CASE EpcData
      <3>1. OnReceivedFrame("REQUEST_TO_PAY", 0, NOBODY, ends, NOBODY)
        BY <2>1 DEF EpcData
      <3> QED
        BY <1>1, <1>2, <1>4, <3>1, FrameOnTheBook
    <2> QED
      BY <1>3, <1>6, <2>1 DEF Obey, AutoStop
  <1> QED
    BY <1>5, <1>6

(* To take a phone's message changes nothing of what is passed on, and     *)
(* what the display says is a confirmation.                                *)
LEMMA PhoneSays ==
  ASSUME TypeOK, NEW s \in Phone, Handle(s)
  PROVE  /\ PassedOn' = PassedOn /\ UNCHANGED screen
         /\ \/ Video(Head(waiting[s])) \/ CommEpcAuto(Head(waiting[s]))
            \/ CommEpcAutoStop(Head(waiting[s]), s) \/ RequestToPay(Head(waiting[s]), s)
  <1> DEFINE msg == Head(waiting[s])
  <1>1. /\ waiting \in [Sender -> Seq(ClientSays \union DisplaySays)] /\ DisplayConn \in Sender
        /\ s \in Sender
    BY DEF TypeOK, Sender
  <1>2. /\ waiting[s] # <<>> /\ waiting' = [waiting EXCEPT ![s] = Tail(@)] /\ UNCHANGED screen
        /\ \/ Video(msg) \/ CommEpcAuto(msg) \/ CommEpcAutoStop(msg, s) \/ RequestToPay(msg, s)
           \/ ConfirmPayMent(msg)
    BY DEF Handle
  <1>3. msg \in ClientSays
    BY <1>1, HeadTyped DEF Handle
  <1>4. waiting'[DisplayConn] = waiting[DisplayConn]
    <2>1. s # DisplayConn
      OBVIOUS
    <2> QED
      BY <1>1, <1>2, <2>1
  <1>5. ~ConfirmPayMent(msg)
    <2>1. msg.type # "CONFIRM_PAY_MENT"
      BY <1>3 DEF ClientSays
    <2> QED
      BY <2>1 DEF ConfirmPayMent
  <1> QED
    BY <1>2, <1>4, <1>5 DEF PassedOn

(* To take the display's message passes the first confirmation on, and     *)
(* changes nothing on the screen in the end.                               *)
LEMMA DisplaySaid ==
  ASSUME TypeOK, HonestScreen, Handle(DisplayConn)
  PROVE  /\ InTheEnd'.scr = InTheEnd.scr /\ InTheEnd.due # <<>>
         /\ InTheEnd'.due = Tail(InTheEnd.due)
         /\ UNCHANGED <<CurrentList, unpriced, ends, commands>>
  <1> DEFINE w == waiting[DisplayConn]
             msg == Head(w)
  <1>1. /\ waiting \in [Sender -> Seq(ClientSays \union DisplaySays)] /\ DisplayConn \in Sender
        /\ w \in Seq(DisplaySays)
    BY DEF TypeOK, Sender
  <1>2. /\ w # <<>> /\ waiting' = [waiting EXCEPT ![DisplayConn] = Tail(@)] /\ UNCHANGED screen
        /\ \/ Video(msg) \/ CommEpcAuto(msg) \/ CommEpcAutoStop(msg, DisplayConn)
           \/ RequestToPay(msg, DisplayConn) \/ ConfirmPayMent(msg)
    BY DEF Handle
  <1>3. msg \in DisplaySays
    BY <1>1, HeadTyped DEF Handle
  <1> HIDE DEF msg
  <1>4. ConfirmPayMent(msg)
    <2>1. msg.type = "CONFIRM_PAY_MENT"
      BY <1>3 DEF DisplaySays
    <2> QED
      BY <1>2, <2>1 DEF Video, CommEpcAuto, CommEpcAutoStop, RequestToPay
  <1>5. w # <<>> /\ waiting'[DisplayConn] = Tail(w)
    BY <1>1, <1>2
  <1>6. PassedOn' = Tail(PassedOn) /\ PassedOn # <<>>
    <2> HIDE DEF w
    <2>1. /\ Len(w) \in Nat \ {0} /\ Tail(w) \in Seq(DisplaySays) /\ Len(Tail(w)) = Len(w) - 1
          /\ \A i \in 1 .. Len(w) - 1 : Tail(w)[i] = w[i + 1]
      BY <1>1, <1>5, HeadTailProperties, EmptySeq
    <2>2. DOMAIN w = 1 .. Len(w) /\ DOMAIN Tail(w) = 1 .. Len(w) - 1
      BY <1>1, <2>1, LenProperties
    <2> DEFINE B(x) == Bill(x.asker, x.amount)
    <2>3. PassedOn = [i \in 1 .. Len(w) |-> B(w[i])]
      BY <2>2 DEF PassedOn, w
    <2>4. PassedOn' = [i \in 1 .. Len(w) - 1 |-> B(Tail(w)[i])]
      BY <1>5, <2>2 DEF PassedOn
    <2>5. PassedOn' = [i \in 1 .. Len(w) - 1 |-> B(w[i + 1])]
      BY <2>1, <2>4
    <2>6. PassedOn \in Dues
      BY PassedOnTyped
    <2> HIDE DEF B
    <2>7. Len(PassedOn) = Len(w) /\ PassedOn # <<>>
      BY <2>1, <2>3, <2>6 DEF Dues
    <2>8. Tail(PassedOn) = [i \in 1 .. Len(w) - 1 |-> PassedOn[i + 1]]
      BY <2>6, <2>7, TailIs DEF Dues
    <2>9. \A i \in 1 .. Len(w) - 1 : PassedOn[i + 1] = B(w[i + 1])
      BY <2>1, <2>3
    <2> QED
      BY <2>5, <2>7, <2>8, <2>9
  <1>7. AfterItems([scr |-> screen, due |-> PassedOn'], cQueue') =
          AfterItems([scr |-> screen, due |-> PassedOn'], cQueue)
    <2> DEFINE before == [i \in DOMAIN cQueue |-> [cQueue[i] EXCEPT !.alone = FALSE]]
    <2>1. cQueue \in Seq(Item)
      BY DEF TypeOK
    <2>2. cQueue' = before \/ cQueue' = cQueue
      BY <1>4 DEF ConfirmPayMent, Plain, NothingToDisplay, OnReceivedFrame, ForScreen
    <2>3. \A x : AfterItems(x, before) = AfterItems(x, cQueue)
      BY <2>1, AloneAside
    <2> HIDE DEF before
    <2> QED
      BY <2>2, <2>3
  <1>8. /\ InTheEnd = AfterItems([scr |-> screen, due |-> PassedOn], cQueue)
        /\ InTheEnd' = AfterItems([scr |-> screen, due |-> Tail(PassedOn)], cQueue)
    BY <1>2, <1>6, <1>7 DEF InTheEnd
  <1>9. /\ InTheEnd'.scr = InTheEnd.scr /\ InTheEnd.due # <<>>
        /\ InTheEnd'.due = Tail(InTheEnd.due)
    BY <1>6, <1>8, EndHonest, FirstDue
  <1> QED
    BY <1>4, <1>9 DEF ConfirmPayMent

(* The control thread: a phone's message is at most one frame; what the    *)
(* display says, the confirmation of a payment, is passed on.              *)
LEMMA HandleOnTheBook ==
  ASSUME TypeOK, HonestScreen, NEW s \in Sender, Handle(s)
  PROVE  [Book!Next]_(Book!vars)
  <1> DEFINE msg == Head(waiting[s])
  <1>1. s \in Phone \/ s = DisplayConn
    BY DEF Sender
  <1>2. NOBODY \in Asker /\ NOBODY \in Tag \union {NOBODY} /\ Phone \subseteq Asker /\ ends \in Nat
    BY DEF Asker, TypeOK
  <1>3. CASE s \in Phone
    <2>1. /\ PassedOn' = PassedOn /\ UNCHANGED screen
          /\ Video(msg) \/ CommEpcAuto(msg) \/ CommEpcAutoStop(msg, s) \/ RequestToPay(msg, s)
      BY <1>3, PhoneSays
    <2> HIDE DEF msg
    <2>2. NothingToDisplay => [Book!Next]_(Book!vars)
      <3>1. NothingToDisplay => InTheEnd' = InTheEnd
        BY <2>1 DEF NothingToDisplay, InTheEnd
      <3> QED
        BY <3>1, NothingOnTheBook
    <2>3. ASSUME NEW type, NEW dest, Plain(type, dest), type # "EPC_AUTO" PROVE [Book!Next]_(Book!vars)
      <3>1. OnReceivedFrame(type, dest, NOBODY, ends, NOBODY)
        BY <2>3 DEF Plain
      <3> QED
        BY <1>2, <2>1, <2>3, <3>1, FrameOnTheBook
    <2>4. CASE Video(msg)
      BY <2>3, <2>4 DEF Video
    <2>5. CASE CommEpcAuto(msg)
      BY <2>2, <2>5 DEF CommEpcAuto
    <2>6. CASE CommEpcAutoStop(msg, s)
      BY <2>3, <2>6 DEF CommEpcAutoStop
    <2>7. CASE RequestToPay(msg, s)
      <3>1. OnReceivedFrame("REQUEST_TO_PAY", s, NOBODY, ends, s) /\ s \in Asker
        BY <1>2, <1>3, <2>7 DEF RequestToPay
      <3> QED
        BY <1>2, <2>1, <3>1, FrameOnTheBook
    <2> QED
      BY <2>1, <2>4, <2>5, <2>6, <2>7
  <1>4. CASE s = DisplayConn
    <2>1. /\ InTheEnd'.scr = InTheEnd.scr /\ InTheEnd.due # <<>>
          /\ InTheEnd'.due = Tail(InTheEnd.due)
      BY <1>4, DisplaySaid
    <2>2. OpenBill' = OpenBill
      BY <2>1 DEF OpenBill
    <2>3. Book!Confirm
      BY <2>1, <2>2 DEF Book!Confirm
    <2> QED
      BY <2>3 DEF Book!Next
  <1> QED
    BY <1>1, <1>3, <1>4

(* The display takes up an item: what the book says does not change, for   *)
(* what was going to be shown and said is now shown and said.              *)
LEMMA UpdateInTheEnd ==
  ASSUME TypeOK, HonestScreen, Update
  PROVE  InTheEnd' = InTheEnd
  <1> DEFINE item == Head(cQueue)
             w == waiting[DisplayConn]
             s == [scr |-> screen, due |-> PassedOn]
  <1>1. cQueue \in Seq(Item) /\ cQueue # <<>> /\ cQueue' = Tail(cQueue)
        /\ screen' = AfterItem(screen, item)
    BY DEF Update, TypeOK
  <1>2. item \in Item
    BY <1>1, HeadTailProperties
  <1>3. waiting \in [Sender -> Seq(ClientSays \union DisplaySays)] /\ DisplayConn \in Sender
        /\ w \in Seq(DisplaySays) /\ screen.dAllCount \in Nat /\ ulDest \in Nat
    BY DEF TypeOK, Sender
  <1>4. PassedOn' = IF item.type = "REQUEST_TO_PAY"
                    THEN Append(PassedOn, Bill(item.asker, screen.dAllCount)) ELSE PassedOn
    <2>1. CASE item.type = "REQUEST_TO_PAY"
      <3> DEFINE m == [type |-> "CONFIRM_PAY_MENT", dest |-> ulDest, amount |-> screen.dAllCount,
                       asker |-> item.asker, alone |-> item.alone]
      <3>1. m \in DisplaySays /\ m.asker = item.asker /\ m.amount = screen.dAllCount
        BY <1>2, <1>3 DEF DisplaySays, Item
      <3>2. waiting'[DisplayConn] = Append(w, m)
        BY <1>3, <2>1 DEF Update, Say
      <3> HIDE DEF m, w
      <3>3. /\ Append(w, m) \in Seq(DisplaySays) /\ Len(Append(w, m)) = Len(w) + 1
            /\ Append(w, m)[Len(w) + 1] = m /\ \A i \in 1 .. Len(w) : Append(w, m)[i] = w[i]
            /\ Len(w) \in Nat
        BY <1>3, <3>1
      <3>4. DOMAIN w = 1 .. Len(w) /\ DOMAIN Append(w, m) = 1 .. Len(w) + 1
        BY <1>3, <3>3, LenProperties
      <3> DEFINE B(x) == Bill(x.asker, x.amount)
                 b == Bill(item.asker, screen.dAllCount)
      <3>5. PassedOn = [i \in 1 .. Len(w) |-> B(w[i])]
        BY <3>4 DEF PassedOn, w
      <3>6. PassedOn' = [i \in 1 .. Len(w) + 1 |-> B(Append(w, m)[i])]
        BY <3>2, <3>4 DEF PassedOn
      <3>7. B(m) = b
        BY <3>1
      <3>8. PassedOn \in Dues
        BY PassedOnTyped
      <3> HIDE DEF B, b
      <3>9. PassedOn' = [i \in 1 .. Len(w) + 1 |-> IF i = Len(w) + 1 THEN b ELSE PassedOn[i]]
        <4>1. ASSUME NEW i \in 1 .. Len(w) + 1
              PROVE B(Append(w, m)[i]) = IF i = Len(w) + 1 THEN b ELSE PassedOn[i]
          BY <3>3, <3>5, <3>7
        <4> QED
          BY <3>6, <4>1
      <3>10. Len(PassedOn) = Len(w)
        BY <3>3, <3>5, <3>8 DEF Dues
      <3>11. b \in [asker : Asker, amount : Nat]
        BY <1>2, <1>3 DEF b, Bill, Item
      <3> DEFINE a == Append(PassedOn, b)
      <3>12. /\ a \in Seq([asker : Asker, amount : Nat]) /\ Len(a) = Len(w) + 1 /\ a[Len(w) + 1] = b
             /\ \A i \in 1 .. Len(w) : a[i] = PassedOn[i]
        BY <3>8, <3>10, <3>11 DEF Dues
      <3> HIDE DEF a
      <3>13. a = [i \in 1 .. Len(w) + 1 |-> a[i]]
        BY <3>12, LenProperties
      <3>14. \A i \in 1 .. Len(w) + 1 : a[i] = IF i = Len(w) + 1 THEN b ELSE PassedOn[i]
        <4> DEFINE n == Len(w)
        <4>1. /\ n \in Nat /\ a[n + 1] = b /\ \A i \in 1 .. n : a[i] = PassedOn[i]
          BY <3>3, <3>12
        <4> HIDE DEF n
        <4>2. ASSUME NEW i \in 1 .. n + 1 PROVE a[i] = IF i = n + 1 THEN b ELSE PassedOn[i]
          <5>1. CASE i = n + 1
            BY <4>1, <5>1
          <5>2. CASE i # n + 1
            BY <4>1, <5>2
          <5> QED
            BY <5>1, <5>2
        <4> QED
          BY <4>2 DEF n
      <3>15. PassedOn' = a
        BY <3>9, <3>13, <3>14
      <3> QED
        BY <2>1, <3>15 DEF a, b
    <2>2. CASE item.type # "REQUEST_TO_PAY"
      <3>1. UNCHANGED waiting
        BY <2>2 DEF Update
      <3> QED
        BY <2>2, <3>1 DEF PassedOn
    <2> QED
      BY <2>1, <2>2
  <1>5. [scr |-> screen', due |-> PassedOn'] = WithItem(s, item)
    BY <1>1, <1>4 DEF WithItem
  <1>6. InTheEnd = AfterItems(s, cQueue) /\ InTheEnd' = AfterItems(WithItem(s, item), Tail(cQueue))
    BY <1>1, <1>5 DEF InTheEnd
  <1> HIDE DEF s
  <1>7. AfterItems(WithItem(s, item), Tail(cQueue)) = AfterItems(s, cQueue)
    BY <1>1, FirstItem
  <1> QED
    BY <1>6, <1>7

(* The screen stays honest.                                                *)
LEMMA HonestKept == TypeOK /\ HonestScreen /\ [Next]_vars => HonestScreen'
  <1> SUFFICES ASSUME TypeOK, HonestScreen, [Next]_vars PROVE HonestScreen'
    OBVIOUS
  <1>1. CASE Update
    <2> DEFINE item == Head(cQueue)
    <2>1. /\ cQueue \in Seq(Item) /\ cQueue # <<>> /\ item = cQueue[1]
          /\ screen' = AfterItem(screen, item)
      BY <1>1 DEF Update, TypeOK
    <2>2. 1 \in 1 .. Len(cQueue)
      BY <2>1, EmptySeq
    <2>3. IsItem(item) /\ screen \in Screen /\ Honest(screen)
      BY <2>1, <2>2, EndHonest
    <2> QED
      BY <2>1, <2>3, ItemHonest DEF HonestScreen
  <1>2. CASE ~Update
    <2>1. UNCHANGED screen
      BY <1>2 DEF Next, vars, displayVars, OnClick, OnPreviewFrame, Report, Obey, Handle, Console
    <2> QED
      BY <2>1 DEF HonestScreen
  <1> QED
    BY <1>1, <1>2

(* Every step of the till is a step of the book, or none.                  *)
LEMMA NextOnTheBook ==
  ASSUME TypeOK, HonestScreen, [Next]_vars
  PROVE  [Book!Next]_(Book!vars)
  <1>1. CASE \/ \E p \in Phone, button \in {"COMM_EPC_AUTO", "COMM_EPC_AUTO_STOP", "REQUEST_TO_PAY"} :
                  OnClick(p, button)
             \/ \E p \in Phone : OnPreviewFrame(p)
             \/ Console
    BY <1>1, PeopleInTheEnd, NothingOnTheBook
  <1>2. CASE (\E t \in Tag : Report(t)) \/ Obey
    BY <1>2, ReaderOnTheBook
  <1>3. CASE \E s \in Sender : Handle(s)
    BY <1>3, HandleOnTheBook
  <1>4. CASE Update
    BY <1>4, UpdateInTheEnd, NothingOnTheBook
  <1>5. CASE UNCHANGED vars
    <2>1. UNCHANGED <<waiting, cQueue, screen>>
      BY <1>5 DEF vars, displayVars
    <2>2. InTheEnd' = InTheEnd
      BY <2>1 DEF InTheEnd, PassedOn
    <2> QED
      BY <2>2, NothingOnTheBook
  <1> QED
    BY <1>1, <1>2, <1>3, <1>4, <1>5 DEF Next

(* An empty screen is an empty book.                                       *)
LEMMA InitOnTheBook == Init => HonestScreen /\ Book!Init
  <1> SUFFICES ASSUME Init PROVE HonestScreen /\ Book!Init
    OBVIOUS
  <1>1. screen = [text |-> <<>>, dAllCount |-> 0] /\ cQueue = <<>> /\ waiting[DisplayConn] = <<>>
    BY DEF Init, Sender
  <1>2. PassedOn = <<>>
    BY <1>1 DEF PassedOn
  <1>3. InTheEnd = [scr |-> screen, due |-> <<>>]
    BY <1>1, <1>2, NoItems DEF InTheEnd
  <1>4. OpenBill = <<>> /\ InTheEnd.due = <<>>
    BY <1>1, <1>3, GoodsOnNothing DEF OpenBill
  <1> QED
    BY <1>1, <1>4, GoodsOnNothing, SumNothing DEF HonestScreen, Honest, Book!Init

(* The till is a bill book.                                                *)
THEOREM Refinement == Spec => ImplementsBillBook
  <1>1. TypeOK /\ HonestScreen /\ [Next]_vars => [Book!Next]_(Book!vars)
    BY NextOnTheBook
  <1>2. Init => HonestScreen /\ Book!Init
    BY InitOnTheBook
  <1>3. TypeOK /\ HonestScreen /\ [Next]_vars => HonestScreen'
    BY HonestKept
  <1> QED
    BY <1>1, <1>2, <1>3, TypeCorrect, PTL DEF Spec, ImplementsBillBook, Book!Spec

-----------------------------------------------------------------------------
(* While the reader scans for the open bill, a good that is ignored as     *)
(* known is on the bill, once.                                             *)

(* On the list in the end, for the open bill.                              *)
Entry(t) == [tag |-> t, bill |-> ends]
Text == InTheEnd.scr.text
Listed(t) == \E i \in DOMAIN Text : Text[i] = Entry(t)
ListedOnce(t) == \A i, j \in DOMAIN Text : Text[i] = Entry(t) /\ Text[j] = Entry(t) => i = j

(* The reader is never told a number that is not given yet, and without a  *)
(* scan no good is known.                                                  *)
Numbered ==
  /\ scanning <= ends
  /\ \A i \in 1 .. Len(commands) : commands[i].bill <= ends
  /\ scanning = -1 => CurrentList = {}

(* What is known is on the bill.                                           *)
KnownListed == scanning = ends => \A t \in Priced : t \in CurrentList \ unpriced => Listed(t)

(* Without a command typed at the console the commands carry the numbers   *)
(* of the bills in order, and a stop is for a bill that is closed by then  *)
(* and not older than the scan: no scan for the open bill is stopped.      *)
InOrder ==
  typed = 0 =>
    /\ \A i, j \in 1 .. Len(commands) : i <= j => commands[i].bill <= commands[j].bill
    /\ \A i \in 1 .. Len(commands) :
         commands[i].type = "StopScan" => scanning <= commands[i].bill /\ commands[i].bill < ends

(* And on that bill is only what is known, and once.                       *)
OnlyKnown ==
  typed = 0 =>
    \A t \in Priced : ListedOnce(t) /\ (Listed(t) => scanning = ends /\ t \in CurrentList \ unpriced)

BillInv == TypeOK /\ HonestScreen /\ Numbered /\ InOrder /\ KnownListed /\ OnlyKnown

(* A sum of 0 is that of a list on which nothing has a price.              *)
LEMMA NothingPriced ==
  ASSUME NEW scr \in Screen, Honest(scr), scr.dAllCount = 0, NEW k \in 1 .. Len(scr.text)
  PROVE  scr.text[k].tag \notin Priced
  <1> DEFINE goods == GoodsOn(scr.text)
  <1>1. /\ scr.text \in Seq([tag : Tag, bill : Nat]) /\ goods \in Seq(Priced) /\ Book!Sum(goods) = 0
        /\ scr.text[k].tag \in Priced => goods # <<>>
    BY GoodsOnPriced DEF Screen, Honest
  <1> HIDE DEF goods
  <1>2. goods # <<>> => Book!Sum(goods) > 0
    BY <1>1, SumNat, Zenon
  <1>3. goods = <<>>
    BY <1>1, <1>2
  <1> QED
    BY <1>1, <1>3

(* A good put on the list is on it then, and nothing else with a price     *)
(* comes or goes.                                                          *)
LEMMA GoodListed ==
  ASSUME TypeOK, HonestScreen, NEW item, IsItem(item), item.type = "EPC_AUTO",
         InTheEnd' = WithItem(InTheEnd, item), ends' = ends, NEW t \in Priced
  PROVE  /\ Listed(t)' <=> (Listed(t) \/ (t = item.tag /\ item.bill = ends))
         /\ ListedOnce(t) /\ (t = item.tag /\ item.bill = ends => ~Listed(t)) => ListedOnce(t)'
  <1> DEFINE scr == InTheEnd.scr
             x == [tag |-> item.tag, bill |-> item.bill]
             shown == IF scr.dAllCount = 0 THEN <<>> ELSE scr.text
             e == Entry(t)
  <1>1. scr \in Screen /\ Honest(scr) /\ Text = scr.text
    BY EndHonest DEF Text
  <1>2. x \in [tag : Tag, bill : Nat] /\ (x = e <=> t = item.tag /\ item.bill = ends) /\ e.tag = t
    BY DEF IsItem, Item, Entry
  <1>3. Text' = Append(shown, x) /\ Entry(t)' = e
    BY DEF WithItem, AfterItem, WithGood, Text, Entry
  <1>4. Text \in Seq([tag : Tag, bill : Nat]) /\ shown \in Seq([tag : Tag, bill : Nat])
    BY <1>1 DEF Screen
  <1>5. shown = Text \/ (shown = <<>> /\ \A i \in DOMAIN Text : Text[i] # e)
    <2>1. CASE scr.dAllCount = 0
      <3>1. \A i \in 1 .. Len(scr.text) : scr.text[i].tag \notin Priced
        BY <1>1, <2>1, NothingPriced
      <3>2. DOMAIN Text = 1 .. Len(Text)
        BY <1>4, LenProperties
      <3> QED
        BY <1>1, <1>2, <2>1, <3>1, <3>2
    <2>2. CASE scr.dAllCount # 0
      BY <1>1, <2>2
    <2> QED
      BY <2>1, <2>2
  <1> DEFINE n == Len(shown)
             more == Append(shown, x)
  <1> HIDE DEF scr, x, shown, e
  <1>6. /\ n \in Nat /\ DOMAIN more = 1 .. n + 1 /\ DOMAIN shown = 1 .. n /\ more[n + 1] = x
        /\ \A i \in 1 .. n : more[i] = shown[i]
    BY <1>2, <1>4
  <1>7. /\ Listed(t) <=> \E i \in 1 .. n : shown[i] = e
        /\ ListedOnce(t) => \A i, j \in 1 .. n : shown[i] = e /\ shown[j] = e => i = j
    BY <1>5, <1>6 DEF Listed, ListedOnce, e
  <1>8. /\ Listed(t)' <=> \E i \in 1 .. n + 1 : more[i] = e
        /\ ListedOnce(t)' <=> \A i, j \in 1 .. n + 1 : more[i] = e /\ more[j] = e => i = j
    BY <1>3, <1>6 DEF Listed, ListedOnce
  <1> HIDE DEF n, more
  <1>9. Listed(t)' <=> (Listed(t) \/ x = e)
    <2>1. (\E i \in 1 .. n + 1 : more[i] = e) <=> ((\E i \in 1 .. n : more[i] = e) \/ more[n + 1] = e)
      BY <1>6
    <2> QED
      BY <1>6, <1>7, <1>8, <2>1
  <1>10. ASSUME ListedOnce(t), x = e => ~Listed(t) PROVE ListedOnce(t)'
    <2>1. SUFFICES ASSUME NEW i \in 1 .. n + 1, NEW j \in 1 .. n + 1, more[i] = e, more[j] = e
                   PROVE i = j
      BY <1>8
    <2>2. CASE x = e
      BY <1>6, <1>7, <1>10, <2>1, <2>2
    <2>3. CASE x # e
      BY <1>6, <1>7, <1>10, <2>1, <2>3
    <2> QED
      BY <2>2, <2>3
  <1> QED
    BY <1>2, <1>9, <1>10

(* Any other item leaves nothing on the list.                              *)
LEMMA NothingListed ==
  ASSUME NEW item, item.type # "EPC_AUTO", InTheEnd' = WithItem(InTheEnd, item), NEW t
  PROVE  ~Listed(t)' /\ ListedOnce(t)'
  <1>1. Text' = <<>>
    BY DEF WithItem, AfterItem, Text
  <1>2. DOMAIN Text' = {}
    BY <1>1
  <1> QED
    BY <1>2 DEF Listed, ListedOnce

(* The same list is the same list.                                         *)
LEMMA SameListed ==
  ASSUME InTheEnd'.scr = InTheEnd.scr, ends' = ends, NEW t
  PROVE  (Listed(t)' <=> Listed(t)) /\ (ListedOnce(t)' <=> ListedOnce(t))
  <1>1. Text' = Text /\ Entry(t)' = Entry(t)
    BY DEF Text, Entry
  <1> QED
    BY <1>1 DEF Listed, ListedOnce

(* What the list says stays said while list, bill and scan are the same,   *)
(* and when the bill is closed nothing is left on it to say.               *)
LEMMA ListRests ==
  ASSUME KnownListed, OnlyKnown, InTheEnd'.scr = InTheEnd.scr,
         UNCHANGED <<CurrentList, unpriced, ends, scanning>>, typed' = 0 => typed = 0
  PROVE  KnownListed' /\ OnlyKnown'
  <1>1. \A t : (Listed(t)' <=> Listed(t)) /\ (ListedOnce(t)' <=> ListedOnce(t))
    BY SameListed
  <1> QED
    BY <1>1 DEF KnownListed, OnlyKnown

(* An item that is no good closes the bill: nothing is listed, nothing is  *)
(* known.                                                                  *)
LEMMA BillClosed ==
  ASSUME TypeOK, Numbered, scanning' = scanning, ends' = ends + 1,
         NEW item, item.type # "EPC_AUTO", InTheEnd' = WithItem(InTheEnd, item)
  PROVE  KnownListed' /\ OnlyKnown'
  <1>1. \A t : ~Listed(t)' /\ ListedOnce(t)'
    BY NothingListed
  <1>2. scanning' # ends'
    <2>1. ends \in Nat /\ scanning \in Nat \union {-1} /\ scanning <= ends
      BY DEF TypeOK, Numbered
    <2> QED
      BY <2>1
  <1> QED
    BY <1>1, <1>2 DEF KnownListed, OnlyKnown

(* The commands as they were.                                              *)
LEMMA CommandsRest ==
  ASSUME TypeOK, Numbered, InOrder, UNCHANGED <<commands, scanning>>, CurrentList' = CurrentList \/ scanning # -1,
         ends' \in {ends, ends + 1}, typed' = 0 => typed = 0
  PROVE  Numbered' /\ InOrder'
  <1>1. /\ ends \in Nat /\ scanning \in Nat \union {-1}
        /\ commands \in Seq([type : {"AutoScan", "StopScan", "ReadData"}, bill : Nat])
    BY DEF TypeOK
  <1>2. \A i \in 1 .. Len(commands) : commands[i].bill \in Nat
    <2>1. \A i \in 1 .. Len(commands) :
            commands[i] \in [type : {"AutoScan", "StopScan", "ReadData"}, bill : Nat]
      BY <1>1, ElementOfSeq
    <2> QED
      BY <2>1
  <1>3. Numbered'
    BY <1>1, <1>2 DEF Numbered
  <1>4. InOrder'
    BY <1>1, <1>2 DEF InOrder
  <1> QED
    BY <1>3, <1>4

(* A command more, for the bill that is open when it is given; when it is  *)
(* a stop that nobody typed, the bill is closed in the same step.          *)
LEMMA Commanded ==
  ASSUME TypeOK, Numbered, InOrder, NEW type \in {"AutoScan", "StopScan", "ReadData"}, Command(type),
         UNCHANGED <<CurrentList, scanning>>, ends' \in {ends, ends + 1},
         typed' = 0 => typed = 0 /\ (type = "StopScan" => ends' = ends + 1)
  PROVE  Numbered' /\ InOrder'
  <1> DEFINE n == Len(commands)
             c == [type |-> type, bill |-> ends]
             C == [type : {"AutoScan", "StopScan", "ReadData"}, bill : Nat]
  <1>1. ends \in Nat /\ scanning \in Nat \union {-1} /\ commands \in Seq(C)
    BY DEF TypeOK
  <1>2. c \in C /\ c.type = type /\ c.bill = ends
    BY <1>1
  <1>3. commands' = Append(commands, c)
    BY DEF Command
  <1>4. \A i \in 1 .. n : commands[i] \in C
    BY <1>1, ElementOfSeq
  <1>5. \A i \in 1 .. n : commands[i].bill \in Nat
    BY <1>4
  <1> HIDE DEF c, C
  <1>6. /\ n \in Nat /\ Len(commands') = n + 1 /\ commands'[n + 1] = c
        /\ \A i \in 1 .. n : commands'[i] = commands[i]
    BY <1>1, <1>2, <1>3
  <1>7. /\ scanning <= ends /\ (scanning = -1 => CurrentList = {})
        /\ \A i \in 1 .. n : commands[i].bill <= ends
    BY DEF Numbered
  <1>8. typed = 0 =>
          /\ \A i, j \in 1 .. n : i <= j => commands[i].bill <= commands[j].bill
          /\ \A i \in 1 .. n : commands[i].type = "StopScan" =>
                              scanning <= commands[i].bill /\ commands[i].bill < ends
    BY DEF InOrder
  <1> HIDE DEF n
  <1>9. ends' \in Nat /\ ends <= ends'
    BY <1>1
  <1>10. ASSUME NEW i \in 1 .. n + 1
         PROVE  /\ (i \in 1 .. n /\ commands'[i] = commands[i]) \/ (i = n + 1 /\ commands'[i] = c)
                /\ commands'[i].bill \in Nat /\ commands'[i].bill <= ends
    <2>1. i \in 1 .. n \/ i = n + 1
      BY <1>6
    <2> QED
      BY <1>1, <1>2, <1>5, <1>6, <1>7, <2>1
  <1>11. Numbered'
    <2>1. \A i \in 1 .. n + 1 : commands'[i].bill <= ends'
      BY <1>1, <1>9, <1>10
    <2>2. scanning' <= ends' /\ (scanning' = -1 => CurrentList' = {})
      BY <1>1, <1>7, <1>9
    <2> QED
      BY <1>6, <2>1, <2>2 DEF Numbered
  <1>12. ASSUME typed' = 0, NEW i \in 1 .. n + 1, NEW j \in 1 .. n + 1, i <= j
         PROVE  commands'[i].bill <= commands'[j].bill
    <2>1. CASE j = n + 1
      BY <1>2, <1>6, <1>10, <2>1
    <2>2. CASE j \in 1 .. n
      <3>1. i \in 1 .. n
        BY <1>6, <1>12, <2>2
      <3> QED
        BY <1>6, <1>8, <1>12, <2>2, <3>1
    <2> QED
      BY <1>10, <2>1, <2>2
  <1>13. ASSUME typed' = 0, NEW i \in 1 .. n + 1, commands'[i].type = "StopScan"
         PROVE  scanning' <= commands'[i].bill /\ commands'[i].bill < ends'
    <2>1. CASE i \in 1 .. n
      BY <1>1, <1>5, <1>6, <1>8, <1>9, <1>13, <2>1
    <2>2. CASE i = n + 1
      BY <1>1, <1>2, <1>6, <1>7, <1>13, <2>2
    <2> QED
      BY <1>10, <2>1, <2>2
  <1>14. InOrder'
    BY <1>6, <1>12, <1>13 DEF InOrder
  <1> QED
    BY <1>11, <1>14

(* Phones, console and display.                                            *)
LEMMA PeopleBill ==
  ASSUME BillInv,
         \/ \E p \in Phone, button \in {"COMM_EPC_AUTO", "COMM_EPC_AUTO_STOP", "REQUEST_TO_PAY"} :
              OnClick(p, button)
         \/ \E p \in Phone : OnPreviewFrame(p)
         \/ Console
  PROVE  Numbered' /\ InOrder' /\ KnownListed' /\ OnlyKnown'
  <1>1. InTheEnd' = InTheEnd
    BY PeopleInTheEnd DEF BillInv
  <1>2. /\ UNCHANGED <<CurrentList, unpriced, ends, scanning>>
        /\ ~Console => UNCHANGED <<commands, typed>>
    BY DEF OnClick, OnPreviewFrame, Console, serverVars, readerVars
  <1>3. typed \in Nat /\ (Console => typed' = typed + 1)
    BY DEF BillInv, TypeOK, Console
  <1>4. typed' = 0 => typed = 0 /\ ~Console
    BY <1>2, <1>3
  <1>5. KnownListed' /\ OnlyKnown'
    BY <1>1, <1>2, <1>4, ListRests DEF BillInv
  <1>6. CASE Console
    <2>1. PICK type \in {"AutoScan", "StopScan", "ReadData"} : Command(type)
      BY <1>6 DEF Console
    <2>2. Numbered' /\ InOrder'
      BY <1>2, <1>4, <1>6, <2>1, Commanded DEF BillInv
    <2> QED
      BY <1>5, <2>2
  <1>7. CASE ~Console
    <2>1. Numbered' /\ InOrder'
      BY <1>2, <1>4, <1>7, CommandsRest DEF BillInv
    <2> QED
      BY <1>5, <2>1
  <1> QED
    BY <1>6, <1>7

(* To show an item changes nothing of what the bill will be in the end.    *)
LEMMA UpdateBill ==
  ASSUME BillInv, Update
  PROVE  Numbered' /\ InOrder' /\ KnownListed' /\ OnlyKnown'
  <1>1. InTheEnd' = InTheEnd
    BY UpdateInTheEnd DEF BillInv
  <1>2. UNCHANGED <<CurrentList, unpriced, ends, scanning, commands, typed>>
    BY DEF Update, serverVars, readerVars
  <1>3. KnownListed' /\ OnlyKnown'
    BY <1>1, <1>2, ListRests DEF BillInv
  <1>4. Numbered' /\ InOrder'
    BY <1>2, CommandsRest DEF BillInv
  <1> QED
    BY <1>3, <1>4

(* The control thread.                                                     *)
LEMMA HandleBill ==
  ASSUME BillInv, NEW s \in Sender, Handle(s)
  PROVE  Numbered' /\ InOrder' /\ KnownListed' /\ OnlyKnown'
  <1> DEFINE msg == Head(waiting[s])
  <1>1. s \in Phone \/ s = DisplayConn
    BY DEF Sender
  <1>2. UNCHANGED <<scanning, typed>> /\ TypeOK /\ HonestScreen /\ Numbered /\ InOrder /\ KnownListed /\ OnlyKnown
    BY DEF Handle, BillInv
  <1>3. CASE s = DisplayConn
    <2>1. InTheEnd'.scr = InTheEnd.scr /\ UNCHANGED <<CurrentList, unpriced, ends, commands>>
      BY <1>2, <1>3, DisplaySaid
    <2>2. KnownListed' /\ OnlyKnown'
      BY <1>2, <2>1, ListRests
    <2>3. Numbered' /\ InOrder'
      BY <1>2, <2>1, CommandsRest
    <2> QED
      BY <2>2, <2>3
  <1>4. CASE s \in Phone
    <2>1. /\ PassedOn' = PassedOn /\ UNCHANGED screen
          /\ Video(msg) \/ CommEpcAuto(msg) \/ CommEpcAutoStop(msg, s) \/ RequestToPay(msg, s)
      BY <1>2, <1>4, PhoneSays
    <2> HIDE DEF msg
    <2>2. NOBODY \in Asker /\ NOBODY \in Tag \union {NOBODY} /\ s \in Asker /\ ends \in Nat
      BY <1>2, <1>4 DEF Asker, TypeOK
    <2>3. ASSUME NEW type, NEW dest, NEW asker \in Asker, OnReceivedFrame(type, dest, NOBODY, ends, asker)
          PROVE  InTheEnd' = IF type \in ForScreen
                             THEN WithItem(InTheEnd, [type |-> type, tag |-> NOBODY, bill |-> ends,
                                                      asker |-> asker, alone |-> TRUE])
                             ELSE InTheEnd
      BY <1>2, <2>1, <2>2, <2>3, FrameInTheEnd
    <2>4. ASSUME Command("StopScan"), ends' = ends + 1, UNCHANGED <<CurrentList, unpriced>>,
                 NEW type \in {"EPC_AUTO_STOP", "REQUEST_TO_PAY"}, NEW dest, NEW asker \in Asker,
                 OnReceivedFrame(type, dest, NOBODY, ends, asker)
          PROVE  Numbered' /\ InOrder' /\ KnownListed' /\ OnlyKnown'
      <3> DEFINE item == [type |-> type, tag |-> NOBODY, bill |-> ends, asker |-> asker, alone |-> TRUE]
      <3>1. InTheEnd' = WithItem(InTheEnd, item) /\ item.type # "EPC_AUTO"
        BY <2>3, <2>4 DEF ForScreen
      <3>2. KnownListed' /\ OnlyKnown'
        <4> HIDE DEF item
        <4> QED
          BY <1>2, <2>4, <3>1, BillClosed
      <3>3. Numbered' /\ InOrder'
        BY <1>2, <2>4, Commanded
      <3> QED
        BY <3>2, <3>3
    <2>5. CASE Video(msg)
      <3>1. UNCHANGED <<CurrentList, unpriced, ends, commands>>
        BY <2>5 DEF Video
      <3>2. InTheEnd' = InTheEnd
        BY <2>2, <2>3, <2>5 DEF Video, Plain, ForScreen
      <3>3. KnownListed' /\ OnlyKnown'
        BY <1>2, <3>1, <3>2, ListRests
      <3>4. Numbered' /\ InOrder'
        BY <1>2, <3>1, CommandsRest
      <3> QED
        BY <3>3, <3>4
    <2>6. CASE CommEpcAuto(msg)
      <3>1. UNCHANGED <<CurrentList, unpriced, ends>> /\ Command("AutoScan")
        BY <2>6 DEF CommEpcAuto
      <3>2. InTheEnd' = InTheEnd
        BY <2>1, <2>6 DEF CommEpcAuto, NothingToDisplay, InTheEnd
      <3>3. KnownListed' /\ OnlyKnown'
        BY <1>2, <3>1, <3>2, ListRests
      <3>4. Numbered' /\ InOrder'
        BY <1>2, <3>1, Commanded
      <3> QED
        BY <3>3, <3>4
    <2>7. CASE CommEpcAutoStop(msg, s)
      BY <2>2, <2>4, <2>7 DEF CommEpcAutoStop, Plain
    <2>8. CASE RequestToPay(msg, s)
      BY <2>2, <2>4, <2>8 DEF RequestToPay
    <2> QED
      BY <2>1, <2>5, <2>6, <2>7, <2>8
  <1> QED
    BY <1>1, <1>3, <1>4

(* The reader reports a good.                                              *)
LEMMA ReportBill ==
  ASSUME BillInv, NEW t \in Tag, Report(t)
  PROVE  Numbered' /\ InOrder' /\ KnownListed' /\ OnlyKnown'
  <1>1. TypeOK /\ HonestScreen /\ Numbered /\ InOrder /\ KnownListed /\ OnlyKnown
    BY DEF BillInv
  <1>2. /\ scanning # -1 /\ UNCHANGED <<waiting, commands, scanning, screen, typed>>
        /\ EpcAuto(t, scanning) \/ EpcAutoAgain(t)
    BY DEF Report, readerVars
  <1>3. ends' = ends
    BY <1>2 DEF EpcAuto, EpcAutoAgain, serverVars
  <1>4. Numbered' /\ InOrder'
    BY <1>1, <1>2, <1>3, CommandsRest
  <1>5. scanning \in Nat /\ ends \in Nat /\ unpriced \subseteq CurrentList /\ PassedOn' = PassedOn
    BY <1>1, <1>2 DEF TypeOK, PassedOn
  <1>6. NothingToDisplay => InTheEnd' = InTheEnd
    BY <1>2, <1>5 DEF NothingToDisplay, InTheEnd
  <1>7. CASE EpcAutoAgain(t)
    <2>1. InTheEnd' = InTheEnd /\ UNCHANGED <<CurrentList, unpriced>>
      BY <1>6, <1>7 DEF EpcAutoAgain, serverVars
    <2> QED
      BY <1>1, <1>2, <1>3, <1>4, <2>1, ListRests
  <1>8. CASE EpcAuto(t, scanning)
    <2>1. t \notin CurrentList /\ CurrentList' = CurrentList \union {t}
      BY <1>8 DEF EpcAuto
    <2>2. CASE unpriced' = unpriced \union {t} /\ NothingToDisplay
      <3>1. CurrentList' \ unpriced' = CurrentList \ unpriced
        BY <1>5, <2>1, <2>2
      <3>2. \A u : (Listed(u)' <=> Listed(u)) /\ (ListedOnce(u)' <=> ListedOnce(u))
        BY <1>3, <1>6, <2>2, SameListed
      <3>3. KnownListed' /\ OnlyKnown'
        BY <1>1, <1>2, <1>3, <3>1, <3>2 DEF KnownListed, OnlyKnown
      <3> QED
        BY <1>4, <3>3
    <2>3. CASE OnReceivedFrame("EPC_AUTO", 0, t, scanning, NOBODY) /\ UNCHANGED unpriced
      <3> DEFINE item == [type |-> "EPC_AUTO", tag |-> t, bill |-> scanning, asker |-> NOBODY, alone |-> TRUE]
      <3>1. IsItem(item) /\ item.type = "EPC_AUTO" /\ item.tag = t /\ item.bill = scanning
        BY <1>5 DEF IsItem, Item, ForScreen, Asker
      <3>2. InTheEnd' = WithItem(InTheEnd, item)
        <4>1. NOBODY \in Asker
          BY DEF Asker
        <4> QED
          BY <1>1, <1>2, <1>5, <2>3, <4>1, FrameInTheEnd DEF ForScreen
      <3> HIDE DEF item
      <3>3. ASSUME NEW u \in Priced
            PROVE  /\ Listed(u)' <=> (Listed(u) \/ (u = t /\ scanning = ends))
                   /\ ListedOnce(u) /\ (u = t /\ scanning = ends => ~Listed(u)) => ListedOnce(u)'
        BY <1>1, <1>3, <3>1, <3>2, GoodListed
      <3>4. t \notin unpriced' /\ t \in CurrentList'
        BY <1>5, <2>1, <2>3
      <3>5. \A u : u # t => (u \in CurrentList' \ unpriced' <=> u \in CurrentList \ unpriced)
        BY <2>1, <2>3
      <3>6. KnownListed'
        <4> SUFFICES ASSUME scanning = ends, NEW u \in Priced, u \in CurrentList' \ unpriced'
                     PROVE  Listed(u)'
          BY <1>2, <1>3 DEF KnownListed
        <4>1. u = t \/ Listed(u)
          BY <1>1, <3>5 DEF KnownListed
        <4> QED
          BY <3>3, <4>1
      <3>7. OnlyKnown'
        <4> SUFFICES ASSUME typed = 0, NEW u \in Priced
                     PROVE  ListedOnce(u)' /\ (Listed(u)' => scanning = ends /\ u \in CurrentList' \ unpriced')
          BY <1>2, <1>3 DEF OnlyKnown
        <4>1. ListedOnce(u) /\ (Listed(u) => scanning = ends /\ u \in CurrentList \ unpriced)
          BY <1>1 DEF OnlyKnown
        <4>2. u = t => ~Listed(u)
          BY <2>1, <4>1
        <4>3. ListedOnce(u)'
          BY <3>3, <4>1, <4>2
        <4>4. CASE u = t
          BY <3>3, <3>4, <4>2, <4>3, <4>4
        <4>5. CASE u # t
          BY <3>3, <3>5, <4>1, <4>3, <4>5
        <4> QED
          BY <4>4, <4>5
      <3> QED
        BY <1>4, <3>6, <3>7
    <2> QED
      BY <1>8, <2>2, <2>3 DEF EpcAuto
  <1> QED
    BY <1>2, <1>7, <1>8

(* The reader obeys a command.                                             *)
LEMMA ObeyBill ==
  ASSUME BillInv, Obey
  PROVE  Numbered' /\ InOrder' /\ KnownListed' /\ OnlyKnown'
  <1> DEFINE C == [type : {"AutoScan", "StopScan", "ReadData"}, bill : Nat]
             n == Len(commands)
             c == Head(commands)
  <1>1. TypeOK /\ HonestScreen /\ Numbered /\ InOrder /\ KnownListed /\ OnlyKnown
    BY DEF BillInv
  <1>2. commands # <<>> /\ commands' = Tail(commands) /\ UNCHANGED <<waiting, screen, typed>>
    BY DEF Obey
  <1>3. /\ commands \in Seq(C) /\ ends \in Nat /\ scanning \in Nat \union {-1}
        /\ unpriced \subseteq CurrentList
    BY <1>1 DEF TypeOK
  <1>4. /\ n \in Nat \ {0} /\ c = commands[1] /\ Len(commands') = n - 1
        /\ \A i \in 1 .. n - 1 : commands'[i] = commands[i + 1]
    BY <1>2, <1>3
  <1>5. \A i \in 1 .. n : commands[i] \in C
    BY <1>3, ElementOfSeq
  <1>6. \A i \in 1 .. n : commands[i].bill \in Nat
    BY <1>5
  <1>7. 1 \in 1 .. n /\ c.bill \in Nat /\ \A i \in 1 .. n - 1 : i \in 1 .. n /\ i + 1 \in 1 .. n
    BY <1>4, <1>6
  <1> HIDE DEF c, C
  <1>8. /\ scanning <= ends /\ (scanning = -1 => CurrentList = {})
        /\ \A i \in 1 .. n : commands[i].bill <= ends
    BY <1>1 DEF Numbered
  <1>9. typed = 0 =>
          /\ \A i, j \in 1 .. n : i <= j => commands[i].bill <= commands[j].bill
          /\ \A i \in 1 .. n : commands[i].type = "StopScan" =>
                              scanning <= commands[i].bill /\ commands[i].bill < ends
    BY <1>1 DEF InOrder
  <1> HIDE DEF n
  <1>10. ASSUME ends' \in {ends, ends + 1}, scanning' \in {scanning, c.bill, -1},
                scanning' = -1 => CurrentList' = {}
         PROVE  Numbered' /\ InOrder'
    <2>1. ends' \in Nat /\ ends <= ends' /\ scanning' <= ends'
      BY <1>3, <1>4, <1>7, <1>8, <1>10
    <2>2. ASSUME NEW i \in 1 .. n - 1 PROVE commands'[i].bill <= ends'
      <3>1. commands'[i] = commands[i + 1] /\ i + 1 \in 1 .. n
        BY <1>4, <1>7
      <3>2. commands[i + 1].bill \in Nat /\ commands[i + 1].bill <= ends
        BY <1>6, <1>8, <3>1
      <3> QED
        BY <1>3, <2>1, <3>1, <3>2
    <2>3. Numbered'
      BY <1>4, <1>10, <2>1, <2>2 DEF Numbered
    <2>4. ASSUME typed = 0, NEW i \in 1 .. n - 1, NEW j \in 1 .. n - 1, i <= j
          PROVE  commands'[i].bill <= commands'[j].bill
      <3>1. /\ commands'[i] = commands[i + 1] /\ i + 1 \in 1 .. n
            /\ commands'[j] = commands[j + 1] /\ j + 1 \in 1 .. n
        BY <1>4, <1>7
      <3>2. i + 1 <= j + 1
        BY <1>4, <2>4
      <3>3. commands[i + 1].bill <= commands[j + 1].bill
        BY <1>9, <2>4, <3>1, <3>2
      <3> QED
        BY <3>1, <3>3
    <2>5. ASSUME typed = 0, NEW i \in 1 .. n - 1, commands'[i].type = "StopScan"
          PROVE  scanning' <= commands'[i].bill /\ commands'[i].bill < ends'
      <3>1. commands'[i] = commands[i + 1] /\ i + 1 \in 1 .. n /\ 1 <= i + 1
        BY <1>4, <1>7
      <3>2. scanning <= commands[i + 1].bill /\ commands[i + 1].bill < ends
        BY <1>9, <2>5, <3>1
      <3>3. c.bill <= commands[i + 1].bill
        BY <1>4, <1>7, <1>9, <2>5, <3>1
      <3>4. commands[i + 1].bill \in Nat
        BY <1>6, <3>1
      <3> QED
        BY <1>3, <1>7, <1>10, <2>1, <3>1, <3>2, <3>3, <3>4
    <2>6. InOrder'
      BY <1>2, <1>4, <2>4, <2>5 DEF InOrder
    <2> QED
      BY <2>3, <2>6
  <1>11. PassedOn' = PassedOn
    BY <1>2 DEF PassedOn
  <1>12. NothingToDisplay => InTheEnd' = InTheEnd
    BY <1>2, <1>11 DEF NothingToDisplay, InTheEnd
  <1>13. ASSUME InTheEnd' = InTheEnd, ends' = ends
         PROVE  \A u : (Listed(u)' <=> Listed(u)) /\ (ListedOnce(u)' <=> ListedOnce(u))
    BY <1>13, SameListed
  <1>14. CASE /\ scanning' = IF scanning = -1 THEN c.bill ELSE scanning
              /\ NothingToDisplay /\ UNCHANGED serverVars
    <2>1. UNCHANGED <<CurrentList, unpriced, ends>> /\ scanning' \in {scanning, c.bill, -1}
      BY <1>14 DEF serverVars
    <2>2. Numbered' /\ InOrder'
      BY <1>3, <1>7, <1>8, <1>10, <1>14, <2>1
    <2>3. CASE scanning = -1
      <3>1. CurrentList' = {}
        BY <1>8, <2>1, <2>3
      <3>2. KnownListed'
        BY <3>1 DEF KnownListed
      <3>3. ASSUME typed = 0, NEW u \in Priced PROVE ListedOnce(u)' /\ ~Listed(u)'
        <4>1. ListedOnce(u) /\ (Listed(u) => scanning = ends)
          BY <1>1, <3>3 DEF OnlyKnown
        <4>2. ~Listed(u)
          BY <1>3, <2>3, <4>1
        <4> QED
          BY <1>12, <1>13, <1>14, <2>1, <4>1, <4>2
      <3>4. OnlyKnown'
        BY <1>2, <3>3 DEF OnlyKnown
      <3> QED
        BY <2>2, <3>2, <3>4
    <2>4. CASE scanning # -1
      <3>1. scanning' = scanning /\ InTheEnd' = InTheEnd
        BY <1>12, <1>14, <2>4
      <3> QED
        BY <1>1, <1>2, <2>1, <2>2, <3>1, ListRests
    <2> QED
      BY <2>3, <2>4
  <1>15. CASE c.type = "StopScan" /\ scanning' = -1 /\ AutoStop
    <2>1. CurrentList' = {} /\ ends' = ends /\ InTheEnd' = InTheEnd
      BY <1>12, <1>15 DEF AutoStop, ClearCurrentList
    <2>2. Numbered' /\ InOrder'
      BY <1>10, <1>15, <2>1
    <2>3. KnownListed'
      BY <2>1 DEF KnownListed
    <2>4. ASSUME typed = 0, NEW u \in Priced PROVE ListedOnce(u)' /\ ~Listed(u)'
      <3>1. ListedOnce(u) /\ (Listed(u) => scanning = ends)
        BY <1>1, <2>4 DEF OnlyKnown
      <3>2. scanning <= c.bill /\ c.bill < ends
        BY <1>4, <1>7, <1>9, <1>15, <2>4
      <3>3. scanning # ends
        BY <1>3, <1>7, <3>2
      <3> QED
        BY <1>13, <2>1, <3>1, <3>3
    <2>5. OnlyKnown'
      BY <1>2, <2>4 DEF OnlyKnown
    <2> QED
      BY <2>2, <2>3, <2>5
  <1>16. CASE NothingToDisplay /\ UNCHANGED <<scanning, serverVars>>
    <2>1. UNCHANGED <<CurrentList, unpriced, ends, scanning>> /\ InTheEnd' = InTheEnd
      BY <1>12, <1>16 DEF serverVars
    <2>2. Numbered' /\ InOrder'
      BY <1>8, <1>10, <2>1
    <2> QED
      BY <1>1, <1>2, <2>1, <2>2, ListRests
  <1>17. CASE EpcData /\ UNCHANGED scanning
    <2> DEFINE item == [type |-> "REQUEST_TO_PAY", tag |-> NOBODY, bill |-> ends, asker |-> NOBODY,
                        alone |-> TRUE]
    <2>1. /\ ends' = ends + 1 /\ CurrentList' = CurrentList
          /\ OnReceivedFrame("REQUEST_TO_PAY", 0, NOBODY, ends, NOBODY)
      BY <1>17 DEF EpcData
    <2>2. Numbered' /\ InOrder'
      BY <1>8, <1>10, <1>17, <2>1
    <2>3. InTheEnd' = WithItem(InTheEnd, item) /\ item.type # "EPC_AUTO"
      <3>1. NOBODY \in Asker /\ NOBODY \in Tag \union {NOBODY}
        BY DEF Asker
      <3> QED
        BY <1>1, <1>2, <1>3, <1>11, <2>1, <3>1, FrameInTheEnd DEF ForScreen
    <2> HIDE DEF item
    <2>4. KnownListed' /\ OnlyKnown'
      BY <1>1, <1>17, <2>1, <2>3, BillClosed
    <2> QED
      BY <2>2, <2>4
  <1> QED
    BY <1>14, <1>15, <1>16, <1>17 DEF Obey, c

(* The four parts of BillInv are kept by every step.                       *)
LEMMA BillInductive == BillInv /\ [Next]_vars => BillInv'
  <1> SUFFICES ASSUME BillInv, [Next]_vars PROVE BillInv'
    OBVIOUS
  <1>1. TypeOK' /\ HonestScreen'
    BY NextTyped, HonestKept DEF BillInv
  <1>2. CASE \/ \E p \in Phone, button \in {"COMM_EPC_AUTO", "COMM_EPC_AUTO_STOP", "REQUEST_TO_PAY"} :
                  OnClick(p, button)
             \/ \E p \in Phone : OnPreviewFrame(p)
             \/ Console
    BY <1>1, <1>2, PeopleBill DEF BillInv
  <1>3. CASE \E t \in Tag : Report(t)
    BY <1>1, <1>3, ReportBill DEF BillInv
  <1>4. CASE Obey
    BY <1>1, <1>4, ObeyBill DEF BillInv
  <1>5. CASE \E s \in Sender : Handle(s)
    BY <1>1, <1>5, HandleBill DEF BillInv
  <1>6. CASE Update
    BY <1>1, <1>6, UpdateBill DEF BillInv
  <1>7. CASE UNCHANGED vars
    <2>1. UNCHANGED <<CurrentList, unpriced, ends, scanning, commands, typed, waiting, cQueue, screen>>
      BY <1>7 DEF vars, serverVars, readerVars, displayVars
    <2>2. InTheEnd' = InTheEnd
      BY <2>1 DEF InTheEnd, PassedOn
    <2>3. KnownListed' /\ OnlyKnown'
      BY <2>1, <2>2, ListRests DEF BillInv
    <2>4. Numbered' /\ InOrder'
      BY <2>1, CommandsRest DEF BillInv
    <2> QED
      BY <1>1, <2>3, <2>4 DEF BillInv
  <1> QED
    BY <1>2, <1>3, <1>4, <1>5, <1>6, <1>7 DEF Next

(* They hold at the start, when no bill was opened.                        *)
LEMMA InitBill == Init => BillInv
  <1> SUFFICES ASSUME Init PROVE BillInv
    OBVIOUS
  <1>1. TypeOK /\ HonestScreen
    BY InitTyped, InitOnTheBook
  <1>2. commands = <<>> /\ scanning = -1 /\ CurrentList = {} /\ ends = 0 /\ typed = 0
    BY DEF Init
  <1>3. Numbered /\ InOrder /\ KnownListed
    <2>1. Len(commands) = 0
      BY <1>2
    <2> QED
      BY <1>2, <2>1 DEF Numbered, InOrder, KnownListed
  <1>4. Text = <<>>
    <2>1. screen = [text |-> <<>>, dAllCount |-> 0] /\ cQueue = <<>>
      BY DEF Init
    <2>2. InTheEnd = [scr |-> screen, due |-> PassedOn]
      BY <2>1, NoItems DEF InTheEnd
    <2> QED
      BY <2>1, <2>2 DEF Text
  <1>5. OnlyKnown
    <2>1. DOMAIN Text = {}
      BY <1>4
    <2> QED
      BY <2>1 DEF OnlyKnown, Listed, ListedOnce
  <1> QED
    BY <1>1, <1>3, <1>5 DEF BillInv

(* How often a good is on the bill.                                        *)
LEMMA Counted ==
  ASSUME TypeOK, HonestScreen, NEW t
  PROVE  /\ Listed(t) => OnBill(t) = 1 \/ OnBill(t) > 1
         /\ Listed(t) /\ ListedOnce(t) => OnBill(t) = 1
         /\ ~Listed(t) => OnBill(t) = 0
  <1> DEFINE At == {i \in DOMAIN Text : Text[i] = Entry(t)}
  <1>1. OnBill(t) = Cardinality(At)
    BY DEF OnBill, Text, Entry
  <1>2. IsFiniteSet(At)
    <2>1. Text \in Seq([tag : Tag, bill : Nat])
      BY EndHonest DEF Text, Screen
    <2>2. DOMAIN Text = 1 .. Len(Text) /\ Len(Text) \in Nat
      BY <2>1, LenProperties
    <2>3. IsFiniteSet(DOMAIN Text)
      BY <2>2, FS_Interval
    <2> QED
      BY <2>3, FS_Subset
  <1>3. CASE ~Listed(t)
    <2>1. At = {}
      BY <1>3 DEF Listed
    <2> QED
      BY <1>1, <1>3, <2>1, FS_EmptySet
  <1>4. CASE Listed(t)
    <2>1. PICK i \in DOMAIN Text : Text[i] = Entry(t)
      BY <1>4 DEF Listed
    <2>2. At # {} /\ (ListedOnce(t) => At = {i})
      BY <2>1 DEF ListedOnce
    <2> HIDE DEF At
    <2>3. Cardinality(At) \in Nat /\ Cardinality(At) # 0
      BY <1>2, <2>2, FS_CardinalityType, FS_EmptySet
    <2>4. ListedOnce(t) => Cardinality(At) = 1
      BY <2>2, FS_Singleton
    <2> QED
      BY <1>1, <1>4, <2>3, <2>4
  <1> QED
    BY <1>3, <1>4

(* While the reader scans for the open bill, a good with a price that is   *)
(* known is on the bill exactly once, and one that is not known, or whose  *)
(* price could not be read, is not on it; after a command typed at the     *)
(* console a known good is on it at least.                                 *)
THEOREM BilledOnceAlways == Spec => []BilledOnce
  <1>1. BillInv => BilledOnce
    <2> SUFFICES ASSUME BillInv, scanning = ends, NEW t \in Priced
                 PROVE  IF t \in CurrentList \ unpriced
                        THEN OnBill(t) = 1 \/ (typed > 0 /\ OnBill(t) > 1)
                        ELSE OnBill(t) = 0 \/ typed > 0
      BY DEF BilledOnce
    <2>1. /\ Listed(t) => OnBill(t) = 1 \/ OnBill(t) > 1
          /\ Listed(t) /\ ListedOnce(t) => OnBill(t) = 1
          /\ ~Listed(t) => OnBill(t) = 0
      BY Counted DEF BillInv
    <2>2. t \in CurrentList \ unpriced => Listed(t)
      BY DEF BillInv, KnownListed
    <2>3. typed = 0 => ListedOnce(t) /\ (Listed(t) => t \in CurrentList \ unpriced)
      BY DEF BillInv, OnlyKnown
    <2>4. typed = 0 \/ typed > 0
      BY DEF BillInv, TypeOK
    <2> QED
      BY <2>1, <2>2, <2>3, <2>4
  <1> QED
    BY <1>1, InitBill, BillInductive, PTL DEF Spec
====
