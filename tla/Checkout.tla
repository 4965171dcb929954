------------------------------- MODULE Checkout -------------------------------
(***************************************************************************)
(* One till from the customer's button to the confirmed payment: phones    *)
(* (VideoActivity.java), the reader, the control thread of the server      *)
(* (ServerControl.cpp) and the price display (TCPHandle.cpp, CInterface.*, *)
(* RfidActivity.java), each working at its own pace.                       *)
(*                                                                         *)
(* Every device is registered and stays connected: module ServerControl    *)
(* shows that messages reach the right till, module DisplayLink what       *)
(* becomes of the display's connection and of its list of items when the   *)
(* two threads that use it overlap, module GoodsStore what a price is.     *)
(* TCP keeps the order of one sender's messages; the order in which those  *)
(* of different senders reach the server's queue is arbitrary, so a step   *)
(* of the control thread takes the first message of any sender.  Two of    *)
(* the four delays are merged with others that have the same effects.  A   *)
(* frame for the display is received in the step that sends it: nothing    *)
(* else reaches the display, so that to receive it late is to do late all  *)
(* that the server does from the sending on.  A report of the reader is    *)
(* handled in the step that makes it: nobody else hears the reader, so     *)
(* that to handle it late is to report, and to obey what follows, late.    *)
(* The commands to the reader and the phones' and the display's messages   *)
(* take their time.                                                        *)
(***************************************************************************)
EXTENDS Integers, Sequences, FiniteSets

CONSTANTS
  Phone,        (* the connections of the phones: the server's descriptors  *)
  DisplayConn,  (* that of the display                                      *)
  Number,       (* the number by which the phones name the till             *)
  Tag,          (* the EPC ids of the goods                                 *)
  Price,        (* what SelectItemsFromTable and the display make of a tag  *)
  DbMayFail,    (* TRUE: a query for a price may fail                       *)
  MaxActs,      (* bound on the buttons pressed and the commands typed      *)
  MaxTyped,     (* bound on the commands alone                              *)
  MaxSaid       (* bound on the messages of a phone on their way            *)

ASSUME ConnAssumption ==
  /\ Phone \subseteq Nat \ {0}
  /\ DisplayConn \in Nat \ ({0} \union Phone)
  /\ Number \in Nat \ (Phone \union {0, DisplayConn})
ASSUME PriceAssumption == Price \in [Tag -> Nat]
ASSUME BoundAssumption ==
  DbMayFail \in BOOLEAN /\ {MaxActs, MaxTyped, MaxSaid} \subseteq Nat

NOBODY == 0    (* SendData's id 0 is everybody; a frame from 0 is nobody's  *)

VARIABLES
  waiting,      (* of each sender: what the control thread has not handled  *)
  CurrentList,  (* the tags of the current scan                             *)
  commands,     (* the server's commands the reader has not obeyed          *)
  scanning,     (* the number of the bill the reader scans for, or -1       *)
  ulDest,       (* the display: the destination of the last frame received  *)
  cQueue,       (* the display: the items its UI thread has not shown       *)
  screen,       (* the display: the list in tPayView, and dAllCount         *)
  bIsNeedToSend,(* the phones that owe a picture                            *)
  taps, typed,
  ends,         (* history: how many bills the server has had the display   *)
                (* close or clear                                           *)
  unpriced      (* history: the tags in CurrentList whose query failed      *)

phoneVars == <<bIsNeedToSend, taps>>
serverVars == <<CurrentList, ends, unpriced>>
readerVars == <<commands, scanning>>
displayVars == <<ulDest, cQueue, screen>>
vars == <<waiting, phoneVars, serverVars, readerVars, displayVars, typed>>

Sender == Phone \union {DisplayConn}

Init ==
  /\ waiting = [s \in Sender |-> <<>>]
  /\ CurrentList = {} /\ ends = 0 /\ unpriced = {}
  /\ commands = <<>> /\ scanning = -1
  /\ ulDest = 0 /\ cQueue = <<>>
  /\ screen = [text |-> <<>>, dAllCount |-> 0]
  /\ bIsNeedToSend = {} /\ taps = 0 /\ typed = 0

Say(s, msg) == waiting' = [waiting EXCEPT ![s] = Append(@, msg)]

(***************************************************************************)
(* The phones.                                                             *)
(***************************************************************************)
(* onClick: scan (which also makes a picture due), clear or pay.           *)
OnClick(p, button) ==
  /\ taps + typed < MaxActs /\ Len(waiting[p]) < MaxSaid
  /\ taps' = taps + 1
  /\ Say(p, [type |-> button])
  /\ bIsNeedToSend' = IF button = "COMM_EPC_AUTO" THEN bIsNeedToSend \union {p} ELSE bIsNeedToSend
  /\ UNCHANGED <<serverVars, readerVars, displayVars, typed>>

(* onPreviewFrame.                                                         *)
OnPreviewFrame(p) ==
  /\ p \in bIsNeedToSend /\ Len(waiting[p]) < MaxSaid
  /\ bIsNeedToSend' = bIsNeedToSend \ {p}
  /\ Say(p, [type |-> "VIDEO"])
  /\ UNCHANGED <<serverVars, readerVars, displayVars, taps, typed>>

(***************************************************************************)
(* The control thread.                                                     *)
(***************************************************************************)
Command(type) == commands' = Append(commands, [type |-> type, bill |-> ends])

(* The frames CallbackForSystemBuf hands on to SetPayTextView.             *)
(* Variant: requests to pay are not among them.                            *)
ForScreen_Goods == {"EPC_AUTO", "EPC_AUTO_STOP"}
ForScreen == {"EPC_AUTO", "EPC_AUTO_STOP", "REQUEST_TO_PAY"}

(* What the display's receive thread does with a frame: it keeps the       *)
(* destination and, if the frame is for the screen, queues an item.        *)
(* History: a request to pay is alone until another frame comes before it  *)
(* is confirmed.                                                           *)
OnReceivedFrame(type, dest, tag, bill, asker) ==
  LET before == [i \in DOMAIN cQueue |-> [cQueue[i] EXCEPT !.alone = FALSE]]
      item   == [type |-> type, tag |-> tag, bill |-> bill, asker |-> asker, alone |-> TRUE]
  IN  /\ ulDest' = dest
      /\ cQueue' = IF type \in ForScreen THEN Append(before, item) ELSE before

(* Goods and pictures say nothing about a payment.                         *)
Plain(type, dest) == OnReceivedFrame(type, dest, NOBODY, ends, NOBODY)
NothingToDisplay == UNCHANGED <<ulDest, cQueue>>

(* Variant: a stop of the reader empties nothing.                          *)
ClearCurrentList_Not == UNCHANGED <<CurrentList, unpriced>>
ClearCurrentList == CurrentList' = {} /\ unpriced' = {}

(* EPC_AUTO of a tag that is not in the list, 332-371.                     *)
EpcAuto(t, bill) ==
  /\ t \notin CurrentList
  /\ CurrentList' = CurrentList \union {t}
  /\ \/ /\ OnReceivedFrame("EPC_AUTO", 0, t, bill, NOBODY)
        /\ UNCHANGED unpriced
     \/ DbMayFail /\ unpriced' = unpriced \union {t} /\ NothingToDisplay
  /\ UNCHANGED ends

EpcAutoAgain(t) ==
  /\ t \in CurrentList
  /\ NothingToDisplay
  /\ UNCHANGED serverVars

AutoStop ==
  /\ ClearCurrentList
  /\ NothingToDisplay
  /\ UNCHANGED ends

(* EPC_DATA, 298-314: its number is that of a request to pay.              *)
EpcData ==
  /\ OnReceivedFrame("REQUEST_TO_PAY", 0, NOBODY, ends, NOBODY)
  /\ ends' = ends + 1
  /\ UNCHANGED <<CurrentList, unpriced>>

Video(msg) ==
  /\ msg.type = "VIDEO"
  /\ Plain("VIDEO", Number)
  /\ UNCHANGED <<CurrentList, unpriced, ends, commands>>

CommEpcAuto(msg) ==
  /\ msg.type = "COMM_EPC_AUTO"
  /\ Command("AutoScan")
  /\ NothingToDisplay
  /\ UNCHANGED <<CurrentList, unpriced, ends>>

CommEpcAutoStop(msg, p) ==
  /\ msg.type = "COMM_EPC_AUTO_STOP"
  /\ Command("StopScan")
  /\ Plain("EPC_AUTO_STOP", p)
  /\ ends' = ends + 1
  /\ UNCHANGED <<CurrentList, unpriced>>

(* Variant: the display is not told who asks, as with goods.               *)
RequestToPay_NoSource(msg, p) ==
  /\ msg.type = "REQUEST_TO_PAY"
  /\ Command("StopScan")
  /\ OnReceivedFrame("REQUEST_TO_PAY", 0, NOBODY, ends, p)
  /\ ends' = ends + 1
  /\ UNCHANGED <<CurrentList, unpriced>>

RequestToPay(msg, p) ==
  /\ msg.type = "REQUEST_TO_PAY"
  /\ Command("StopScan")
  /\ OnReceivedFrame("REQUEST_TO_PAY", p, NOBODY, ends, p)
  /\ ends' = ends + 1
  /\ UNCHANGED <<CurrentList, unpriced>>

(* 562-570: to everybody, the display included, when the destination is 0. *)
(* The frame carries the display's own connection.                         *)
Addressed(dest) == {c \in Phone \union {DisplayConn} : dest = 0 \/ c = dest}
ConfirmPayMent(msg) ==
  /\ msg.type = "CONFIRM_PAY_MENT"
  /\ IF DisplayConn \in Addressed(msg.dest)
     THEN Plain("CONFIRM_PAY_MENT", DisplayConn) ELSE NothingToDisplay
  /\ UNCHANGED <<CurrentList, unpriced, ends, commands>>

Handle(s) ==
  /\ waiting[s] # <<>>
  /\ waiting' = [waiting EXCEPT ![s] = Tail(@)]
  /\ LET msg == Head(waiting[s]) IN
       \/ Video(msg) \/ CommEpcAuto(msg) \/ CommEpcAutoStop(msg, s) \/ RequestToPay(msg, s)
       \/ ConfirmPayMent(msg)
  /\ UNCHANGED <<scanning, screen, phoneVars, typed>>

(***************************************************************************)
(* The reader, a device of its own, as the server uses it, with RFIDData.  *)
(***************************************************************************)
Report(t) ==
  /\ scanning # -1
  /\ EpcAuto(t, scanning) \/ EpcAutoAgain(t)
  /\ UNCHANGED <<waiting, readerVars, screen, phoneVars, typed>>

(* It reports the end of a scan; told to stop when it is not scanning it   *)
(* may report an end as well.                                              *)
Obey ==
  /\ commands # <<>>
  /\ commands' = Tail(commands)
  /\ \/ /\ Head(commands).type = "AutoScan"
        /\ scanning' = IF scanning = -1 THEN Head(commands).bill ELSE scanning
        /\ NothingToDisplay /\ UNCHANGED serverVars
     \/ /\ Head(commands).type = "StopScan"
        /\ scanning' = -1
        /\ AutoStop
     \/ /\ Head(commands).type = "StopScan" /\ scanning = -1
        /\ NothingToDisplay /\ UNCHANGED <<scanning, serverVars>>
     \/ /\ Head(commands).type = "ReadData"
        /\ EpcData
        /\ UNCHANGED scanning
  /\ UNCHANGED <<waiting, screen, phoneVars, typed>>

(* RFIDAutoScan, RFIDStopScan and RFIDReadData, typed at the console.      *)
Console ==
  /\ taps + typed < MaxActs /\ typed < MaxTyped
  /\ typed' = typed + 1
  /\ \E type \in {"AutoScan", "StopScan", "ReadData"} : Command(type)
  /\ UNCHANGED <<waiting, serverVars, scanning, displayVars, phoneVars>>

(***************************************************************************)
(* The display.                                                            *)
(***************************************************************************)
(* A good: the list is cleared with the first one after a sum of 0.        *)
WithGood(scr, item) ==
  [text |-> Append(IF scr.dAllCount = 0 THEN <<>> ELSE scr.text,
                   [tag |-> item.tag, bill |-> item.bill]),
   dAllCount |-> scr.dAllCount + Price[item.tag]]

(* Variant: the sum goes on after a payment.                               *)
AfterItem_KeepTotal(scr, item) ==
  IF item.type = "EPC_AUTO" THEN WithGood(scr, item)
  ELSE [text |-> <<>>, dAllCount |-> IF item.type = "EPC_AUTO_STOP" THEN 0 ELSE scr.dAllCount]

(* update: what the next item makes of the screen.  "Thank you" is an      *)
(* empty list.                                                             *)
AfterItem(scr, item) ==
  IF item.type = "EPC_AUTO" THEN WithGood(scr, item) ELSE [text |-> <<>>, dAllCount |-> 0]

(* With RequestToPay: a confirmation of the sum to the ulDest of now.      *)
Update ==
  /\ cQueue # <<>>
  /\ cQueue' = Tail(cQueue)
  /\ screen' = AfterItem(screen, Head(cQueue))
  /\ LET item == Head(cQueue) IN
       IF item.type = "REQUEST_TO_PAY"
       THEN Say(DisplayConn, [type |-> "CONFIRM_PAY_MENT", dest |-> ulDest,
                              amount |-> screen.dAllCount, asker |-> item.asker,
                              alone |-> item.alone])
       ELSE UNCHANGED waiting
  /\ UNCHANGED <<serverVars, readerVars, ulDest, phoneVars, typed>>

Next ==
  \/ \E p \in Phone :
       \/ \E button \in {"COMM_EPC_AUTO", "COMM_EPC_AUTO_STOP", "REQUEST_TO_PAY"} :
            OnClick(p, button)
       \/ OnPreviewFrame(p)
  \/ \E t \in Tag : Report(t)
  \/ Obey
  \/ \E s \in Sender : Handle(s)
  \/ Console
  \/ Update

Spec == Init /\ [][Next]_vars

(* The control thread, the display's receive thread and its UI go on, and  *)
(* every message is delivered.                                             *)
FairSpec ==
  /\ Spec
  /\ \A s \in Sender : WF_vars(Handle(s))
  /\ WF_vars(Update)

(***************************************************************************)
(* Properties.                                                             *)
(***************************************************************************)
(* Every variable holds a value of its kind; in particular what waits for  *)
(* the screen as a good is one, and a sum is never negative.               *)
Asker == Phone \union {NOBODY}
ClientSays == [type : {"COMM_EPC_AUTO", "COMM_EPC_AUTO_STOP", "REQUEST_TO_PAY", "VIDEO"}]
DisplaySays == [type : {"CONFIRM_PAY_MENT"}, dest : Nat, amount : Nat, asker : Asker,
                alone : BOOLEAN]
Item == [type : ForScreen, tag : Tag \union {NOBODY}, bill : Nat, asker : Asker, alone : BOOLEAN]
TypeOK ==
  /\ waiting \in [Sender -> Seq(ClientSays \union DisplaySays)]
  /\ \A p \in Phone : waiting[p] \in Seq(ClientSays)
  /\ waiting[DisplayConn] \in Seq(DisplaySays)
  /\ CurrentList \subseteq Tag /\ unpriced \subseteq CurrentList /\ ends \in Nat
  /\ commands \in Seq([type : {"AutoScan", "StopScan", "ReadData"}, bill : Nat])
  /\ scanning \in Nat \union {-1}
  /\ ulDest \in Nat
  /\ cQueue \in Seq(Item)
  /\ \A i \in 1 .. Len(cQueue) : cQueue[i].type = "EPC_AUTO" => cQueue[i].tag \in Tag
  /\ screen \in [text : Seq([tag : Tag, bill : Nat]), dAllCount : Nat]
  /\ bIsNeedToSend \subseteq Phone /\ taps \in Nat /\ typed \in Nat

(* The screen when the items that wait have been shown, and what is due    *)
(* then: what the server has still to pass on, and what the requests to    *)
(* pay among those items will be confirmed with.                           *)
Bill(asker, amount) == [asker |-> asker, amount |-> amount]
WithItem(s, item) ==
  [scr |-> AfterItem(s.scr, item),
   due |-> IF item.type = "REQUEST_TO_PAY"
           THEN Append(s.due, Bill(item.asker, s.scr.dAllCount)) ELSE s.due]
AfterItems(s, items) ==
  LET Then[i \in 0 .. Len(items)] ==
        IF i = 0 THEN s ELSE WithItem(Then[i - 1], items[i])
  IN  Then[Len(items)]

PassedOn == [i \in DOMAIN waiting[DisplayConn] |->
               Bill(waiting[DisplayConn][i].asker, waiting[DisplayConn][i].amount)]
InTheEnd == AfterItems([scr |-> screen, due |-> PassedOn], cQueue)

(* What costs nothing may be missing on the screen.                        *)
Priced == {t \in Tag : Price[t] > 0}
WithTag(goods, t) == IF t \in Priced THEN Append(goods, t) ELSE goods
GoodsOn(text) ==
  LET Upto[i \in 0 .. Len(text)] ==
        IF i = 0 THEN <<>> ELSE WithTag(Upto[i - 1], text[i].tag)
  IN  Upto[Len(text)]
OpenBill == GoodsOn(InTheEnd.scr.text)

Book == INSTANCE BillBook
          WITH Goods <- Priced, Asker <- Phone \union {NOBODY},
               bill <- OpenBill, due <- InTheEnd.due

(* The till is a bill book: however far the display lags behind, whatever  *)
(* is read, typed or tapped meanwhile, a payment is for the goods the      *)
(* server had put on the bill when it handled the request, every request   *)
(* is confirmed once and in order, and the sum is that of the list on the  *)
(* screen (RfidActivity.java 179-218, ServerControl.cpp 520-561).          *)
ImplementsBillBook == Book!Spec

(* While the reader scans for the open bill, the list of the current scan, *)
(* which decides what is new, and the bill, in the display, agree: a good  *)
(* that is ignored as known is on the bill exactly once, and one that is   *)
(* not known is not on it; only a query that failed keeps a good off, for  *)
(* the rest of the scan.  The list is thus always emptied between two      *)
(* customers although nobody waits for the reader.  After a command typed  *)
(* at the console a good may be on the bill again (ServerControl.cpp 334,  *)
(* 374, 579).                                                              *)
OnBill(t) ==
  Cardinality({i \in DOMAIN InTheEnd.scr.text : InTheEnd.scr.text[i] = [tag |-> t, bill |-> ends]})
BilledOnce ==
  scanning = ends =>
    \A t \in Priced :
      IF t \in CurrentList \ unpriced
      THEN OnBill(t) = 1 \/ (typed > 0 /\ OnBill(t) > 1)
      ELSE OnBill(t) = 0 \/ typed > 0

(* A customer's payment is confirmed to that customer's phone and no other *)
(* unless the server sends the display something else before the display   *)
(* has taken up the request: a tag the reader reported before it obeyed    *)
(* the command to stop, or a picture (ServerControl.cpp 557-567,           *)
(* TCPHandle.cpp 216, 420).                                                *)
ConfirmedToAsker ==
  \A i \in DOMAIN waiting[DisplayConn] :
    LET m == waiting[DisplayConn][i]
    IN  m.asker # NOBODY /\ m.alone => Addressed(m.dest) = {m.asker}

(* And every request to pay is followed by such a confirmation, or was     *)
(* disturbed in that way.                                                  *)
Asked(p) == \E i \in DOMAIN waiting[p] : waiting[p][i].type = "REQUEST_TO_PAY"
Confirmed(p) ==
  \E i \in DOMAIN waiting[DisplayConn] :
    waiting[DisplayConn][i].asker = p /\ p \in Addressed(waiting[DisplayConn][i].dest)
Disturbed(p) == \E i \in DOMAIN cQueue : cQueue[i].asker = p /\ ~cQueue[i].alone
PaymentAnswered == \A p \in Phone : Asked(p) ~> Confirmed(p) \/ Disturbed(p)
=============================================================================
