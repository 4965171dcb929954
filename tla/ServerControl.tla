---------------------------- MODULE ServerControl ----------------------------
(***************************************************************************)
(* LinuxServer/serverControl/ServerControl.cpp: the control thread of the  *)
(* server, which takes the messages of all the sessions from one queue and *)
(* answers each by sending to the reader or the display of a till, with    *)
(* the sessions of network/TCPServerHandle.cpp around it.                  *)
(*                                                                         *)
(* One handler is one step.  The device tables and CurrentList are used by *)
(* the control thread alone; the other threads change which sessions are   *)
(* alive and what is queued behind, and a session that ends between two    *)
(* sends of a handler has the same effect as one that ended before it.     *)
(* The queue is the FIFO that module BitSideQueue proves it to be.         *)
(***************************************************************************)
EXTENDS Integers, Sequences, RfidDeque

CONSTANTS
  Conn,        (* the descriptors accept can return                         *)
  Till,        (* the rows of the device table in the database: the number  *)
               (* by which clients name a till                              *)
  Reader,      (* RFID readers, connected to port 6000                      *)
  Display,     (* price displays, connected to port 15566                   *)
  Client,      (* camera phones, connected to port 15566                    *)
  Tag,         (* EPC ids of the goods                                      *)
  ReaderAt,    (* the database: the reader of each till                     *)
  DisplayAt,   (* the database: the display of each till                    *)
  Kinds,       (* the types of message an instance considers                *)
  DbMayFail,   (* TRUE: a query may fail or find nothing                    *)
  MaxQueue     (* bound on the messages waiting in the queue                *)

Party == Reader \union Display \union Client

ASSUME ConnAssumption == Conn \subseteq Nat \ {0}
ASSUME PartyAssumption ==
  /\ NULL \notin Party
  /\ Reader \intersect Display = {}
  /\ Reader \intersect Client = {}
  /\ Display \intersect Client = {}
(* Every device stands at one till; the installed table has one row.       *)
ASSUME TillAssumption ==
  /\ ReaderAt \in [Till -> Reader]
  /\ DisplayAt \in [Till -> Display]
  /\ \A S, T \in Till : ReaderAt[S] = ReaderAt[T] \/ DisplayAt[S] = DisplayAt[T]
                          => S = T
ASSUME NullAssumption == NULL \notin Till
ASSUME BoundAssumption == DbMayFail \in BOOLEAN /\ MaxQueue \in Nat

VARIABLES
  owner,             (* who is at the other end of each accepted connection *)
  alive,             (* the sessions whose iSocket is not -1                *)
  slSessionList,     (* the sessions in the list of their server            *)
  written,           (* the sessions something was queued for: their send   *)
                     (* thread may find the connection broken               *)
  queue,             (* the messages queued for the control thread          *)
  RfidDeviceDeque,   (* the table of the readers                            *)
  RfidDisplayDeque,  (* the table of the displays                           *)
  CurrentList,       (* the tags of the current scan                        *)
  shown,             (* history: how often each tag was sent to a display   *)
                     (* since CurrentList was cleared                       *)
  output             (* history: the frames queued for sessions by the last *)
                     (* step                                                *)

network == <<owner, alive, slSessionList>>
control == <<RfidDeviceDeque, RfidDisplayDeque, CurrentList, shown>>
vars == <<network, written, queue, control, output>>

Socket == Conn \union {INVALID_SOCKET}

Init ==
  /\ owner = [t \in Conn |-> NULL]
  /\ alive = {}
  /\ slSessionList = {}
  /\ written = {}
  /\ queue = <<>>
  /\ RfidDeviceDeque = [k \in Socket |-> NULL]
  /\ RfidDisplayDeque = [k \in Socket |-> NULL]
  /\ CurrentList = {}
  /\ shown = [g \in Tag |-> 0]
  /\ output = {}

-----------------------------------------------------------------------------
(* The sessions.                                                           *)

RfidServer == {t \in Conn : owner[t] \in Reader}
UserServer == {t \in Conn : owner[t] \in Display \union Client}

SamePort(p, q) == p \in Reader <=> q \in Reader

(* Variant: the descriptor of a phone is closed when its session ends, and *)
(* accepted again for another phone or a display.                          *)
Accept_Reuse(t, p) ==
  /\ t \notin alive
  /\ owner[t] # NULL => owner[t] \in Client /\ p \notin Reader
  /\ owner' = [owner EXCEPT ![t] = p]
  /\ alive' = alive \union {t}
  /\ slSessionList' = slSessionList \ {t}
  /\ output' = {}
  /\ UNCHANGED <<written, queue, control>>

(* The accept loop and AddTcpSession up to line 134: the threads of the    *)
(* session run.  The loop finished with its previous session.  Accepted    *)
(* descriptors are never closed while the server runs, so never reused.    *)
Accept(t, p) ==
  /\ owner[t] = NULL
  /\ \A u \in Conn : owner[u] # NULL /\ SamePort(owner[u], p) => u \in slSessionList
  /\ owner' = [owner EXCEPT ![t] = p]
  /\ alive' = alive \union {t}
  /\ output' = {}
  /\ UNCHANGED <<slSessionList, written, queue, control>>

(* AddTcpSession line 136.                                                 *)
PushBack(t) ==
  /\ owner[t] # NULL
  /\ t \notin slSessionList
  /\ slSessionList' = slSessionList \union {t}
  /\ output' = {}
  /\ UNCHANGED <<owner, alive, written, queue, control>>

(* recv returned 0 (462) or a send failed (390): the session ends.         *)
Ends(t) ==
  /\ t \in alive
  /\ alive' = alive \ {t}
  /\ output' = {}
  /\ UNCHANGED <<owner, slSessionList, written, queue, control>>

(* What each party sends: [type, dest, tag].  A display confirms a payment *)
(* to the source of a frame it received before, or, having received none   *)
(* with a source, to 0.                                                    *)
ReaderSays ==
  [type : {"NETINFO", "EPC_DATA", "AUTO_STOP", "HEARTBEAT"}, dest : {0}, tag : {NULL}]
    \union [type : {"EPC_AUTO"}, dest : {0}, tag : Tag]
DisplaySays ==
  [type : {"DISPLAYS_DEV", "NONE"}, dest : {0}, tag : {NULL}]
    \union [type : {"CONFIRM_PAY_MENT"}, dest : Socket \union {0}, tag : {NULL}]
ClientSays ==
  [type : {"VIDEO", "COMM_EPC_AUTO", "COMM_EPC_AUTO_STOP", "REQUEST_TO_PAY"},
   dest : Till, tag : {NULL}]
Says(p) == CASE p \in Reader  -> ReaderSays
             [] p \in Display ->
                  {m \in DisplaySays : m.dest \in Conn => owner[m.dest] \in Client}
             [] p \in Client  -> ClientSays

(* Receivefunc and ReceiveTcpHandleBuff: a message is queued with the      *)
(* value iSocket has at that moment, which is -1 when the send thread,     *)
(* having something to send, found the connection broken after recv        *)
(* returned.                                                               *)
Receive(t, said, s) ==
  /\ t \in alive
  /\ said.type \in Kinds
  /\ Len(queue) < MaxQueue
  /\ s \in {t} \union (IF t \in written THEN {INVALID_SOCKET} ELSE {})
  /\ queue' = Append(queue, [said |-> said, src |-> s, by |-> owner[t]])
  /\ alive' = IF s = t THEN alive ELSE alive \ {t}
  /\ output' = {}
  /\ UNCHANGED <<owner, slSessionList, written, control>>

-----------------------------------------------------------------------------
(* Sending.                                                                *)

(* TcpServer::SendData on one of the two servers and TCPSession::SendData: *)
(* id 0 is everybody; a session that ended takes nothing.                  *)
SendData(server, id, type, dest, msg, till) ==
  {[to |-> t, type |-> type, dest |-> dest, src |-> msg.src, by |-> msg.by,
    till |-> till] :
     t \in {u \in server \intersect slSessionList \intersect alive : id = 0 \/ u = id}}

(* Variant: the test is missing.                                           *)
Forward_NoTest(server, id, type, dest, msg, till) ==
  SendData(server, id, type, dest, msg, till)

(* The handlers' test "if(wmFalse == iGSocket) break".                     *)
Forward(server, id, type, dest, msg, till) ==
  IF id = 0 THEN {} ELSE SendData(server, id, type, dest, msg, till)

(* GetDeviceInfo and then GetSocketId, from the device id a client names.  *)
ReaderOf(T, found) ==
  IF found THEN GetSocketId(RfidDeviceDeque, ReaderAt[T]) ELSE 0
(* Variant: the query names the column of the readers.                     *)
DisplayOf_ReaderColumn(T, found) ==
  IF found THEN GetSocketId(RfidDisplayDeque, ReaderAt[T]) ELSE 0

DisplayOf(T, found) ==
  IF found THEN GetSocketId(RfidDisplayDeque, DisplayAt[T]) ELSE 0

(* From the connection a reader's message came through: GetDeviceId, the   *)
(* row of that reader, and its display.                                    *)
TillsOf(r) == {T \in Till : ReaderAt[T] = r}
DisplayNextTo(s, found) ==
  IF found /\ TillsOf(GetDeviceId(RfidDeviceDeque, s)) # {}
  THEN GetSocketId(RfidDisplayDeque,
         DisplayAt[CHOOSE T \in TillsOf(GetDeviceId(RfidDeviceDeque, s)) : TRUE])
  ELSE 0

(* The till a reader's message is about (history).                         *)
TillOfReader(r) == IF TillsOf(r) = {} THEN NULL ELSE CHOOSE T \in TillsOf(r) : TRUE

(* Whether a query succeeds.                                               *)
Found == IF DbMayFail THEN BOOLEAN ELSE {TRUE}

-----------------------------------------------------------------------------
(* The handlers: RFIDData for what readers say, OnReceivedData for the     *)
(* rest.                                                                   *)

(* NETINFO and NETINFO_ALL, 284-297.                                       *)
NetInfo(msg) ==
  /\ msg.said.type = "NETINFO"
  /\ \E passed \in MayPass(RfidDeviceDeque, msg.src, msg.by) :
       RfidDeviceDeque' = AddBufferMap(RfidDeviceDeque, msg.src, msg.by, passed)
  /\ output' = {}
  /\ UNCHANGED <<RfidDisplayDeque, CurrentList, shown>>

(* EPC_DATA and EPC_DATA_EPCID, 298-331.                                   *)
EpcData(msg) ==
  /\ msg.said.type = "EPC_DATA"
  /\ \E found \in Found :
       output' = Forward(UserServer, DisplayNextTo(msg.src, found), "EPC_DATA", 0,
                         msg, TillOfReader(msg.by))
  /\ UNCHANGED control

(* Variant: the list takes a tag that is in it.                             *)
AddCurrentList_Always(g) == TRUE

(* AddCurrentList refuses a tag that is in the list.                       *)
AddCurrentList(g) == g \notin CurrentList

(* EPC_AUTO, 332-371, for a tag that is new: it stays in the list whatever *)
(* becomes of the query for its price and of the display.                  *)
EpcAuto(msg) ==
  /\ msg.said.type = "EPC_AUTO"
  /\ AddCurrentList(msg.said.tag)
  /\ CurrentList' = CurrentList \union {msg.said.tag}
  /\ \E priced, found \in Found :
       output' = IF priced
                 THEN Forward(UserServer, DisplayNextTo(msg.src, found), "EPC_AUTO", 0,
                              msg, TillOfReader(msg.by))
                 ELSE {}
  /\ shown' = [shown EXCEPT ![msg.said.tag] = @ + (IF output' = {} THEN 0 ELSE 1)]
  /\ UNCHANGED <<RfidDeviceDeque, RfidDisplayDeque>>

EpcAutoAgain(msg) ==
  /\ msg.said.type = "EPC_AUTO"
  /\ ~AddCurrentList(msg.said.tag)
  /\ output' = {}
  /\ UNCHANGED control

(* AUTO_STOP, 372-393, with ClearCurrentList.                              *)
AutoStop(msg) ==
  /\ msg.said.type = "AUTO_STOP"
  /\ CurrentList' = {}
  /\ shown' = [g \in Tag |-> 0]
  /\ output' = {}
  /\ UNCHANGED <<RfidDeviceDeque, RfidDisplayDeque>>

(* HEARBAET (280), and the types without a handler (default, 571).         *)
Ignored(msg) ==
  /\ msg.said.type \in {"HEARTBEAT", "NONE"}
  /\ output' = {}
  /\ UNCHANGED control

(* DISPLAYS_DEV, 420-431.                                                  *)
DisplaysDev(msg) ==
  /\ msg.said.type = "DISPLAYS_DEV"
  /\ \E passed \in MayPass(RfidDisplayDeque, msg.src, msg.by) :
       RfidDisplayDeque' = AddBufferMap(RfidDisplayDeque, msg.src, msg.by, passed)
  /\ output' = {}
  /\ UNCHANGED <<RfidDeviceDeque, CurrentList, shown>>

(* VIDEO_H264, VIDEO_YV12 and VIDEO_RGB32, 432-456.                        *)
Video(msg) ==
  /\ msg.said.type = "VIDEO"
  /\ \E found \in Found :
       output' = Forward(UserServer, DisplayOf(msg.said.dest, found), "VIDEO",
                         msg.said.dest, msg, msg.said.dest)
  /\ UNCHANGED control

(* RFID_COMM_EPC_AUTO, 457-478.                                            *)
CommEpcAuto(msg) ==
  /\ msg.said.type = "COMM_EPC_AUTO"
  /\ \E found \in Found :
       output' = Forward(RfidServer, ReaderOf(msg.said.dest, found), "RFIDAutoScanComm",
                         0, msg, msg.said.dest)
  /\ UNCHANGED control

(* What 479-519 and 520-561 share: stop the reader of the till, and, when  *)
(* there is one, tell its display.                                         *)
StopAndTell(msg, type) ==
  \E found, foundToo \in Found :
    LET reader  == ReaderOf(msg.said.dest, found)
        display == DisplayOf(msg.said.dest, foundToo)
    IN  output' =
          IF reader = 0 THEN {}
          ELSE SendData(RfidServer, reader, "RFIDStopScanComm", 0, msg, msg.said.dest)
                 \union Forward(UserServer, display, type, msg.src, msg, msg.said.dest)

(* RFID_COMM_EPC_AUTO_STOP.                                                *)
CommEpcAutoStop(msg) ==
  /\ msg.said.type = "COMM_EPC_AUTO_STOP"
  /\ StopAndTell(msg, "EPC_AUTO_STOP")
  /\ UNCHANGED control

(* RFID_REQUEST_TO_PAY.                                                    *)
RequestToPay(msg) ==
  /\ msg.said.type = "REQUEST_TO_PAY"
  /\ StopAndTell(msg, "REQUEST_TO_PAY")
  /\ UNCHANGED control

(* RFID_CONFIRM_PAY_MENT, 562-570: no test of the id, so 0 is everybody.   *)
ConfirmPayMent(msg) ==
  /\ msg.said.type = "CONFIRM_PAY_MENT"
  /\ output' = SendData(UserServer, msg.said.dest, "CONFIRM_PAY_MENT", msg.src, msg, NULL)
  /\ UNCHANGED control

(* ThreadProcServerControl, 139-149.                                       *)
Handle ==
  /\ queue # <<>>
  /\ queue' = Tail(queue)
  /\ LET msg == Head(queue) IN
       \/ NetInfo(msg)
       \/ EpcData(msg)
       \/ EpcAuto(msg)
       \/ EpcAutoAgain(msg)
       \/ AutoStop(msg)
       \/ Ignored(msg)
       \/ DisplaysDev(msg)
       \/ Video(msg)
       \/ CommEpcAuto(msg)
       \/ CommEpcAutoStop(msg)
       \/ RequestToPay(msg)
       \/ ConfirmPayMent(msg)
  /\ written' = written \union {f.to : f \in output'}
  /\ UNCHANGED network

(* RFIDAutoScan and its siblings, 153-226, from the console (main thread): *)
(* a command for every reader.                                             *)
Console ==
  /\ output' = SendData(RfidServer, 0, "Console", 0,
                        [src |-> 0, by |-> NULL], NULL)
  /\ written' = written \union {f.to : f \in output'}
  /\ UNCHANGED <<network, queue, control>>

Next ==
  \/ \E t \in Conn, p \in Party : Accept(t, p)
  \/ \E t \in Conn : PushBack(t)
  \/ \E t \in Conn : Ends(t)
  \/ \E t \in alive : \E said \in Says(owner[t]), s \in Socket : Receive(t, said, s)
  \/ Handle
  \/ Console

Spec == Init /\ [][Next]_vars

(* The control thread never blocks and the accept loop finishes its call   *)
(* of AddTcpSession.                                                       *)
Fairness ==
  /\ WF_vars(Handle)
  /\ \A t \in Conn : WF_vars(PushBack(t))

FairSpec == Spec /\ Fairness

-----------------------------------------------------------------------------
(* Properties.                                                             *)

Said == ReaderSays \union DisplaySays \union ClientSays
Message == [said : Said, src : Socket, by : Party]
Heard(f) == f.till # NULL /\ (f.src # INVALID_SOCKET \/ f.by \in Client)

(* Every variable holds a value of its kind.                               *)
TypeOK ==
  /\ owner \in [Conn -> Party \union {NULL}]
  /\ alive \subseteq Conn
  /\ slSessionList \subseteq Conn
  /\ written \subseteq Conn
  /\ queue \in Seq(Message)
  /\ RfidDeviceDeque \in [Socket -> Reader \union {NULL}]
  /\ RfidDisplayDeque \in [Socket -> Display \union {NULL}]
  /\ CurrentList \subseteq Tag
  /\ shown \in [Tag -> Nat]
  /\ \A f \in output : f.to \in Conn /\ f.till \in Till \union {NULL}

(* Whatever connections come and go and however registrations and messages *)
(* interleave, a command goes to the reader, and goods, pictures and       *)
(* payments go to the display, of the till they are about, and to nobody   *)
(* else; in particular a route of 0 never becomes a broadcast.  A reader's *)
(* message that lost its source (-1) is excepted: the table may hold       *)
(* another reader that registered with -1.                                 *)
RightTill ==
  \A f \in output : Heard(f) =>
    owner[f.to] = IF f.type \in {"RFIDAutoScanComm", "RFIDStopScanComm"}
                  THEN ReaderAt[f.till] ELSE DisplayAt[f.till]

(* The display is given, as the one to answer, the connection of the       *)
(* client that asked to stop or to pay, although that client's connection  *)
(* may have ended, and others been accepted, while its message waited.     *)
AnswerGoesBack ==
  \A f \in output : f.type \in {"EPC_AUTO_STOP", "REQUEST_TO_PAY"} =>
    f.dest = INVALID_SOCKET \/ owner[f.dest] = f.by

(* Until a reader reports the end of its scan no tag is put on a bill      *)
(* twice, whichever readers report it and however often.                   *)
ShownOnce ==
  \A g \in Tag : shown[g] <= IF g \in CurrentList THEN 1 ELSE 0

(* A payment that waits while its till's reader and display are reachable  *)
(* gets to the display unless the display becomes unreachable before.      *)
Ready(T) ==
  /\ GetSocketId(RfidDeviceDeque, ReaderAt[T]) # 0
  /\ GetSocketId(RfidDisplayDeque, DisplayAt[T]) \in alive \intersect slSessionList
PayQueued(T) ==
  \E i \in 1 .. Len(queue) :
    queue[i].said.type = "REQUEST_TO_PAY" /\ queue[i].said.dest = T
PayShown(T) == \E f \in output : f.type = "REQUEST_TO_PAY" /\ f.till = T
PayReachesDisplay ==
  \A T \in Till : PayQueued(T) /\ Ready(T) ~> PayShown(T) \/ ~Ready(T)
=============================================================================
