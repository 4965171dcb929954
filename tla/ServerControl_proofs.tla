------------------------ MODULE ServerControl_proofs -------------------------
(***************************************************************************)
(* Proofs about ServerControl, for any tills, devices, connections, queue  *)
(* length and contents of the database.                                    *)
(***************************************************************************)
EXTENDS ServerControl, WellFoundedInduction, TLAPS

(* A set of natural numbers has a least element.                           *)
LEMMA NatMin == ASSUME NEW S \in SUBSET Nat, S # {} PROVE \E x \in S : \A y \in S : x <= y
  <1>1. IsWellFoundedOn(OpToRel(<, Nat), Nat)
    BY NatLessThanWellFounded, Zenon
  <1>2. PICK x \in S : \A y \in S : ~(<<y, x>> \in OpToRel(<, Nat))
    BY <1>1, WFMin, Zenon
  <1>3. \A y \in S : ~(y < x)
    BY <1>2, Zenon DEF OpToRel
  <1> QED
    BY <1>3

USE ConnAssumption, PartyAssumption, TillAssumption, NullAssumption, BoundAssumption

-----------------------------------------------------------------------------
(* The tables.                                                             *)

(* The walk ends at an entry of the set.                                   *)
LEMMA FirstIsOne == ASSUME NEW S \in SUBSET Socket, S # {} PROVE First(S) \in S
  <1>1. \E x \in S : \A y \in S : x <= y
    <2>1. CASE INVALID_SOCKET \in S
      BY <2>1 DEF Socket, INVALID_SOCKET
    <2>2. CASE INVALID_SOCKET \notin S
      <3>1. S \in SUBSET Nat
        BY <2>2 DEF Socket
      <3> QED
        BY <3>1, NatMin
    <2> QED
      BY <2>1, <2>2
  <1> QED
    BY <1>1 DEF First

(* A device is looked up at a socket that is stored for it, or not at all. *)
LEMMA LookedUp ==
  ASSUME NEW D, NEW m \in [Socket -> D \union {NULL}], NEW d
  PROVE  GetSocketId(m, d) = 0 \/ (GetSocketId(m, d) \in Socket /\ m[GetSocketId(m, d)] = d)
  <1>1. CASE Holders(m, d) = {}
    BY <1>1 DEF GetSocketId
  <1>2. CASE Holders(m, d) # {}
    <2>1. Holders(m, d) \in SUBSET Socket
      BY DEF Holders
    <2>2. First(Holders(m, d)) \in Holders(m, d)
      BY <1>2, <2>1, FirstIsOne
    <2> QED
      BY <1>2, <2>2 DEF GetSocketId, Holders
  <1> QED
    BY <1>1, <1>2

(* addBufferMap stores the device in the slot of its socket, or leaves     *)
(* what was there, and otherwise only empties slots.                       *)
LEMMA AddChanges ==
  ASSUME NEW m \in [Socket -> Party \union {NULL}], NEW s \in Socket, NEW d \in Party,
         NEW passed
  PROVE  /\ AddBufferMap(m, s, d, passed) \in [Socket -> Party \union {NULL}]
         /\ \A k \in Socket : k # s => AddBufferMap(m, s, d, passed)[k] \in {m[k], NULL}
         /\ AddBufferMap(m, s, d, passed)[s] \in {m[s], d}
  <1> DEFINE gone == Matches(m, s, d) \ passed
             kept == [k \in Socket |-> IF k \in gone THEN NULL ELSE m[k]]
  <1>1. DOMAIN m = Socket
    OBVIOUS
  <1>2. AddBufferMap(m, s, d, passed) = [kept EXCEPT ![s] = IF @ = NULL THEN d ELSE @]
    BY <1>1 DEF AddBufferMap
  <1>3. /\ kept \in [Socket -> Party \union {NULL}]
        /\ \A k \in Socket : kept[k] \in {m[k], NULL}
    OBVIOUS
  <1> HIDE DEF kept
  <1> QED
    BY <1>2, <1>3

-----------------------------------------------------------------------------
(* The inductive invariant.                                                *)

(* A message is one that its sender can say, and came from the connection  *)
(* it names unless it lost its source.                                     *)
Known(m) ==
  /\ m.by \in Reader => m.said \in ReaderSays
  /\ m.by \in Display => m.said \in DisplaySays
  /\ m.by \in Client => m.said \in ClientSays
  /\ m.src # INVALID_SOCKET => owner[m.src] = m.by
QueueKnown == \A i \in 1 .. Len(queue) : Known(queue[i])

(* A connection that is stored for a device is its own.                    *)
TablesKnown ==
  \A k \in Conn : /\ RfidDeviceDeque[k] \in {NULL, owner[k]}
                  /\ RfidDisplayDeque[k] \in {NULL, owner[k]}

AliveKnown == \A t \in alive : owner[t] # NULL

IndInv ==
  TypeOK /\ QueueKnown /\ TablesKnown /\ AliveKnown /\ RightTill /\ AnswerGoesBack /\ ShownOnce

(* The server starts in the invariant.                                     *)
LEMMA InitInd == Init => IndInv
  <1> SUFFICES ASSUME Init PROVE IndInv
    OBVIOUS
  <1>1. TypeOK
    <2>1. queue \in Seq(Message)
      BY DEF Init
    <2> QED
      BY <2>1 DEF Init, TypeOK
  <1>2. QueueKnown /\ TablesKnown /\ AliveKnown
    BY DEF Init, QueueKnown, TablesKnown, AliveKnown, Socket
  <1>3. RightTill /\ AnswerGoesBack /\ ShownOnce
    BY DEF Init, RightTill, AnswerGoesBack, ShownOnce
  <1> QED
    BY <1>1, <1>2, <1>3 DEF IndInv

-----------------------------------------------------------------------------
(* The sessions.                                                           *)

(* A step that sends nothing and leaves the tables alone.                  *)
LEMMA QuietKeeps ==
  ASSUME IndInv, output' = {}, UNCHANGED control, UNCHANGED written,
         alive' \subseteq Conn, slSessionList' \subseteq Conn,
         queue' \in Seq(Message), owner' \in [Conn -> Party \union {NULL}],
         QueueKnown', AliveKnown',
         \A t \in Conn : owner[t] # NULL => owner'[t] = owner[t]
  PROVE  IndInv'
  <1>1. TypeOK'
    BY DEF IndInv, TypeOK, control
  <1>2. TablesKnown'
    <2>1. \A k \in Conn : RfidDeviceDeque'[k] \in {NULL, owner'[k]}
      BY DEF IndInv, TablesKnown, control, TypeOK
    <2>2. \A k \in Conn : RfidDisplayDeque'[k] \in {NULL, owner'[k]}
      BY DEF IndInv, TablesKnown, control, TypeOK
    <2> QED
      BY <2>1, <2>2 DEF TablesKnown
  <1>3. RightTill' /\ AnswerGoesBack'
    BY DEF RightTill, AnswerGoesBack
  <1>4. ShownOnce'
    BY DEF IndInv, ShownOnce, control
  <1> QED
    BY <1>1, <1>2, <1>3, <1>4 DEF IndInv

(* A connection that is accepted keeps the invariant.                      *)
LEMMA AcceptKeeps == ASSUME IndInv, NEW t \in Conn, NEW p \in Party, Accept(t, p) PROVE IndInv'
  <1>1. owner' \in [Conn -> Party \union {NULL}] /\ owner'[t] = p
        /\ \A u \in Conn : u # t => owner'[u] = owner[u]
    BY DEF IndInv, TypeOK, Accept
  <1>2. p # NULL
    BY DEF Party
  <1>3. AliveKnown'
    BY <1>1, <1>2 DEF IndInv, TypeOK, AliveKnown, Accept
  <1>4. QueueKnown'
    <2>1. ASSUME NEW i \in 1 .. Len(queue) PROVE Known(queue[i])'
      <3>1. queue[i] \in Message /\ Known(queue[i])
        BY DEF IndInv, TypeOK, QueueKnown
      <3>2. queue[i].src # INVALID_SOCKET => queue[i].src \in Conn /\ owner[queue[i].src] # NULL
        BY <3>1 DEF Message, Known, Socket, Party
      <3>3. queue[i].src # INVALID_SOCKET => owner'[queue[i].src] = owner[queue[i].src]
        BY <1>1, <3>2 DEF Accept
      <3> QED
        BY <3>1, <3>3 DEF Known, Accept
    <2> QED
      BY <2>1 DEF QueueKnown, Accept
  <1> QED
    BY <1>1, <1>3, <1>4, QuietKeeps DEF IndInv, TypeOK, Accept

(* A session that enters the list keeps the invariant.                     *)
LEMMA PushBackKeeps == ASSUME IndInv, NEW t \in Conn, PushBack(t) PROVE IndInv'
  <1>1. QueueKnown' /\ AliveKnown'
    BY DEF IndInv, QueueKnown, Known, AliveKnown, PushBack
  <1> QED
    BY <1>1, QuietKeeps DEF IndInv, TypeOK, PushBack

(* A session that ends keeps the invariant.                                *)
LEMMA EndsKeeps == ASSUME IndInv, NEW t \in Conn, Ends(t) PROVE IndInv'
  <1>1. QueueKnown' /\ AliveKnown'
    BY DEF IndInv, QueueKnown, Known, AliveKnown, Ends
  <1> QED
    BY <1>1, QuietKeeps DEF IndInv, TypeOK, Ends

(* A message that arrives keeps the invariant.                             *)
LEMMA ReceiveKeeps ==
  ASSUME IndInv, NEW t \in alive, NEW said \in Says(owner[t]), NEW s \in Socket,
         Receive(t, said, s)
  PROVE  IndInv'
  <1> DEFINE msg == [said |-> said, src |-> s, by |-> owner[t]]
  <1>1. t \in Conn /\ owner[t] \in Party /\ queue \in Seq(Message)
    BY DEF IndInv, TypeOK, AliveKnown
  <1>2. /\ owner[t] \in Reader => said \in ReaderSays
        /\ owner[t] \in Display => said \in DisplaySays
        /\ owner[t] \in Client => said \in ClientSays
    BY <1>1 DEF Says
  <1>3. s # INVALID_SOCKET => s = t
    BY DEF Receive
  <1>4. msg \in Message
    BY <1>1, <1>2 DEF Message, Said, Party
  <1>5. Known(msg)
    BY <1>2, <1>3 DEF Known
  <1> HIDE DEF msg
  <1>6. queue' = Append(queue, msg) /\ UNCHANGED owner
    BY DEF Receive, msg
  <1>7. QueueKnown'
    <2>1. /\ Len(queue') = Len(queue) + 1 /\ Len(queue) \in Nat
          /\ \A i \in 1 .. Len(queue) : queue'[i] = queue[i]
          /\ queue'[Len(queue) + 1] = msg
      BY <1>1, <1>4, <1>6
    <2>2. ASSUME NEW i \in 1 .. Len(queue') PROVE Known(queue'[i])
      <3>1. CASE i \in 1 .. Len(queue)
        BY <2>1, <3>1 DEF IndInv, QueueKnown
      <3>2. CASE i = Len(queue) + 1
        BY <1>5, <2>1, <3>2
      <3> QED
        BY <2>1, <3>1, <3>2
    <2> QED
      BY <1>6, <2>2 DEF QueueKnown, Known
  <1>8. AliveKnown' /\ alive' \subseteq Conn
    BY DEF IndInv, TypeOK, AliveKnown, Receive
  <1>9. queue' \in Seq(Message)
    BY <1>1, <1>4, <1>6
  <1> QED
    BY <1>6, <1>7, <1>8, <1>9, QuietKeeps DEF IndInv, TypeOK, Receive

-----------------------------------------------------------------------------
(* Sending.                                                                *)

(* What is known of every frame that a step sends.                         *)
Right(f) ==
  /\ f.to \in Conn /\ f.till \in Till \union {NULL}
  /\ Heard(f) => owner[f.to] = IF f.type \in {"RFIDAutoScanComm", "RFIDStopScanComm"}
                               THEN ReaderAt[f.till] ELSE DisplayAt[f.till]
  /\ f.type \in {"EPC_AUTO_STOP", "REQUEST_TO_PAY"} =>
       f.dest = INVALID_SOCKET \/ owner[f.dest] = f.by

(* What a frame of SendData contains.                                      *)
LEMMA SendDataSends ==
  ASSUME NEW server, NEW id, NEW type, NEW dest, NEW msg, NEW till,
         NEW f \in SendData(server, id, type, dest, msg, till)
  PROVE  /\ f.to \in server /\ f.to \in slSessionList /\ (id = 0 \/ f.to = id)
         /\ f.type = type /\ f.dest = dest /\ f.till = till
         /\ f.src = msg.src /\ f.by = msg.by
  BY DEF SendData

(* What a frame of Forward contains.                                       *)
LEMMA ForwardSends ==
  ASSUME NEW server, NEW id, NEW type, NEW dest, NEW msg, NEW till,
         NEW f \in Forward(server, id, type, dest, msg, till)
  PROVE  /\ f.to \in server /\ f.to \in slSessionList /\ f.to = id
         /\ f.type = type /\ f.dest = dest /\ f.till = till
         /\ f.src = msg.src /\ f.by = msg.by
  <1>1. id # 0 /\ f \in SendData(server, id, type, dest, msg, till)
    BY DEF Forward
  <1> QED
    BY <1>1, SendDataSends

(* A look-up leads to the device that was looked for.                      *)
LEMMA RouteOfReader ==
  ASSUME IndInv, NEW d \in Reader, NEW t \in Conn, t = GetSocketId(RfidDeviceDeque, d)
  PROVE  owner[t] = d
  <1>1. RfidDeviceDeque[t] = d
    BY LookedUp DEF IndInv, TypeOK
  <1> QED
    BY <1>1 DEF IndInv, TablesKnown, Party

(* A display's entry leads to a connection of that display.                *)
LEMMA RouteOfDisplay ==
  ASSUME IndInv, NEW d \in Display, NEW t \in Conn, t = GetSocketId(RfidDisplayDeque, d)
  PROVE  owner[t] = d
  <1>1. RfidDisplayDeque[t] = d
    BY LookedUp DEF IndInv, TypeOK
  <1> QED
    BY <1>1 DEF IndInv, TablesKnown, Party

(* What a reader reports goes to the display of its till.                  *)
LEMMA ReaderFrames ==
  ASSUME IndInv, NEW msg \in Message, Known(msg), NEW found \in BOOLEAN,
         NEW type \in {"EPC_DATA", "EPC_AUTO"},
         NEW f \in Forward(UserServer, DisplayNextTo(msg.src, found), type, 0, msg,
                           TillOfReader(msg.by))
  PROVE  Right(f)
  <1>1. /\ f.to \in Conn /\ f.to = DisplayNextTo(msg.src, found) /\ f.to # 0
        /\ f.type = type /\ f.till = TillOfReader(msg.by) /\ f.src = msg.src /\ f.by = msg.by
    BY ForwardSends DEF UserServer
  <1>2. /\ TillOfReader(msg.by) \in Till \union {NULL}
        /\ TillOfReader(msg.by) # NULL => ReaderAt[TillOfReader(msg.by)] = msg.by
    BY DEF TillOfReader, TillsOf
  <1>3. ASSUME Heard(f) PROVE owner[f.to] = DisplayAt[f.till]
    <2>1. f.till \in Till /\ ReaderAt[f.till] = msg.by
      BY <1>1, <1>2, <1>3 DEF Heard
    <2>2. msg.by \in Reader /\ msg.src # INVALID_SOCKET
      BY <1>1, <1>3, <2>1 DEF Heard
    <2>3. msg.src \in Conn /\ owner[msg.src] = msg.by
      BY <2>2 DEF Known, Message, Socket
    <2> DEFINE r == GetDeviceId(RfidDeviceDeque, msg.src)
    <2>4. r \in {NULL, msg.by}
      BY <2>3 DEF IndInv, TypeOK, TablesKnown, GetDeviceId, Socket
    <2>5. TillsOf(NULL) = {}
      BY DEF TillsOf, Party
    <2> HIDE DEF r
    <2>6. r = msg.by
      <3>1. TillsOf(r) # {}
        BY <1>1 DEF DisplayNextTo, r
      <3> QED
        BY <2>4, <2>5, <3>1
    <2>7. \A T \in TillsOf(msg.by) : T = f.till
      BY <2>1 DEF TillsOf
    <2>8. f.till \in TillsOf(msg.by)
      BY <2>1 DEF TillsOf
    <2>9. (CHOOSE T \in TillsOf(msg.by) : TRUE) = f.till
      BY <2>7, <2>8
    <2>10. f.to = GetSocketId(RfidDisplayDeque, DisplayAt[f.till])
      BY <1>1, <2>6, <2>9 DEF DisplayNextTo, r
    <2> QED
      BY <1>1, <2>1, <2>10, RouteOfDisplay
  <1> QED
    BY <1>1, <1>2, <1>3 DEF Right

(* What goes to a till that a client names.                                *)
LEMMA DisplayFrames ==
  ASSUME IndInv, NEW msg \in Message, Known(msg), NEW found \in BOOLEAN, NEW T \in Till,
         NEW type \in {"VIDEO", "EPC_AUTO_STOP", "REQUEST_TO_PAY"}, NEW dest,
         type # "VIDEO" => dest = msg.src,
         NEW f \in Forward(UserServer, DisplayOf(T, found), type, dest, msg, T)
  PROVE  Right(f)
  <1>1. /\ f.to \in Conn /\ f.to = DisplayOf(T, found) /\ f.to # 0
        /\ f.type = type /\ f.dest = dest /\ f.till = T /\ f.src = msg.src /\ f.by = msg.by
    BY ForwardSends DEF UserServer
  <1>2. f.to = GetSocketId(RfidDisplayDeque, DisplayAt[T])
    BY <1>1 DEF DisplayOf
  <1>3. owner[f.to] = DisplayAt[T]
    BY <1>1, <1>2, RouteOfDisplay
  <1>4. type # "VIDEO" => f.dest = INVALID_SOCKET \/ owner[f.dest] = f.by
    BY <1>1 DEF Known
  <1> QED
    BY <1>1, <1>3, <1>4 DEF Right

(* A command to a reader goes to the reader of the till.                   *)
LEMMA CommandFrames ==
  ASSUME IndInv, NEW msg \in Message, NEW found \in BOOLEAN, NEW T \in Till,
         NEW type \in {"RFIDAutoScanComm", "RFIDStopScanComm"},
         ReaderOf(T, found) # 0,
         NEW f \in SendData(RfidServer, ReaderOf(T, found), type, 0, msg, T)
  PROVE  Right(f)
  <1>1. /\ f.to \in Conn /\ f.to = ReaderOf(T, found)
        /\ f.type = type /\ f.till = T
    BY SendDataSends DEF RfidServer
  <1>2. f.to = GetSocketId(RfidDeviceDeque, ReaderAt[T])
    BY <1>1 DEF ReaderOf
  <1>3. owner[f.to] = ReaderAt[T]
    BY <1>1, <1>2, RouteOfReader
  <1> QED
    BY <1>1, <1>3 DEF Right

(* Frames about no till.                                                   *)
LEMMA OtherFrames ==
  ASSUME NEW server \in SUBSET Conn, NEW id, NEW msg, NEW dest,
         NEW type \in {"CONFIRM_PAY_MENT", "Console"},
         NEW f \in SendData(server, id, type, dest, msg, NULL)
  PROVE  Right(f)
  <1>1. f.to \in Conn /\ f.type = type /\ f.till = NULL
    BY DEF SendData
  <1> QED
    BY <1>1 DEF Right, Heard

(* So do a stop and the request to pay.                                    *)
LEMMA StopFrames ==
  ASSUME IndInv, NEW msg \in Message, Known(msg), msg.said.dest \in Till,
         NEW type \in {"EPC_AUTO_STOP", "REQUEST_TO_PAY"}, StopAndTell(msg, type)
  PROVE  \A f \in output' : Right(f)
  <1> DEFINE T == msg.said.dest
  <1>1. Found \subseteq BOOLEAN
    BY DEF Found
  <1>2. PICK found \in BOOLEAN, foundToo \in BOOLEAN :
          output' = IF ReaderOf(T, found) = 0 THEN {}
                    ELSE SendData(RfidServer, ReaderOf(T, found), "RFIDStopScanComm", 0, msg, T)
                           \union Forward(UserServer, DisplayOf(T, foundToo), type, msg.src, msg, T)
    BY <1>1 DEF StopAndTell
  <1> HIDE DEF T
  <1>3. T \in Till
    BY DEF T
  <1> SUFFICES ASSUME NEW f \in output' PROVE Right(f)
    OBVIOUS
  <1>4. ReaderOf(T, found) # 0
    BY <1>2
  <1>5. CASE f \in SendData(RfidServer, ReaderOf(T, found), "RFIDStopScanComm", 0, msg, T)
    BY <1>3, <1>4, <1>5, CommandFrames
  <1>6. CASE f \in Forward(UserServer, DisplayOf(T, foundToo), type, msg.src, msg, T)
    BY <1>3, <1>6, DisplayFrames
  <1> QED
    BY <1>2, <1>4, <1>5, <1>6
-----------------------------------------------------------------------------
(* The handlers.                                                           *)

(* What every handler keeps.                                               *)
Handled ==
  /\ RfidDeviceDeque' \in [Socket -> Reader \union {NULL}]
  /\ RfidDisplayDeque' \in [Socket -> Display \union {NULL}]
  /\ \A k \in Conn : /\ RfidDeviceDeque'[k] \in {NULL, owner[k]}
                     /\ RfidDisplayDeque'[k] \in {NULL, owner[k]}
  /\ CurrentList' \subseteq Tag /\ shown' \in [Tag -> Nat]
  /\ \A g \in Tag : shown'[g] <= IF g \in CurrentList' THEN 1 ELSE 0
  /\ \A f \in output' : Right(f)

(* A handler that changes no table has only its frames to show.            *)
LEMMA ControlSame ==
  ASSUME IndInv, UNCHANGED control, \A f \in output' : Right(f) PROVE Handled
  BY DEF IndInv, TypeOK, TablesKnown, ShownOnce, control, Handled

(* Which messages readers, displays and clients send.                      *)
LEMMA WhoSays ==
  ASSUME NEW msg \in Message, Known(msg)
  PROVE  /\ msg.by \in Reader \/ msg.by \in Display \/ msg.by \in Client
         /\ msg.by \in Reader <=> msg.said.type \in {"NETINFO", "EPC_DATA", "EPC_AUTO", "AUTO_STOP",
                                                     "HEARTBEAT"}
         /\ msg.by \in Display <=> msg.said.type \in {"DISPLAYS_DEV", "NONE", "CONFIRM_PAY_MENT"}
         /\ msg.said.type = "EPC_AUTO" => msg.said.tag \in Tag
         /\ msg.by \in Client => msg.said.dest \in Till
  <1>1. msg.by \in Reader \/ msg.by \in Display \/ msg.by \in Client
    BY DEF Message, Party
  <1>2. CASE msg.by \in Reader
    BY <1>2 DEF Known, ReaderSays
  <1>3. CASE msg.by \in Display
    BY <1>3 DEF Known, DisplaySays
  <1>4. CASE msg.by \in Client
    BY <1>4 DEF Known, ClientSays
  <1> QED
    BY <1>1, <1>2, <1>3, <1>4

(* The registration of a reader is handled rightly.                        *)
LEMMA NetInfoKeeps ==
  ASSUME IndInv, NEW msg \in Message, Known(msg), NetInfo(msg) PROVE Handled
  <1>1. msg.by \in Reader /\ msg.src \in Socket
    BY WhoSays DEF NetInfo, Message
  <1>2. PICK passed \in MayPass(RfidDeviceDeque, msg.src, msg.by) :
          RfidDeviceDeque' = AddBufferMap(RfidDeviceDeque, msg.src, msg.by, passed)
    BY DEF NetInfo
  <1>3. RfidDeviceDeque \in [Socket -> Reader \union {NULL}]
    BY DEF IndInv, TypeOK
  <1>4. /\ RfidDeviceDeque' \in [Socket -> Reader \union {NULL}]
        /\ \A k \in Socket : RfidDeviceDeque'[k] \in
              {RfidDeviceDeque[k], NULL} \union (IF k = msg.src THEN {msg.by} ELSE {})
    <2>1. RfidDeviceDeque \in [Socket -> Party \union {NULL}] /\ msg.by \in Party
      BY <1>1, <1>3 DEF Party
    <2>2. /\ RfidDeviceDeque' \in [Socket -> Party \union {NULL}]
          /\ \A k \in Socket : k # msg.src => RfidDeviceDeque'[k] \in {RfidDeviceDeque[k], NULL}
          /\ RfidDeviceDeque'[msg.src] \in {RfidDeviceDeque[msg.src], msg.by}
      BY <1>1, <1>2, <2>1, AddChanges
    <2> QED
      BY <1>1, <1>3, <2>2
  <1>5. ASSUME NEW k \in Conn PROVE RfidDeviceDeque'[k] \in {NULL, owner[k]}
    <2>1. k \in Socket /\ k # INVALID_SOCKET
      BY DEF Socket, INVALID_SOCKET
    <2>2. k = msg.src => msg.by = owner[k]
      BY <2>1 DEF Known
    <2>3. RfidDeviceDeque[k] \in {NULL, owner[k]}
      BY DEF IndInv, TablesKnown
    <2>4. RfidDeviceDeque'[k] \in
            {RfidDeviceDeque[k], NULL} \union (IF k = msg.src THEN {msg.by} ELSE {})
      BY <1>4, <2>1
    <2> QED
      BY <2>2, <2>3, <2>4
  <1>6. output' = {} /\ UNCHANGED <<RfidDisplayDeque, CurrentList, shown>>
    BY DEF NetInfo
  <1> QED
    BY <1>4, <1>5, <1>6 DEF IndInv, TypeOK, TablesKnown, ShownOnce, Handled

(* The registration of a display is handled rightly.                       *)
LEMMA DisplaysDevKeeps ==
  ASSUME IndInv, NEW msg \in Message, Known(msg), DisplaysDev(msg) PROVE Handled
  <1>1. msg.by \in Display /\ msg.src \in Socket
    BY WhoSays DEF DisplaysDev, Message
  <1>2. PICK passed \in MayPass(RfidDisplayDeque, msg.src, msg.by) :
          RfidDisplayDeque' = AddBufferMap(RfidDisplayDeque, msg.src, msg.by, passed)
    BY DEF DisplaysDev
  <1>3. RfidDisplayDeque \in [Socket -> Display \union {NULL}]
    BY DEF IndInv, TypeOK
  <1>4. /\ RfidDisplayDeque' \in [Socket -> Display \union {NULL}]
        /\ \A k \in Socket : RfidDisplayDeque'[k] \in
              {RfidDisplayDeque[k], NULL} \union (IF k = msg.src THEN {msg.by} ELSE {})
    <2>1. RfidDisplayDeque \in [Socket -> Party \union {NULL}] /\ msg.by \in Party
      BY <1>1, <1>3 DEF Party
    <2>2. /\ RfidDisplayDeque' \in [Socket -> Party \union {NULL}]
          /\ \A k \in Socket : k # msg.src => RfidDisplayDeque'[k] \in {RfidDisplayDeque[k], NULL}
          /\ RfidDisplayDeque'[msg.src] \in {RfidDisplayDeque[msg.src], msg.by}
      BY <1>1, <1>2, <2>1, AddChanges
    <2> QED
      BY <1>1, <1>3, <2>2
  <1>5. ASSUME NEW k \in Conn PROVE RfidDisplayDeque'[k] \in {NULL, owner[k]}
    <2>1. k \in Socket /\ k # INVALID_SOCKET
      BY DEF Socket, INVALID_SOCKET
    <2>2. k = msg.src => msg.by = owner[k]
      BY <2>1 DEF Known
    <2>3. RfidDisplayDeque[k] \in {NULL, owner[k]}
      BY DEF IndInv, TablesKnown
    <2>4. RfidDisplayDeque'[k] \in
            {RfidDisplayDeque[k], NULL} \union (IF k = msg.src THEN {msg.by} ELSE {})
      BY <1>4, <2>1
    <2> QED
      BY <2>2, <2>3, <2>4
  <1>6. output' = {} /\ UNCHANGED <<RfidDeviceDeque, CurrentList, shown>>
    BY DEF DisplaysDev
  <1> QED
    BY <1>4, <1>5, <1>6 DEF IndInv, TypeOK, TablesKnown, ShownOnce, Handled

(* A lookup finds something or not.                                        *)
LEMMA FoundIsBoolean == Found \subseteq BOOLEAN
  BY DEF Found

(* A tag is handled rightly.                                               *)
LEMMA EpcDataKeeps ==
  ASSUME IndInv, NEW msg \in Message, Known(msg), EpcData(msg) PROVE Handled
  <1>1. PICK found \in BOOLEAN :
          output' = Forward(UserServer, DisplayNextTo(msg.src, found), "EPC_DATA", 0, msg,
                            TillOfReader(msg.by))
    BY FoundIsBoolean DEF EpcData
  <1>2. \A f \in output' : Right(f)
    BY <1>1, ReaderFrames
  <1> QED
    BY <1>2, ControlSame DEF EpcData

(* A tag that is put on a display was not in the list, and is then.        *)
LEMMA EpcAutoKeeps ==
  ASSUME IndInv, NEW msg \in Message, Known(msg), EpcAuto(msg) PROVE Handled
  <1> DEFINE g == msg.said.tag
  <1>1. g \in Tag /\ g \notin CurrentList /\ CurrentList' = CurrentList \union {g}
    BY WhoSays DEF EpcAuto, AddCurrentList
  <1>2. PICK priced \in BOOLEAN, found \in BOOLEAN :
          output' = IF priced
                    THEN Forward(UserServer, DisplayNextTo(msg.src, found), "EPC_AUTO", 0, msg,
                                 TillOfReader(msg.by))
                    ELSE {}
    BY FoundIsBoolean DEF EpcAuto
  <1>3. \A f \in output' : Right(f)
    BY <1>2, ReaderFrames
  <1>4. /\ shown' = [shown EXCEPT ![g] = shown[g] + (IF output' = {} THEN 0 ELSE 1)]
        /\ UNCHANGED <<RfidDeviceDeque, RfidDisplayDeque>>
    BY DEF EpcAuto
  <1>5. /\ shown \in [Tag -> Nat] /\ CurrentList \subseteq Tag
        /\ \A h \in Tag : shown[h] <= IF h \in CurrentList THEN 1 ELSE 0
    BY DEF IndInv, TypeOK, ShownOnce
  <1> HIDE DEF g
  <1>6. shown[g] = 0
    BY <1>1, <1>5
  <1>7. /\ shown' \in [Tag -> Nat]
        /\ \A h \in Tag : shown'[h] <= IF h \in CurrentList' THEN 1 ELSE 0
    BY <1>1, <1>4, <1>5, <1>6
  <1> QED
    BY <1>1, <1>3, <1>4, <1>5, <1>7 DEF IndInv, TypeOK, TablesKnown, Handled

(* The end of a scan is handled rightly.                                   *)
LEMMA AutoStopKeeps == ASSUME IndInv, NEW msg, AutoStop(msg) PROVE Handled
  BY DEF AutoStop, IndInv, TypeOK, TablesKnown, Handled

(* The messages of clients and the display's confirmation.                 *)
LEMMA ClientsKeep ==
  ASSUME IndInv, NEW msg \in Message, Known(msg),
         Video(msg) \/ CommEpcAuto(msg) \/ CommEpcAutoStop(msg) \/ RequestToPay(msg)
           \/ ConfirmPayMent(msg)
  PROVE  Handled
  <1>1. UNCHANGED control
    BY DEF Video, CommEpcAuto, CommEpcAutoStop, RequestToPay, ConfirmPayMent
  <1>2. CASE Video(msg)
    <2>1. msg.said.dest \in Till
      BY <1>2, WhoSays DEF Video
    <2>2. PICK found \in BOOLEAN :
            output' = Forward(UserServer, DisplayOf(msg.said.dest, found), "VIDEO",
                              msg.said.dest, msg, msg.said.dest)
      BY <1>2, FoundIsBoolean DEF Video
    <2>3. \A f \in output' : Right(f)
      BY <2>1, <2>2, DisplayFrames
    <2> QED
      BY <1>1, <2>3, ControlSame
  <1>3. CASE CommEpcAuto(msg)
    <2>1. msg.said.dest \in Till
      BY <1>3, WhoSays DEF CommEpcAuto
    <2>2. PICK found \in BOOLEAN :
            output' = Forward(RfidServer, ReaderOf(msg.said.dest, found), "RFIDAutoScanComm",
                              0, msg, msg.said.dest)
      BY <1>3, FoundIsBoolean DEF CommEpcAuto
    <2>3. \A f \in output' : Right(f)
      BY <2>1, <2>2, CommandFrames DEF Forward
    <2> QED
      BY <1>1, <2>3, ControlSame
  <1>4. CASE CommEpcAutoStop(msg) \/ RequestToPay(msg)
    <2>1. msg.said.dest \in Till
      BY <1>4, WhoSays DEF CommEpcAutoStop, RequestToPay
    <2>2. \A f \in output' : Right(f)
      BY <1>4, <2>1, StopFrames DEF CommEpcAutoStop, RequestToPay
    <2> QED
      BY <1>1, <2>2, ControlSame
  <1>5. CASE ConfirmPayMent(msg)
    <2>1. UserServer \in SUBSET Conn
      BY DEF UserServer
    <2>2. \A f \in output' : Right(f)
      BY <1>5, <2>1, OtherFrames DEF ConfirmPayMent
    <2> QED
      BY <1>1, <2>2, ControlSame
  <1> QED
    BY <1>2, <1>3, <1>4, <1>5

(* From what a step that sends keeps to the invariant.                     *)
LEMMA HandledKeeps ==
  ASSUME IndInv, Handled, UNCHANGED network, written' = written \union {f.to : f \in output'},
         queue' \in Seq(Message), QueueKnown'
  PROVE  IndInv'
  <1>1. UNCHANGED owner /\ UNCHANGED alive /\ UNCHANGED slSessionList
    BY DEF network
  <1>2. TypeOK'
    <2>1. \A f \in output' : f.to \in Conn /\ f.till \in Till \union {NULL}
      BY DEF Handled, Right
    <2>2. written' \subseteq Conn
      <3>1. written \subseteq Conn
        BY DEF IndInv, TypeOK
      <3>2. \A f \in output' : f.to \in Conn
        BY <2>1
      <3> QED
        BY ONLY <3>1, <3>2, written' = written \union {f.to : f \in output'}
    <2> QED
      BY <1>1, <2>1, <2>2 DEF Handled, IndInv, TypeOK
  <1>3. TablesKnown' /\ AliveKnown' /\ ShownOnce'
    BY <1>1 DEF Handled, IndInv, TablesKnown, AliveKnown, ShownOnce
  <1>4. RightTill' /\ AnswerGoesBack'
    BY <1>1 DEF Handled, Right, RightTill, AnswerGoesBack, Heard
  <1> QED
    BY <1>2, <1>3, <1>4 DEF IndInv

(* Every message is handled rightly.                                       *)
LEMMA HandleKeeps == IndInv /\ Handle => IndInv'
  <1> SUFFICES ASSUME IndInv, Handle PROVE IndInv'
    OBVIOUS
  <1> DEFINE msg == Head(queue)
  <1>1. queue \in Seq(Message) /\ queue # <<>> /\ queue' = Tail(queue)
    BY DEF IndInv, TypeOK, Handle
  <1>2. msg \in Message /\ Known(msg)
    <2>1. msg = queue[1] /\ 1 \in 1 .. Len(queue) /\ queue[1] \in Message
      BY <1>1
    <2> QED
      BY <2>1 DEF IndInv, QueueKnown
  <1>3. queue' \in Seq(Message)
    BY <1>1
  <1>4. UNCHANGED network /\ written' = written \union {f.to : f \in output'}
    BY DEF Handle
  <1>5. QueueKnown'
    <2>1. /\ Len(queue') = Len(queue) - 1
          /\ \A i \in 1 .. Len(queue') : i + 1 \in 1 .. Len(queue) /\ queue'[i] = queue[i + 1]
      BY <1>1
    <2>2. \A i \in 1 .. Len(queue') : Known(queue'[i])
      BY <2>1 DEF IndInv, QueueKnown
    <2> QED
      BY <1>4, <2>2 DEF QueueKnown, Known, network
  <1>6. \/ NetInfo(msg) \/ EpcData(msg) \/ EpcAuto(msg) \/ EpcAutoAgain(msg) \/ AutoStop(msg)
        \/ Ignored(msg) \/ DisplaysDev(msg) \/ Video(msg) \/ CommEpcAuto(msg)
        \/ CommEpcAutoStop(msg) \/ RequestToPay(msg) \/ ConfirmPayMent(msg)
    BY DEF Handle
  <1> HIDE DEF msg
  <1>7. EpcAutoAgain(msg) \/ Ignored(msg) => Handled
    <2>1. EpcAutoAgain(msg) \/ Ignored(msg) => UNCHANGED control /\ output' = {}
      BY DEF EpcAutoAgain, Ignored
    <2> QED
      BY <2>1, ControlSame
  <1>8. Handled
    BY <1>2, <1>6, <1>7, NetInfoKeeps, EpcDataKeeps, EpcAutoKeeps, AutoStopKeeps,
       DisplaysDevKeeps, ClientsKeep
  <1> QED
    BY <1>3, <1>4, <1>5, <1>8, HandledKeeps

(* A command of the console keeps the invariant.                           *)
LEMMA ConsoleKeeps == IndInv /\ Console => IndInv'
  <1> SUFFICES ASSUME IndInv, Console PROVE IndInv'
    OBVIOUS
  <1>1. /\ UNCHANGED network /\ UNCHANGED queue /\ UNCHANGED control
        /\ written' = written \union {f.to : f \in output'}
    BY DEF Console
  <1>2. \A f \in output' : Right(f)
    <2>1. RfidServer \in SUBSET Conn
      BY DEF RfidServer
    <2> QED
      BY <2>1, OtherFrames DEF Console
  <1>3. Handled
    BY <1>1, <1>2, ControlSame
  <1>4. QueueKnown'
    BY <1>1 DEF IndInv, QueueKnown, Known, network
  <1> QED
    BY <1>1, <1>3, <1>4, HandledKeeps DEF IndInv, TypeOK

(* The invariant is inductive.                                             *)
LEMMA Inductive == IndInv /\ [Next]_vars => IndInv'
  <1> SUFFICES ASSUME IndInv, [Next]_vars PROVE IndInv'
    OBVIOUS
  <1>1. CASE \E t \in Conn, p \in Party : Accept(t, p)
    BY <1>1, AcceptKeeps
  <1>2. CASE \E t \in Conn : PushBack(t)
    BY <1>2, PushBackKeeps
  <1>3. CASE \E t \in Conn : Ends(t)
    BY <1>3, EndsKeeps
  <1>4. CASE \E t \in alive : \E said \in Says(owner[t]), s \in Socket : Receive(t, said, s)
    BY <1>4, ReceiveKeeps
  <1>5. CASE Handle
    BY <1>5, HandleKeeps
  <1>6. CASE Console
    BY <1>6, ConsoleKeeps
  <1>7. CASE UNCHANGED vars
    BY <1>7 DEF IndInv, TypeOK, QueueKnown, Known, TablesKnown, AliveKnown, RightTill, Heard,
                AnswerGoesBack, ShownOnce, vars, network, control
  <1> QED
    BY <1>1, <1>2, <1>3, <1>4, <1>5, <1>6, <1>7 DEF Next

(* The invariant holds in every state.                                     *)
LEMMA Always == Spec => []IndInv
  BY InitInd, Inductive, PTL DEF Spec

(* The variables keep their kinds: only connections are sent to.           *)
THEOREM TypeCorrect == Spec => []TypeOK
  <1>1. IndInv => TypeOK
    BY DEF IndInv
  <1> QED
    BY <1>1, Always, PTL

(* Whatever is said, however long it waits and whichever connections come  *)
(* and go meanwhile, it reaches the devices of its own till only, for any  *)
(* number of tills and connections.                                        *)
THEOREM Routed == Spec => []RightTill
  <1>1. IndInv => RightTill
    BY DEF IndInv
  <1> QED
    BY <1>1, Always, PTL

(* The display is told the connection of the client that asked.            *)
THEOREM Answered == Spec => []AnswerGoesBack
  <1>1. IndInv => AnswerGoesBack
    BY DEF IndInv
  <1> QED
    BY <1>1, Always, PTL

(* A tag is put on a display at most once within a scan.                   *)
THEOREM NotTwice == Spec => []ShownOnce
  <1>1. IndInv => ShownOnce
    BY DEF IndInv
  <1> QED
    BY <1>1, Always, PTL
=============================================================================
