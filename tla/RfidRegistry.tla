---------------------------- MODULE RfidRegistry -----------------------------
(***************************************************************************)
(* The way the entries of a device table (module RfidDeque) come about: a  *)
(* device connects, its session's receive thread reads the registration    *)
(* and queues it with the id of the session's socket, and the control      *)
(* thread stores it with addBufferMap.  CServerControl keeps one such      *)
(* table for the readers and one for the displays; what is said here is    *)
(* said of either.                                                         *)
(*                                                                         *)
(* The receive thread reads iSocket AFTER recv returned                    *)
(* (TCPServerHandle.cpp 476, 501), and the send thread may have set it to  *)
(* -1 in between (390), so that a registration can carry the source -1.    *)
(* Something to send there can be before a device registered: what is sent *)
(* to the id 0 goes to every session of the server, registered or not.     *)
(***************************************************************************)
EXTENDS Integers, Sequences, RfidDeque

CONSTANTS
  Conn,         (* the descriptors accept can return                        *)
  Device,       (* the identities of the devices (MAC addresses)            *)
  MaxQueue      (* bound on the registrations waiting in the queue          *)

ASSUME ConnAssumption == Conn \subseteq Nat \ {0}
ASSUME DeviceAssumption == NULL \notin Device
ASSUME MaxQueueAssumption == MaxQueue \in Nat

Socket == Conn \union {INVALID_SOCKET}

VARIABLES
  owner,        (* the device at the other end of each accepted connection  *)
  alive,        (* the sessions whose iSocket is not -1                     *)
  rpc,          (* where each receive thread is in Receivefunc              *)
  written,      (* the sessions something was queued for: their send thread *)
                (* may find the connection broken                           *)
  queue,        (* registrations queued for the control thread              *)
  dBufferMap,   (* the table: socket id to device                           *)
  latest,       (* history: source of the last registration handled, per    *)
                (* device                                                   *)
  raced         (* history: the devices a registration of which was handled *)
                (* with the source -1                                       *)

session == <<owner, alive, rpc, written>>
table   == <<dBufferMap, latest, raced>>
vars    == <<session, queue, table>>

Init ==
  /\ owner = [t \in Conn |-> NULL]
  /\ alive = [t \in Conn |-> FALSE]
  /\ rpc = [t \in Conn |-> "recv"]
  /\ written = [t \in Conn |-> FALSE]
  /\ queue = <<>>
  /\ dBufferMap = [k \in Socket |-> NULL]
  /\ latest = [d \in Device |-> 0]
  /\ raced = [d \in Device |-> FALSE]

-----------------------------------------------------------------------------
(* The threads.                                                            *)

(* Variant: a descriptor is closed when its session ends and accepted      *)
(* again for somebody else.                                                *)
Connect_Reuse(t, d) ==
  /\ ~alive[t]
  /\ rpc[t] = "recv"
  /\ owner' = [owner EXCEPT ![t] = d]
  /\ alive' = [alive EXCEPT ![t] = TRUE]
  /\ written' = [written EXCEPT ![t] = FALSE]
  /\ UNCHANGED <<rpc, queue, table>>

(* accept and AddTcpSession.  No thread of a running server ever closes an *)
(* accepted descriptor (a session that ends only forgets it), so accept    *)
(* never returns a number it returned before.                              *)
Connect(t, d) ==
  /\ owner[t] = NULL
  /\ owner' = [owner EXCEPT ![t] = d]
  /\ alive' = [alive EXCEPT ![t] = TRUE]
  /\ UNCHANGED <<rpc, written, queue, table>>

(* Receivefunc line 457: recv returns the bytes of a registration.  A      *)
(* display registers once per connection, a reader any number of times:    *)
(* any number is allowed.                                                  *)
Receive(t) ==
  /\ rpc[t] = "recv"
  /\ alive[t]
  /\ rpc' = [rpc EXCEPT ![t] = "got"]
  /\ UNCHANGED <<owner, alive, written, queue, table>>

(* Lines 475 and 501: the registration is queued with the value iSocket    *)
(* has now.                                                                *)
Source(t) == IF alive[t] THEN t ELSE INVALID_SOCKET

Enqueue(t) ==
  /\ rpc[t] = "got"
  /\ Len(queue) < MaxQueue
  /\ queue' = Append(queue, [src |-> Source(t), dev |-> owner[t]])
  /\ rpc' = [rpc EXCEPT ![t] = "recv"]
  /\ UNCHANGED <<owner, alive, written, table>>

(* Line 462: recv returns 0, the device hung up.                           *)
PeerCloses(t) ==
  /\ rpc[t] = "recv"
  /\ alive[t]
  /\ alive' = [alive EXCEPT ![t] = FALSE]
  /\ UNCHANGED <<owner, rpc, written, queue, table>>

(* Line 390: the send thread finds the connection broken.                  *)
SendFails(t) ==
  /\ written[t]
  /\ alive[t]
  /\ alive' = [alive EXCEPT ![t] = FALSE]
  /\ UNCHANGED <<owner, rpc, written, queue, table>>

(* The control thread handles the oldest registration (ServerControl.cpp   *)
(* 284-297 for a reader, 420-431 for a display).                           *)
Register ==
  /\ queue # <<>>
  /\ queue' = Tail(queue)
  /\ LET r == Head(queue) IN
       /\ \E passed \in MayPass(dBufferMap, r.src, r.dev) :
            dBufferMap' = AddBufferMap(dBufferMap, r.src, r.dev, passed)
       /\ latest' = [latest EXCEPT ![r.dev] = r.src]
       /\ raced' = [raced EXCEPT ![r.dev] = @ \/ r.src = INVALID_SOCKET]
  /\ UNCHANGED session

(* The control thread sends something to a device (for instance 360-367):  *)
(* GetSocketId and then TcpServer::SendData, which finds no session for -1 *)
(* and drops what is for a session that ended.                             *)
SendTo(d) ==
  /\ GetSocketId(dBufferMap, d) \in Conn
  /\ alive[GetSocketId(dBufferMap, d)]
  /\ written' = [written EXCEPT ![GetSocketId(dBufferMap, d)] = TRUE]
  /\ UNCHANGED <<owner, alive, rpc, queue, table>>

(* TcpServer::SendData with id 0: everybody connected gets it, registered  *)
(* or not.  RFIDAutoScan sends so to the readers, and CONFIRM_PAY_MENT to   *)
(* the displays when its destination is 0 (ServerControl.cpp 559-569).  (A *)
(* confirmation to one socket id only, whoever that is, makes no send fail *)
(* that cannot fail after this one.)                                       *)
SendToAll ==
  /\ written' = [t \in Conn |-> written[t] \/ alive[t]]
  /\ UNCHANGED <<owner, alive, rpc, queue, table>>

Next ==
  \/ \E t \in Conn, d \in Device : Connect(t, d)
  \/ \E t \in Conn : Receive(t)
  \/ \E t \in Conn : Enqueue(t)
  \/ \E t \in Conn : PeerCloses(t)
  \/ \E t \in Conn : SendFails(t)
  \/ Register
  \/ \E d \in Device : SendTo(d)
  \/ SendToAll

Spec == Init /\ [][Next]_vars

-----------------------------------------------------------------------------
(* Properties.                                                             *)

Registration == [src : Socket, dev : Device]

(* Every variable holds a value of its kind; in particular no source is 0, *)
(* which would mean "nowhere" to the routing code and "everybody" to       *)
(* TcpServer::SendData.                                                    *)
TypeOK ==
  /\ owner \in [Conn -> Device \union {NULL}]
  /\ alive \in [Conn -> BOOLEAN]
  /\ rpc \in [Conn -> {"recv", "got"}]
  /\ written \in [Conn -> BOOLEAN]
  /\ queue \in Seq(Registration)
  /\ dBufferMap \in [Socket -> Device \union {NULL}]
  /\ latest \in [Device -> Socket \union {0}]
  /\ raced \in [Device -> BOOLEAN]

(* A socket id stored for a device belongs to a connection of that device: *)
(* whatever the races, a message is never routed to somebody else.  It     *)
(* rests on descriptors never being used twice.                            *)
NeverMisrouted ==
  \A t \in Conn : dBufferMap[t] # NULL => owner[t] = dBufferMap[t]

(* As long as no registration of a device carried the source -1, its route *)
(* (the lowest matching key of the walk in GetSocketId) is the source of   *)
(* its last registration the control thread handled, although              *)
(* addBufferMap's walk is undefined after its first removal, and whatever  *)
(* the registrations of others carried.                                    *)
UnracedRoute ==
  \A d \in Device : ~raced[d] => GetSocketId(dBufferMap, d) = latest[d]

(* The table is a RouteTable: registrations take effect in the order in    *)
(* which they were queued, each on its own device alone, and one that lost *)
(* its source spoils the route of its own device and of no other.          *)
Table == INSTANCE RouteTable WITH
  Lost    <- INVALID_SOCKET,
  arrived <- queue,
  route   <- [d \in Device |-> IF raced[d] THEN INVALID_SOCKET
                               ELSE GetSocketId(dBufferMap, d)]
ImplementsRouteTable == Table!RouteSpec

-----------------------------------------------------------------------------
(* The inductive invariant: who the sources belong to, and what the table  *)
(* holds of a device none of whose registrations lost its source.          *)
OwnerKnown ==
  /\ \A t \in Conn : alive[t] \/ rpc[t] = "got" => owner[t] # NULL
  /\ \A i \in 1 .. Len(queue) :
       queue[i].src # INVALID_SOCKET => owner[queue[i].src] = queue[i].dev

(* One entry of such a device, at the source of its last registration:     *)
(* there is never more than one match for the undefined walk to go wrong   *)
(* about, and the entry at -1, which devices take from each other, is not  *)
(* among them.                                                             *)
MapIsLatest ==
  \A d \in Device : ~raced[d] =>
    /\ latest[d] # INVALID_SOCKET
    /\ \A k \in Socket : dBufferMap[k] = d <=> latest[d] = k

IndInv ==
  /\ TypeOK
  /\ OwnerKnown
  /\ NeverMisrouted
  /\ MapIsLatest
=============================================================================
