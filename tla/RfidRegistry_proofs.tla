------------------------- MODULE RfidRegistry_proofs -------------------------
(***************************************************************************)
(* Proofs about RfidRegistry, for any sets of descriptors and devices.     *)
(***************************************************************************)
EXTENDS RfidRegistry, TLAPS

USE ConnAssumption, DeviceAssumption, MaxQueueAssumption

-----------------------------------------------------------------------------
(* The table.                                                              *)

(* addBufferMap fills the slot of the new registration, with the new       *)
(* device or, when the walk passed over it, with the old one, and changes  *)
(* no other slot except to empty it.                                       *)
LEMMA AddChanges ==
  ASSUME NEW m \in [Socket -> Device \union {NULL}],
         NEW s \in Socket, NEW d \in Device, NEW passed
  PROVE  /\ AddBufferMap(m, s, d, passed) \in [Socket -> Device \union {NULL}]
         /\ \A k \in Socket : k # s =>
              AddBufferMap(m, s, d, passed)[k] \in {m[k], NULL}
         /\ AddBufferMap(m, s, d, passed)[s] \in {m[s], d} \ {NULL}
  <1> DEFINE gone == Matches(m, s, d) \ passed
             kept == [k \in Socket |-> IF k \in gone THEN NULL ELSE m[k]]
  <1>1. DOMAIN m = Socket
    OBVIOUS
  <1>2. AddBufferMap(m, s, d, passed) = [kept EXCEPT ![s] = IF @ = NULL THEN d ELSE @]
    BY <1>1 DEF AddBufferMap
  <1>3. /\ kept \in [Socket -> Device \union {NULL}]
        /\ \A k \in Socket : kept[k] \in {m[k], NULL}
    OBVIOUS
  <1> HIDE DEF kept
  <1> QED
    BY <1>2, <1>3

(* What belongs to another device stays where it is, except at the new     *)
(* socket.                                                                 *)
LEMMA AddSpares ==
  ASSUME NEW m \in [Socket -> Device \union {NULL}],
         NEW s \in Socket, NEW d \in Device, NEW passed,
         NEW k \in Socket, k # s, m[k] # d
  PROVE  AddBufferMap(m, s, d, passed)[k] = m[k]
  <1> DEFINE gone == Matches(m, s, d) \ passed
             kept == [j \in Socket |-> IF j \in gone THEN NULL ELSE m[j]]
  <1>1. DOMAIN m = Socket
    OBVIOUS
  <1>2. AddBufferMap(m, s, d, passed) = [kept EXCEPT ![s] = IF @ = NULL THEN d ELSE @]
    BY <1>1 DEF AddBufferMap
  <1>3. k \notin gone
    BY DEF Matches
  <1>4. kept[k] = m[k]
    BY <1>3
  <1> HIDE DEF kept, gone
  <1>5. [kept EXCEPT ![s] = IF @ = NULL THEN d ELSE @][k] = kept[k]
    BY DEF kept
  <1> QED
    BY <1>2, <1>4, <1>5

(* With at most one match the undefined part of the walk cannot matter:    *)
(* the device is at its new socket only, and nobody else moved.            *)
LEMMA AddOneMatch ==
  ASSUME NEW m \in [Socket -> Device \union {NULL}],
         NEW s \in Socket, NEW d \in Device,
         NEW passed \in MayPass(m, s, d),
         m[s] \in {NULL, d},
         \A j, k \in Socket : m[j] = d /\ m[k] = d => j = k
  PROVE  /\ \A k \in Socket : AddBufferMap(m, s, d, passed)[k] = d <=> k = s
         /\ \A k \in Socket, e \in Device : e # d =>
              (AddBufferMap(m, s, d, passed)[k] = e <=> m[k] = e)
  <1> DEFINE gone == Matches(m, s, d) \ passed
             kept == [k \in Socket |-> IF k \in gone THEN NULL ELSE m[k]]
  <1>1. DOMAIN m = Socket
    OBVIOUS
  <1>2. AddBufferMap(m, s, d, passed) = [kept EXCEPT ![s] = IF @ = NULL THEN d ELSE @]
    BY <1>1 DEF AddBufferMap
  <1>3. Matches(m, s, d) = {k \in Socket : m[k] = d}
    BY <1>1 DEF Matches
  <1>4. gone = {k \in Socket : m[k] = d}
    <2>1. CASE Matches(m, s, d) = {}
      BY <2>1, <1>3
    <2>2. CASE Matches(m, s, d) # {}
      <3>1. PICK x \in Socket : Matches(m, s, d) = {x}
        BY <2>2, <1>3
      <3>2. x \in Int
        BY DEF Socket, INVALID_SOCKET
      <3>3. First({x}) = x
        BY <3>2 DEF First
      <3>4. passed \subseteq {x} /\ x \notin passed
        BY <3>1, <3>3 DEF MayPass
      <3> QED
        BY <3>1, <3>4, <1>3
    <2> QED
      BY <2>1, <2>2
  <1>5. /\ kept \in [Socket -> Device \union {NULL}]
        /\ \A k \in Socket : kept[k] = IF m[k] = d THEN NULL ELSE m[k]
    BY <1>4
  <1> HIDE DEF kept, gone
  <1> QED
    BY <1>2, <1>5

(* When one entry at most is a device's, GetSocketId returns its key.      *)
LEMMA OneHolder ==
  ASSUME NEW m \in [Socket -> Device \union {NULL}],
         NEW d \in Device, NEW x \in Socket \union {0},
         \A k \in Socket : m[k] = d <=> x = k
  PROVE  GetSocketId(m, d) = x
  <1>1. 0 \notin Socket /\ Socket \subseteq Int
    BY DEF Socket, INVALID_SOCKET
  <1>2. CASE x = 0
    <2>1. Holders(m, d) = {}
      BY <1>1, <1>2 DEF Holders
    <2> QED
      BY <2>1, <1>2 DEF GetSocketId
  <1>3. CASE x \in Socket
    <2>1. Holders(m, d) = {x}
      BY <1>3 DEF Holders
    <2>2. First({x}) = x
      BY <1>1, <1>3 DEF First
    <2> QED
      BY <2>1, <2>2 DEF GetSocketId
  <1> QED
    BY <1>2, <1>3

-----------------------------------------------------------------------------
(* The inductive invariant.                                                *)

LEMMA InitInd == Init => IndInv
  <1> SUFFICES ASSUME Init PROVE IndInv
    OBVIOUS
  <1>1. TypeOK
    <2>1. queue \in Seq(Registration)
      BY DEF Init
    <2>2. /\ alive \in [Conn -> BOOLEAN]
          /\ written \in [Conn -> BOOLEAN]
          /\ raced \in [Device -> BOOLEAN]
      BY DEF Init
    <2>3. /\ owner \in [Conn -> Device \union {NULL}]
          /\ rpc \in [Conn -> {"recv", "got"}]
          /\ dBufferMap \in [Socket -> Device \union {NULL}]
          /\ latest \in [Device -> Socket \union {0}]
      BY DEF Init
    <2> QED
      BY <2>1, <2>2, <2>3 DEF Init, TypeOK
  <1>2. OwnerKnown /\ NeverMisrouted
    BY DEF Init, OwnerKnown, NeverMisrouted, Socket
  <1>3. MapIsLatest
    <2>1. 0 \notin Socket /\ 0 # INVALID_SOCKET
      BY DEF Socket, INVALID_SOCKET
    <2>2. \A k \in Socket, d \in Device : dBufferMap[k] = NULL /\ latest[d] = 0
      BY DEF Init
    <2>3. \A k \in Socket, d \in Device :
            dBufferMap[k] # d /\ latest[d] # k
      BY <2>1, <2>2
    <2>4. ASSUME NEW d \in Device
          PROVE  /\ latest[d] # INVALID_SOCKET
                 /\ \A k \in Socket : dBufferMap[k] = d <=> latest[d] = k
      <3>1. latest[d] # INVALID_SOCKET
        BY <2>1, <2>2 DEF Socket
      <3> QED
        BY <2>3, <3>1
    <2> QED
      BY <2>4 DEF MapIsLatest
  <1> QED
    BY <1>1, <1>2, <1>3 DEF IndInv

(* A connection that is accepted keeps the invariant.                      *)
LEMMA ConnectKeeps ==
  ASSUME IndInv, NEW t \in Conn, NEW d \in Device, Connect(t, d)
  PROVE  IndInv'
  <1> USE DEF Connect, IndInv, table
  <1>1. TypeOK'
    BY DEF TypeOK
  <1>2. OwnerKnown'
    <2>1. \A u \in Conn : alive'[u] \/ rpc'[u] = "got" => owner'[u] # NULL
      BY DEF OwnerKnown, TypeOK
    <2>2. ASSUME NEW i \in 1 .. Len(queue), queue[i].src # INVALID_SOCKET
          PROVE  owner'[queue[i].src] = queue[i].dev
      <3>0. queue[i] \in Registration
        BY DEF TypeOK
      <3>1. queue[i].src \in Conn /\ queue[i].dev \in Device
        BY <2>2, <3>0 DEF Registration, Socket
      <3>2. owner[queue[i].src] = queue[i].dev
        BY <2>2 DEF OwnerKnown
      <3> QED
        BY <3>1, <3>2 DEF TypeOK
    <2> QED
      BY <2>1, <2>2 DEF OwnerKnown
  <1>3. NeverMisrouted'
    BY DEF NeverMisrouted, TypeOK, Socket
  <1>4. MapIsLatest'
    BY DEF MapIsLatest
  <1> QED
    BY <1>1, <1>2, <1>3, <1>4

(* A registration that arrives keeps the invariant.                        *)
LEMMA ReceiveKeeps ==
  ASSUME IndInv, NEW t \in Conn, Receive(t)
  PROVE  IndInv'
  <1> USE DEF Receive, IndInv, table
  <1>1. TypeOK'
    BY DEF TypeOK
  <1>2. OwnerKnown'
    BY DEF OwnerKnown, TypeOK
  <1>3. NeverMisrouted' /\ MapIsLatest'
    BY DEF NeverMisrouted, MapIsLatest
  <1> QED
    BY <1>1, <1>2, <1>3

(* A registration that is queued keeps the invariant.                      *)
LEMMA EnqueueKeeps ==
  ASSUME IndInv, NEW t \in Conn, Enqueue(t)
  PROVE  IndInv'
  <1> USE DEF Enqueue, IndInv, table
  <1> DEFINE r == [src |-> Source(t), dev |-> owner[t]]
  <1>1. owner[t] \in Device
    BY DEF OwnerKnown, TypeOK
  <1>2. r \in Registration /\ r.src \in {t, INVALID_SOCKET} /\ r.dev = owner[t]
    BY <1>1 DEF Registration, Source, Socket
  <1>3. /\ queue' = Append(queue, r)
        /\ queue \in Seq(Registration)
    BY DEF TypeOK
  <1> HIDE DEF r
  <1>5. /\ queue' \in Seq(Registration)
        /\ Len(queue') = Len(queue) + 1
        /\ \A i \in 1 .. Len(queue) : queue'[i] = queue[i]
        /\ queue'[Len(queue) + 1] = r
    BY <1>2, <1>3
  <1>6. \A i \in 1 .. Len(queue') : i \in 1 .. Len(queue) \/ queue'[i] = r
    BY <1>3, <1>5
  <1>7. TypeOK'
    BY <1>5 DEF TypeOK
  <1>8. OwnerKnown'
    BY <1>2, <1>5, <1>6 DEF OwnerKnown, TypeOK
  <1>9. NeverMisrouted' /\ MapIsLatest'
    BY DEF NeverMisrouted, MapIsLatest
  <1> QED
    BY <1>7, <1>8, <1>9

(* A connection that ends keeps the invariant.                             *)
LEMMA DiesKeeps ==
  ASSUME IndInv, NEW t \in Conn, PeerCloses(t) \/ SendFails(t)
  PROVE  IndInv'
  <1> USE DEF IndInv
  <1>0. /\ alive' = [alive EXCEPT ![t] = FALSE]
        /\ UNCHANGED <<owner, rpc, written, queue, dBufferMap, latest, raced>>
    BY DEF PeerCloses, SendFails, table
  <1>1. TypeOK'
    BY <1>0 DEF TypeOK
  <1>2. OwnerKnown'
    BY <1>0 DEF OwnerKnown, TypeOK
  <1>3. NeverMisrouted' /\ MapIsLatest'
    BY <1>0 DEF NeverMisrouted, MapIsLatest
  <1> QED
    BY <1>1, <1>2, <1>3

(* A registration that is handled keeps the invariant.                     *)
LEMMA RegisterKeeps ==
  ASSUME IndInv, Register
  PROVE  IndInv'
  <1> USE DEF IndInv, session
  <1>1. PICK r \in Registration :
          /\ queue # <<>> /\ r = Head(queue) /\ queue' = Tail(queue)
          /\ \E passed \in MayPass(dBufferMap, r.src, r.dev) :
               dBufferMap' = AddBufferMap(dBufferMap, r.src, r.dev, passed)
          /\ latest' = [latest EXCEPT ![r.dev] = r.src]
          /\ raced' = [raced EXCEPT ![r.dev] = @ \/ r.src = INVALID_SOCKET]
          /\ UNCHANGED <<owner, alive, rpc, written>>
    <2>1. queue # <<>> /\ Head(queue) \in Registration
      BY DEF Register, TypeOK
    <2> QED
      BY <2>1 DEF Register
  <1>2. PICK passed \in MayPass(dBufferMap, r.src, r.dev) :
          dBufferMap' = AddBufferMap(dBufferMap, r.src, r.dev, passed)
    BY <1>1
  <1>3. r.src \in Socket /\ r.dev \in Device
    BY DEF Registration
  <1>4. /\ dBufferMap \in [Socket -> Device \union {NULL}]
        /\ queue \in Seq(Registration)
    BY DEF TypeOK
  <1>5. /\ dBufferMap' \in [Socket -> Device \union {NULL}]
        /\ \A k \in Socket : k # r.src => dBufferMap'[k] \in {dBufferMap[k], NULL}
        /\ dBufferMap'[r.src] \in {dBufferMap[r.src], r.dev} \ {NULL}
    BY <1>2, <1>3, <1>4, AddChanges
  <1>6. /\ queue' \in Seq(Registration)
        /\ r = queue[1] /\ 1 \in 1 .. Len(queue)
        /\ \A i \in 1 .. Len(queue') :
             i + 1 \in 1 .. Len(queue) /\ queue'[i] = queue[i + 1]
    BY <1>1, <1>4
  <1>7. r.src # INVALID_SOCKET => owner[r.src] = r.dev
    BY <1>6 DEF OwnerKnown
  <1>8. TypeOK'
    BY <1>1, <1>3, <1>5, <1>6 DEF TypeOK
  <1>9. OwnerKnown'
    BY <1>1, <1>6 DEF OwnerKnown
  <1>10. NeverMisrouted'
    BY <1>1, <1>3, <1>5, <1>7 DEF NeverMisrouted, Socket, INVALID_SOCKET
  <1>11. MapIsLatest'
    <2> SUFFICES ASSUME NEW d \in Device, ~raced'[d]
                 PROVE  /\ latest'[d] # INVALID_SOCKET
                        /\ \A k \in Socket : dBufferMap'[k] = d <=> latest'[d] = k
      BY DEF MapIsLatest
    <2>1. ~raced[d] /\ (r.dev = d => r.src # INVALID_SOCKET)
      BY <1>1, <1>3 DEF TypeOK
    <2>2. /\ latest[d] # INVALID_SOCKET
          /\ \A k \in Socket : dBufferMap[k] = d <=> latest[d] = k
      BY <2>1 DEF MapIsLatest
    <2>3. CASE r.dev = d
      <3>1. r.src \in Conn /\ r.src # INVALID_SOCKET
        BY <2>1, <2>3, <1>3 DEF Socket
      <3>2. dBufferMap[r.src] \in {NULL, r.dev}
        BY <3>1, <1>7 DEF NeverMisrouted
      <3>3. \A j, k \in Socket : dBufferMap[j] = r.dev /\ dBufferMap[k] = r.dev => j = k
        BY <2>2, <2>3
      <3>4. \A k \in Socket : dBufferMap'[k] = r.dev <=> k = r.src
        BY <3>2, <3>3, <1>2, <1>3, <1>4, AddOneMatch
      <3>5. latest'[d] = r.src
        BY <1>1, <1>3, <2>3 DEF TypeOK
      <3> QED
        BY <3>1, <3>4, <3>5, <2>3
    <2>4. CASE r.dev # d
      <3>1. latest'[d] = latest[d]
        BY <1>1, <1>3, <2>4 DEF TypeOK
      <3>2. dBufferMap[r.src] # d
        <4>1. CASE r.src = INVALID_SOCKET
          BY <4>1, <2>2, <1>3
        <4>2. CASE r.src # INVALID_SOCKET
          BY <4>2, <1>3, <1>7, <2>4, DeviceAssumption DEF NeverMisrouted, Socket
        <4> QED
          BY <4>1, <4>2
      <3>3. dBufferMap'[r.src] # d
        BY <3>2, <1>5, <2>4
      <3>4. ASSUME NEW k \in Socket, k # r.src
            PROVE  dBufferMap'[k] = d <=> dBufferMap[k] = d
        <4>1. CASE dBufferMap[k] = d
          <5>1. dBufferMap[k] # r.dev
            BY <4>1, <2>4
          <5>2. dBufferMap'[k] = dBufferMap[k]
            BY <5>1, <3>4, <1>2, <1>3, <1>4, AddSpares
          <5> QED
            BY <5>2, <4>1
        <4>2. CASE dBufferMap[k] # d
          BY <4>2, <3>4, <1>5, DeviceAssumption
        <4> QED
          BY <4>1, <4>2
      <3> QED
        BY <2>2, <3>1, <3>2, <3>3, <3>4
    <2> QED
      BY <2>3, <2>4
  <1> QED
    BY <1>8, <1>9, <1>10, <1>11

(* Until its own registration races, a device's route is its last source.  *)
LEMMA RouteIsLatest ==
  ASSUME TypeOK, MapIsLatest, NEW d \in Device, ~raced[d]
  PROVE  GetSocketId(dBufferMap, d) = latest[d]
  <1>1. /\ \A k \in Socket : dBufferMap[k] = d <=> latest[d] = k
        /\ latest[d] \in Socket \union {0}
        /\ dBufferMap \in [Socket -> Device \union {NULL}]
    BY DEF MapIsLatest, TypeOK
  <1>2. \A x \in Socket \union {0} :
          (\A k \in Socket : dBufferMap[k] = d <=> x = k)
            => GetSocketId(dBufferMap, d) = x
    BY <1>1, OneHolder
  <1> QED
    BY <1>1, <1>2

(* Sending keeps the invariant.                                            *)
LEMMA SendKeeps ==
  ASSUME IndInv, (\E d \in Device : SendTo(d)) \/ SendToAll
  PROVE  IndInv'
  <1>1. UNCHANGED <<owner, alive, rpc, queue, dBufferMap, latest, raced>>
    BY DEF SendTo, SendToAll, table
  <1>2. written' \in [Conn -> BOOLEAN]
    BY DEF SendTo, SendToAll, IndInv, TypeOK
  <1>3. TypeOK'
    BY <1>1, <1>2 DEF IndInv, TypeOK
  <1>4. OwnerKnown' /\ NeverMisrouted' /\ MapIsLatest'
    BY <1>1 DEF IndInv, OwnerKnown, NeverMisrouted, MapIsLatest
  <1> QED
    BY <1>3, <1>4 DEF IndInv

(* The invariant is inductive.                                             *)
LEMMA NextInd == IndInv /\ [Next]_vars => IndInv'
  <1> SUFFICES ASSUME IndInv, [Next]_vars PROVE IndInv'
    OBVIOUS
  <1>1. CASE UNCHANGED vars
    BY <1>1 DEF vars, session, table, IndInv, TypeOK, OwnerKnown, NeverMisrouted,
                MapIsLatest
  <1>2. CASE Next
    BY <1>2, ConnectKeeps, ReceiveKeeps, EnqueueKeeps, DiesKeeps, RegisterKeeps,
       SendKeeps DEF Next
  <1> QED
    BY <1>1, <1>2

(* The invariant holds in every state of every behaviour.                  *)
THEOREM Inductive == Spec => []IndInv
  BY InitInd, NextInd, PTL DEF Spec

(* Type correctness: in particular a registration never carries source 0.  *)
THEOREM TypeCorrect == Spec => []TypeOK
  BY Inductive, PTL DEF IndInv

(* A socket stored for a device is a connection of that device, whatever   *)
(* the receive and send threads do to each other.                          *)
THEOREM RoutedToOwner == Spec => []NeverMisrouted
  BY Inductive, PTL DEF IndInv

(* Until one of its own registrations is handled with the source -1, a     *)
(* device's route is the source of its last registration.                  *)
THEOREM RouteCorrect == Spec => []UnracedRoute
  <1>1. IndInv => UnracedRoute
    <2> SUFFICES ASSUME IndInv, NEW d \in Device, ~raced[d]
                 PROVE  GetSocketId(dBufferMap, d) = latest[d]
      BY DEF UnracedRoute
    <2> QED
      BY RouteIsLatest DEF IndInv
  <1> QED
    BY <1>1, Inductive, PTL

-----------------------------------------------------------------------------
(* The refinement.                                                         *)

(* The table is a RouteTable: every registration takes effect on its own   *)
(* device alone, in order, and one that lost its source spoils no other    *)
(* route than its own device's.                                            *)
THEOREM Refinement == Spec => ImplementsRouteTable
  <1> DEFINE R == [d \in Device |-> IF raced[d] THEN INVALID_SOCKET
                                   ELSE GetSocketId(dBufferMap, d)]
             L == [d \in Device |-> IF raced[d] THEN INVALID_SOCKET ELSE latest[d]]
  <1>1. IndInv => R = L
    BY RouteIsLatest DEF IndInv
  <1>2. IndInv' => R' = L'
    <2> SUFFICES ASSUME IndInv', NEW d \in Device, ~raced'[d]
                 PROVE  GetSocketId(dBufferMap', d) = latest'[d]
      OBVIOUS
    <2>1. /\ \A k \in Socket : dBufferMap'[k] = d <=> latest'[d] = k
          /\ latest'[d] \in Socket \union {0}
          /\ dBufferMap' \in [Socket -> Device \union {NULL}]
      BY DEF IndInv, MapIsLatest, TypeOK
    <2>2. \A x \in Socket \union {0} :
            (\A k \in Socket : dBufferMap'[k] = d <=> x = k)
              => GetSocketId(dBufferMap', d) = x
      BY <2>1, OneHolder
    <2> QED
      BY <2>1, <2>2
  <1>3. Init => Table!RouteInit
    <2> SUFFICES ASSUME Init PROVE queue = <<>> /\ R = [d \in Device |-> 0]
      BY DEF Table!RouteInit
    <2>1. R = L
      BY <1>1, InitInd
    <2>2. L = [d \in Device |-> 0]
      BY DEF Init
    <2> HIDE DEF R, L
    <2> QED
      BY <2>1, <2>2 DEF Init
  <1>4. IndInv /\ IndInv' /\ [Next]_vars => [Table!RouteNext]_(Table!routeVars)
    <2> SUFFICES ASSUME IndInv, IndInv', [Next]_vars
                 PROVE  [Table!RouteNext]_(Table!routeVars)
      OBVIOUS
    <2>1. R = L /\ R' = L'
      <3> HIDE DEF R, L
      <3> QED
        BY <1>1, <1>2
    <2>2. ASSUME queue' = queue, dBufferMap' = dBufferMap, raced' = raced
          PROVE  UNCHANGED Table!routeVars
      BY <2>2 DEF Table!routeVars
    <2>3. ASSUME NEW t \in Conn, Enqueue(t)
          PROVE  \E s \in Conn \union {INVALID_SOCKET}, d \in Device : Table!Arrive(s, d)
      <3>1. owner[t] \in Device
        BY <2>3 DEF IndInv, TypeOK, OwnerKnown, Enqueue
      <3>2. Source(t) \in Conn \union {INVALID_SOCKET}
        BY DEF Source
      <3>3. Table!Arrive(Source(t), owner[t])
        BY <2>3 DEF Enqueue, table, Table!Arrive
      <3> QED
        BY <3>1, <3>2, <3>3
    <2>4. ASSUME Register
          PROVE  Table!Apply
      <3>1. /\ queue # <<>> /\ queue' = Tail(queue)
            /\ latest' = [latest EXCEPT ![Head(queue).dev] = Head(queue).src]
            /\ raced' = [raced EXCEPT ![Head(queue).dev] =
                            @ \/ Head(queue).src = INVALID_SOCKET]
        BY <2>4 DEF Register
      <3>2. PICK r \in Registration : r = Head(queue)
        BY <3>1 DEF IndInv, TypeOK
      <3>3. r.dev \in Device
        BY DEF Registration
      <3>4. \A d \in Device : ~raced[d] => latest[d] # INVALID_SOCKET
        BY DEF IndInv, MapIsLatest
      <3>5. L' = [L EXCEPT ![r.dev] = IF @ = INVALID_SOCKET THEN INVALID_SOCKET
                                      ELSE r.src]
        <4>1. /\ latest' = [latest EXCEPT ![r.dev] = r.src]
              /\ raced' = [raced EXCEPT ![r.dev] = @ \/ r.src = INVALID_SOCKET]
          BY <3>1, <3>2
        <4>2. latest \in [Device -> Socket \union {0}] /\ raced \in [Device -> BOOLEAN]
          BY DEF IndInv, TypeOK
        <4>3. ASSUME NEW d \in Device
              PROVE  L'[d] = IF d = r.dev
                             THEN IF L[d] = INVALID_SOCKET THEN INVALID_SOCKET ELSE r.src
                             ELSE L[d]
          BY <4>1, <4>2, <3>3, <3>4
        <4> QED
          BY <4>3
      <3> HIDE DEF R, L
      <3>6. R' = [R EXCEPT ![Head(queue).dev] =
                     IF @ = INVALID_SOCKET THEN INVALID_SOCKET ELSE Head(queue).src]
        BY <3>5, <2>1, <3>2
      <3> QED
        BY <3>1, <3>6 DEF Table!Apply, R
    <2>5. CASE UNCHANGED vars
      BY <2>5, <2>2 DEF vars, table
    <2>6. CASE Next
      <3>1. \/ queue' = queue /\ dBufferMap' = dBufferMap /\ raced' = raced
            \/ \E t \in Conn : Enqueue(t)
            \/ Register
        BY <2>6 DEF Next, Connect, Receive, PeerCloses, SendFails, SendTo, SendToAll,
                    table
      <3> QED
        BY <3>1, <2>2, <2>3, <2>4 DEF Table!RouteNext
    <2> QED
      BY <2>5, <2>6
  <1> QED
    BY <1>3, <1>4, Inductive, PTL DEF Spec, ImplementsRouteTable, Table!RouteSpec
=============================================================================
