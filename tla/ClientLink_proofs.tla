-------------------------- MODULE ClientLink_proofs --------------------------
(***************************************************************************)
(* Proofs about ClientLink, for any number of activities, buttons,         *)
(* broadcasts and parts of a frame.                                        *)
(***************************************************************************)
EXTENDS ClientLink, FiniteSetTheorems, TLAPS

USE BoundAssumption

(* The disjuncts of Next, each by itself.                                  *)
LEMMA Steps ==
  ASSUME [Next]_vars
  PROVE  \/ OnCreate \/ Connect \/ Created \/ OnPause \/ Destroyed
         \/ \E kind \in Command : OnClick(kind)
         \/ OnPreviewFrame \/ SendBySocket
         \/ Top \/ Select \/ SelectFails \/ RecvCalled \/ Recv \/ Lost \/ Attach \/ Detach
         \/ \E c \in Conn : Break(c) \/ Answer(c)
         \/ Broadcast
         \/ UNCHANGED vars
  BY DEF Next

-----------------------------------------------------------------------------
(* The connections.                                                        *)

(* Connections are made in the order of their numbers.                     *)
Numbered == \E k \in 0 .. MaxConn : Made = 1 .. k

(* The last part on a connection that stands and is used.                  *)
AtEnd ==
  LET s == stream[iSocket] IN
  IF ui = "sending" /\ sending.left < Size
    THEN s # <<>> /\ s[Len(s)] = [kind |-> sending.kind, part |-> Size - sending.left]
    ELSE s = <<>> \/ s[Len(s)].part = Size

(* Only a connection that is used gets anything, and its last part is the  *)
(* one before what is being sent.                                          *)
Streams ==
  /\ \A c \in Conn : link[c] \in {"none", "open"} => stream[c] = <<>>
  /\ iSocket # INVALID_SOCKET => link[iSocket] # "none"
  /\ ui = "connecting" /\ iSocket # INVALID_SOCKET => link[iSocket] = "open"
  /\ iSocket # INVALID_SOCKET /\ link[iSocket] = "up" => AtEnd
  /\ WholeFrames

(* With one activity, the receive thread gives up no connection that       *)
(* stands.                                                                 *)
Alone ==
  Made \subseteq {1} =>
    /\ rpc = "none" \/ (ui # "connecting" /\ Made # {})
    /\ \A c \in Conn : link[c] = "up" =>
         iSocket = c /\ rpc # "lost" /\ (rpc = "reading" => fdSet = c)

IndInv == TypeOK /\ Numbered /\ Streams /\ Alone

(* The phone starts in the invariant.                                      *)
LEMMA InitIndInv == Init => IndInv
  <1> SUFFICES ASSUME Init PROVE IndInv
    OBVIOUS
  <1>0. <<>> \in Seq(Part)
    OBVIOUS
  <1>1. TypeOK
    <2>1. bIsConnect \in BOOLEAN /\ bIsNeedToSend \in BOOLEAN /\ camera \in BOOLEAN /\ misused \in BOOLEAN
      BY DEF Init
    <2>2. stream \in [Conn -> Seq(Part)] /\ inbox \in [Conn -> Nat] /\ answered \in [Conn -> Nat]
      BY <1>0 DEF Init
    <2>3. taps \in 0 .. MaxTaps /\ broadcasts \in 0 .. MaxBroadcasts
      BY DEF Init
    <2>4. sending \in {Nothing} /\ ui = "new"
      BY DEF Init
    <2> QED
      BY <2>1, <2>2, <2>3, <2>4 DEF Init, TypeOK, INVALID_SOCKET
  <1>2. Made = {} /\ Made = 1 .. 0 /\ 0 \in 0 .. MaxConn
    BY DEF Init, Made
  <1>3. Numbered
    BY <1>2 DEF Numbered
  <1>4. Streams /\ Alone
    BY <1>2 DEF Init, Streams, Alone, WholeFrames, INVALID_SOCKET, Conn
  <1> QED
    BY <1>1, <1>3, <1>4 DEF IndInv

(* The next connection is a new one.                                       *)
LEMMA NextNumber ==
  ASSUME Numbered, Made # Conn, NEW n, n = Cardinality(Made) + 1
  PROVE  /\ n \in Conn /\ link[n] = "none"
         /\ Made \union {n} = 1 .. n
         /\ Made \union {n} \subseteq {1} => Made = {} /\ n = 1
  <1>1. PICK k \in 0 .. MaxConn : Made = 1 .. k
    BY DEF Numbered
  <1>2. k \in Int /\ MaxConn \in Nat /\ k < MaxConn
    <2>1. k # MaxConn
      BY <1>1 DEF Conn
    <2> QED
      BY <2>1
  <1>3. Cardinality(1 .. k) = k
    BY <1>2, FS_Interval
  <1>4. n = k + 1
    BY <1>1, <1>3
  <1>5. n \in Conn /\ n \notin Made
    BY <1>1, <1>2, <1>4 DEF Conn
  <1>6. Made \union {n} = 1 .. n
    BY <1>1, <1>2, <1>4
  <1>7. Made \union {n} \subseteq {1} => Made = {} /\ n = 1
    BY <1>1, <1>2, <1>4
  <1> QED
    BY <1>5, <1>6, <1>7 DEF Made

-----------------------------------------------------------------------------
(* The activity.                                                           *)

LEMMA OnCreateIndInv == IndInv /\ OnCreate => IndInv'
  <1> SUFFICES ASSUME IndInv, OnCreate PROVE IndInv'
    OBVIOUS
  <1> DEFINE n == Cardinality(Made) + 1
  <1>1. /\ ui = "new" /\ Made # Conn
        /\ iSocket' = n /\ link' = [link EXCEPT ![n] = "open"]
        /\ covered' \in {covered \union {n}, covered}
        /\ ui' = "connecting" /\ bIsConnect' = FALSE /\ bIsNeedToSend' = FALSE
        /\ misused' = (misused \/ jniEnvControl # "ui")
        /\ UNCHANGED <<sending, camera, stream, inbox, answered, rpc, fdSet, jniEnvControl, taps,
                       broadcasts>>
    BY DEF OnCreate, UseEnv, rcvVars
  <1>2. n \in Conn /\ link[n] = "none" /\ Made \union {n} = 1 .. n
        /\ (Made \union {n} \subseteq {1} => Made = {} /\ n = 1)
    BY <1>1, NextNumber DEF IndInv
  <1> HIDE DEF n
  <1>3. link \in [Conn -> {"none", "open", "up", "broken", "closed"}]
    BY DEF IndInv, TypeOK
  <1>4. /\ link'[n] = "open" /\ \A c \in Conn : c # n => link'[c] = link[c]
        /\ link' \in [Conn -> {"none", "open", "up", "broken", "closed"}]
    BY <1>1, <1>2, <1>3
  <1>5. Made' = Made \union {n}
    BY <1>2, <1>4 DEF Made
  <1>6. TypeOK'
    <2>1. sending' # Nothing <=> ui' = "sending"
      BY <1>1 DEF IndInv, TypeOK
    <2>2. misused' \in BOOLEAN
      BY <1>1
    <2>3. covered' \subseteq Conn
      BY <1>1, <1>2 DEF IndInv, TypeOK
    <2> QED
      BY <1>1, <1>2, <1>4, <2>1, <2>2, <2>3 DEF IndInv, TypeOK
  <1>7. Numbered'
    BY <1>2, <1>5 DEF Numbered, Conn
  <1>8. Streams'
    <2>1. stream[n] = <<>> /\ n # INVALID_SOCKET
      BY <1>2 DEF IndInv, Streams, INVALID_SOCKET, Conn
    <2> QED
      BY <1>1, <1>2, <1>4, <2>1 DEF IndInv, Streams, WholeFrames
  <1>9. Alone'
    BY <1>1, <1>2, <1>4, <1>5 DEF IndInv, Alone, Made
  <1> QED
    BY <1>6, <1>7, <1>8, <1>9 DEF IndInv

(* A new connection has an empty stream.                                   *)
LEMMA ConnectIndInv == IndInv /\ Connect => IndInv'
  <1> SUFFICES ASSUME IndInv, Connect PROVE IndInv'
    OBVIOUS
  <1>1. PICK ok \in BOOLEAN :
          /\ ok => iSocket # INVALID_SOCKET
          /\ bIsConnect' = ok
          /\ link' = IF iSocket = INVALID_SOCKET THEN link
                     ELSE [link EXCEPT ![iSocket] = IF ok THEN "up" ELSE "closed"]
          /\ iSocket' = IF ok THEN iSocket ELSE INVALID_SOCKET
          /\ rpc' = IF ok /\ rpc = "none" THEN "top" ELSE rpc
    BY DEF Connect
  <1>2. /\ ui = "connecting" /\ ui' = "opened"
        /\ UNCHANGED <<sending, bIsNeedToSend, camera, covered, stream, inbox, answered, fdSet,
                       jniEnvControl, taps, broadcasts, misused>>
    BY DEF Connect
  <1>3. /\ link \in [Conn -> {"none", "open", "up", "broken", "closed"}]
        /\ iSocket \in Conn \union {INVALID_SOCKET} /\ INVALID_SOCKET \notin Conn
    BY DEF IndInv, TypeOK, INVALID_SOCKET, Conn
  <1>4. iSocket # INVALID_SOCKET => link[iSocket] = "open" /\ stream[iSocket] = <<>>
    BY <1>2, <1>3 DEF IndInv, Streams
  <1>5. /\ link' \in [Conn -> {"none", "open", "up", "broken", "closed"}]
        /\ \A c \in Conn : c # iSocket => link'[c] = link[c]
        /\ iSocket # INVALID_SOCKET => link'[iSocket] \in {"up", "closed"}
        /\ iSocket # INVALID_SOCKET /\ ~ok => link'[iSocket] = "closed"
    BY <1>1, <1>3
  <1>6. Made' = Made
    BY <1>3, <1>4, <1>5 DEF Made
  <1>7. TypeOK'
    <2>1. sending' # Nothing <=> ui' = "sending"
      BY <1>2 DEF IndInv, TypeOK
    <2>2. iSocket' \in Conn \union {INVALID_SOCKET}
      BY <1>1, <1>3
    <2>3. bIsConnect' \in BOOLEAN
      BY <1>1
    <2>4. rpc' \in {rpc, "top"}
      BY <1>1
    <2> QED
      BY <1>2, <1>5, <2>1, <2>2, <2>3, <2>4 DEF IndInv, TypeOK
  <1>8. Numbered'
    BY <1>6 DEF IndInv, Numbered
  <1>9. Streams'
    <2>1. \A c \in Conn : link'[c] \in {"none", "open"} => stream'[c] = <<>>
      BY <1>2, <1>3, <1>5 DEF IndInv, Streams
    <2>2. iSocket' # INVALID_SOCKET => iSocket' = iSocket
      BY <1>1
    <2>3. iSocket' # INVALID_SOCKET => link'[iSocket'] # "none"
      BY <1>5, <2>2
    <2>4. iSocket' # INVALID_SOCKET => AtEnd'
      BY <1>2, <1>4, <2>2 DEF AtEnd
    <2> QED
      BY <1>2, <2>1, <2>3, <2>4 DEF IndInv, Streams, WholeFrames
  <1>10. Alone'
    <2> SUFFICES ASSUME Made \subseteq {1} PROVE Alone'
      BY <1>6 DEF Alone
    <2>1. rpc = "none" /\ \A c \in Conn : link[c] = "up" => iSocket = c
      BY <1>2 DEF IndInv, Alone
    <2>2. rpc' \in {"none", "top"} /\ (rpc' = "none" \/ iSocket # INVALID_SOCKET)
      BY <1>1, <2>1
    <2>3. iSocket # INVALID_SOCKET => Made # {}
      BY <1>3, <1>4 DEF Made
    <2>4. \A c \in Conn : link'[c] = "up" => iSocket' = c
      <3> SUFFICES ASSUME NEW c \in Conn, link'[c] = "up" PROVE iSocket' = c
        OBVIOUS
      <3>1. iSocket = c
        BY <1>5, <2>1
      <3>2. ok
        BY <1>3, <1>5, <3>1
      <3> QED
        BY <1>1, <3>1, <3>2
    <2> QED
      BY <1>2, <1>6, <2>2, <2>3, <2>4 DEF Alone
  <1> QED
    BY <1>7, <1>8, <1>9, <1>10 DEF IndInv

(* The steps of the activity that send nothing.                            *)
LEMMA ActivityIndInv == IndInv /\ (Created \/ OnPause \/ Destroyed) => IndInv'
  <1> SUFFICES ASSUME IndInv, Created \/ OnPause \/ Destroyed PROVE IndInv'
    OBVIOUS
  <1>1. /\ ui \in {"opened", "idle"} /\ ui' \in {"idle", "new"}
        /\ UNCHANGED <<sending, bIsConnect, bIsNeedToSend, link, covered, stream, inbox, answered,
                       broadcasts, rpc, fdSet, iSocket, jniEnvControl, taps>>
    BY DEF Created, OnPause, Destroyed, netVars, rcvVars
  <1>2. camera' \in BOOLEAN /\ misused' \in BOOLEAN
    <2>1. camera \in BOOLEAN /\ misused \in BOOLEAN
      BY DEF IndInv, TypeOK
    <2>2. CASE Created
      BY <2>2 DEF Created, UseEnv
    <2>3. CASE OnPause
      BY <2>1, <2>3 DEF OnPause
    <2>4. CASE Destroyed
      BY <2>1, <2>4 DEF Destroyed
    <2> QED
      BY <2>2, <2>3, <2>4
  <1>3. TypeOK'
    <2>1. sending' # Nothing <=> ui' = "sending"
      BY <1>1 DEF IndInv, TypeOK
    <2> QED
      BY <1>1, <1>2, <2>1 DEF IndInv, TypeOK
  <1>4. Made' = Made
    BY <1>1 DEF Made
  <1>5. Numbered' /\ Streams' /\ Alone'
    BY <1>1, <1>4 DEF IndInv, Numbered, Streams, AtEnd, WholeFrames, Alone
  <1> QED
    BY <1>3, <1>5 DEF IndInv

-----------------------------------------------------------------------------
(* Sending.                                                                *)

(* A frame begins: nothing of it is on the connection.                     *)
LEMMA BeginIndInv ==
  ASSUME IndInv, ui = "idle", NEW kind \in Kind, SendDataNow(kind),
         bIsNeedToSend' \in BOOLEAN, misused' \in BOOLEAN, taps' \in 0 .. MaxTaps,
         UNCHANGED <<bIsConnect, camera, link, covered, stream, inbox, answered, broadcasts, rpc,
                     fdSet, iSocket, jniEnvControl>>
  PROVE  IndInv'
  <1>1. \/ UNCHANGED <<ui, sending>>
        \/ ui' = "sending" /\ sending' = [kind |-> kind, left |-> Size]
    BY DEF SendDataNow
  <1>2. Made' = Made
    BY DEF Made
  <1>3. TypeOK'
    <2>1. Size \in 1 .. Size /\ kind # "none"
      BY DEF Kind, Command
    <2>2. sending' \in [kind : Kind, left : 1 .. Size] \union {Nothing}
      BY <1>1, <2>1 DEF IndInv, TypeOK
    <2>3. sending' # Nothing <=> ui' = "sending"
      BY <1>1, <2>1 DEF IndInv, TypeOK, Nothing
    <2>4. ui' \in {"idle", "sending"}
      BY <1>1
    <2> QED
      BY <2>2, <2>3, <2>4 DEF IndInv, TypeOK
  <1>4. Streams'
    <2>1. iSocket # INVALID_SOCKET /\ link[iSocket] = "up" => AtEnd'
      <3> SUFFICES ASSUME iSocket # INVALID_SOCKET, link[iSocket] = "up" PROVE AtEnd'
        OBVIOUS
      <3>1. stream[iSocket] = <<>> \/ stream[iSocket][Len(stream[iSocket])].part = Size
        BY DEF IndInv, Streams, AtEnd
      <3>2. ~(ui' = "sending" /\ sending'.left < Size)
        BY <1>1
      <3> QED
        BY <3>1, <3>2 DEF AtEnd
    <2>2. ui' # "connecting"
      BY <1>1
    <2> QED
      BY <2>1, <2>2 DEF IndInv, Streams, WholeFrames
  <1>5. Numbered' /\ Alone'
    <2>1. ui' # "connecting"
      BY <1>1
    <2> QED
      BY <1>2, <2>1 DEF IndInv, Numbered, Alone
  <1> QED
    BY <1>3, <1>4, <1>5 DEF IndInv

(* A button only queues a command.                                         *)
LEMMA OnClickIndInv ==
  ASSUME IndInv, NEW kind \in Command, OnClick(kind) PROVE IndInv'
  <1>1. /\ ui = "idle" /\ kind \in Kind /\ SendDataNow(kind)
        /\ UNCHANGED <<bIsConnect, camera, link, covered, stream, inbox, answered, broadcasts, rpc,
                       fdSet, iSocket, jniEnvControl, misused>>
    BY DEF OnClick, Kind, netVars, rcvVars
  <1>2. bIsNeedToSend' \in BOOLEAN
    BY DEF OnClick
  <1>3. taps' \in 0 .. MaxTaps /\ misused' \in BOOLEAN
    BY DEF OnClick, IndInv, TypeOK
  <1> QED
    BY <1>1, <1>2, <1>3, BeginIndInv

(* A picture is only queued.                                               *)
LEMMA OnPreviewFrameIndInv == IndInv /\ OnPreviewFrame => IndInv'
  <1> SUFFICES ASSUME IndInv, OnPreviewFrame PROVE IndInv'
    OBVIOUS
  <1>1. /\ ui = "idle" /\ "picture" \in Kind /\ SendDataNow("picture")
        /\ UNCHANGED <<bIsConnect, camera, link, covered, stream, inbox, answered, broadcasts, rpc,
                       fdSet, iSocket, jniEnvControl, taps>>
    BY DEF OnPreviewFrame, Kind, netVars, rcvVars
  <1>2. bIsNeedToSend' \in BOOLEAN /\ misused' \in BOOLEAN
    BY DEF OnPreviewFrame, UseEnv
  <1>3. taps' \in 0 .. MaxTaps
    BY <1>1 DEF IndInv, TypeOK
  <1> QED
    BY <1>1, <1>2, <1>3, BeginIndInv

(* What may come after a part, and the framing of one connection.          *)
Follows(p, q) == IF p.part = Size THEN q.part = 1 ELSE q = [p EXCEPT !.part = @ + 1]
Framed(s) == \A i \in 1 .. Len(s) : IF i = 1 THEN s[i].part = 1 ELSE Follows(s[i - 1], s[i])

(* Frames are whole exactly when the parts of each stream follow each      *)
(* other.                                                                  *)
LEMMA WholeIsFramed ==
  TypeOK => (WholeFrames <=> \A c \in Conn : Framed(stream[c]))
  <1> SUFFICES ASSUME TypeOK PROVE WholeFrames <=> \A c \in Conn : Framed(stream[c])
    OBVIOUS
  <1>1. \A c \in Conn : DOMAIN stream[c] = 1 .. Len(stream[c])
    BY DEF TypeOK
  <1> QED
    BY <1>1 DEF WholeFrames, Framed, Follows

(* What is behind a stream when parts are appended to it.                  *)
LEMMA Joined ==
  ASSUME NEW s \in Seq(Part), NEW n \in Nat, NEW u \in [1 .. n -> Part]
  PROVE  /\ s \o u \in Seq(Part) /\ Len(s \o u) = Len(s) + n /\ Len(s) \in Nat
         /\ \A i \in 1 .. Len(s) : (s \o u)[i] = s[i]
         /\ \A i \in 1 .. n : (s \o u)[Len(s) + i] = u[i]
  <1>1. u \in Seq(Part) /\ Len(u) = n
    OBVIOUS
  <1> QED
    BY <1>1

(* The parts that one send of a frame takes.                               *)
PartOf(kind, left, i) == [kind |-> kind, part |-> Size - left + i]

(* The parts of one send follow each other, from where the send before     *)
(* ended.                                                                  *)
LEMMA PartsFollow ==
  ASSUME NEW kind \in Kind, NEW left \in 1 .. Size, NEW n \in 1 .. left
  PROVE  /\ \A i \in 1 .. n : PartOf(kind, left, i) \in Part
         /\ left = Size => PartOf(kind, left, 1).part = 1
         /\ left < Size => Follows([kind |-> kind, part |-> Size - left], PartOf(kind, left, 1))
         /\ \A i \in 2 .. n : Follows(PartOf(kind, left, i - 1), PartOf(kind, left, i))
  <1>1. Size \in Nat /\ left \in Nat /\ n \in Nat /\ 1 <= n /\ n <= left /\ left <= Size
    OBVIOUS
  <1>2. \A i \in 1 .. n : PartOf(kind, left, i) \in Part
    BY <1>1 DEF PartOf, Part
  <1>3. left = Size => PartOf(kind, left, 1).part = 1
    BY <1>1 DEF PartOf
  <1>4. left < Size => Follows([kind |-> kind, part |-> Size - left], PartOf(kind, left, 1))
    BY <1>1 DEF PartOf, Follows
  <1>5. ASSUME NEW i \in 2 .. n
        PROVE  Follows(PartOf(kind, left, i - 1), PartOf(kind, left, i))
    <2>1. Size - left + (i - 1) # Size /\ Size - left + (i - 1) + 1 = Size - left + i
      BY <1>1
    <2> QED
      BY <2>1 DEF PartOf, Follows
  <1> QED
    BY <1>2, <1>3, <1>4, <1>5

(* The parts a send puts on the connection go on where the last one ended. *)
LEMMA PartsGoOn ==
  ASSUME NEW s \in Seq(Part), NEW kind \in Kind, NEW left \in 1 .. Size, NEW n \in 1 .. left,
         Framed(s),
         left < Size => s # <<>> /\ s[Len(s)] = [kind |-> kind, part |-> Size - left],
         left = Size => s = <<>> \/ s[Len(s)].part = Size,
         NEW t, t = s \o [i \in 1 .. n |-> PartOf(kind, left, i)]
  PROVE  /\ t \in Seq(Part) /\ Framed(t)
         /\ t # <<>> /\ t[Len(t)] = PartOf(kind, left, n)
  <1> DEFINE u == [i \in 1 .. n |-> PartOf(kind, left, i)]
  <1>1. /\ n \in Nat /\ n >= 1
        /\ u \in [1 .. n -> Part] /\ \A i \in 1 .. n : u[i] = PartOf(kind, left, i)
    <2>1. \A i \in 1 .. n : PartOf(kind, left, i) \in Part
      BY PartsFollow
    <2>2. n \in Nat /\ n >= 1
      OBVIOUS
    <2>3. u \in [1 .. n -> Part] /\ \A i \in 1 .. n : u[i] = PartOf(kind, left, i)
      BY <2>1
    <2> QED
      BY <2>2, <2>3
  <1>2. t = s \o u
    OBVIOUS
  <1> HIDE DEF u
  <1>3. /\ t \in Seq(Part) /\ Len(t) = Len(s) + n /\ Len(s) \in Nat
        /\ \A i \in 1 .. Len(s) : t[i] = s[i]
        /\ \A i \in 1 .. n : t[Len(s) + i] = PartOf(kind, left, i)
    <2>1. /\ s \o u \in Seq(Part) /\ Len(s \o u) = Len(s) + n /\ Len(s) \in Nat
          /\ \A i \in 1 .. Len(s) : (s \o u)[i] = s[i]
          /\ \A i \in 1 .. n : (s \o u)[Len(s) + i] = u[i]
      BY <1>1, Joined
    <2> QED
      BY ONLY <1>1, <1>2, <2>1
  <1>4. t # <<>> /\ t[Len(t)] = PartOf(kind, left, n)
    BY <1>1, <1>3
  <1>5. ASSUME NEW i \in 1 .. Len(t)
        PROVE  IF i = 1 THEN t[i].part = 1 ELSE Follows(t[i - 1], t[i])
    <2>1. CASE i \in 1 .. Len(s)
      <3>1. t[i] = s[i] /\ (i # 1 => t[i - 1] = s[i - 1])
        BY <1>3, <2>1
      <3> QED
        BY <2>1, <3>1 DEF Framed
    <2>2. CASE i = Len(s) + 1
      <3>1. t[i] = PartOf(kind, left, 1)
        BY <1>1, <1>3, <2>2
      <3>2. i = 1 <=> s = <<>>
        BY <1>3, <2>2
      <3>3. i # 1 => t[i - 1] = s[Len(s)]
        BY <1>3, <2>2
      <3>4. left = Size \/ left < Size
        OBVIOUS
      <3>5. CASE left = Size
        <4>1. PartOf(kind, left, 1).part = 1
          BY <3>5, PartsFollow
        <4>2. i = 1 \/ t[i - 1].part = Size
          BY <3>2, <3>3, <3>5
        <4> QED
          BY <3>1, <4>1, <4>2 DEF Follows
      <3>6. CASE left < Size
        BY <3>1, <3>2, <3>3, <3>6, PartsFollow
      <3> QED
        BY <3>4, <3>5, <3>6
    <2>3. CASE i > Len(s) + 1
      <3>1. PICK j \in 2 .. n : i = Len(s) + j
        <4>1. i - Len(s) \in 2 .. n /\ i = Len(s) + (i - Len(s))
          BY <1>1, <1>3, <2>3
        <4> QED
          BY <4>1
      <3>2. j \in 1 .. n /\ j - 1 \in 1 .. n /\ i - 1 = Len(s) + (j - 1) /\ i # 1
        BY <1>1, <1>3, <3>1
      <3>3. t[i] = PartOf(kind, left, j) /\ t[i - 1] = PartOf(kind, left, j - 1)
        BY <1>3, <3>1, <3>2
      <3> QED
        BY <3>2, <3>3, PartsFollow
    <2>4. i \in 1 .. Len(s) \/ i = Len(s) + 1 \/ i > Len(s) + 1
      BY ONLY i \in 1 .. Len(t), <1>3, n \in 1 .. left, left \in 1 .. Size
    <2> QED
      BY <2>1, <2>2, <2>3, <2>4
  <1> QED
    BY <1>3, <1>4, <1>5 DEF Framed

(* A send, whole or in part, continues the frame that was begun.           *)
LEMMA SendBySocketIndInv == IndInv /\ SendBySocket => IndInv'
  <1> SUFFICES ASSUME IndInv, SendBySocket PROVE IndInv'
    OBVIOUS
  <1>1. /\ ui = "sending"
        /\ UNCHANGED <<bIsConnect, bIsNeedToSend, camera, taps, link, covered, inbox, answered,
                       broadcasts, rpc, fdSet, iSocket, jniEnvControl>>
    BY DEF SendBySocket, rcvVars
  <1>2. PICK n \in Accepted :
          /\ stream' = IF n = 0 \/ link[iSocket] # "up" THEN stream
                       ELSE [stream EXCEPT ![iSocket] = stream[iSocket] \o
                              [i \in 1 .. n |-> [kind |-> sending.kind,
                                                 part |-> Size - sending.left + i]]]
          /\ IF n \in {0, sending.left}
               THEN Return
               ELSE /\ sending' = [sending EXCEPT !.left = sending.left - n]
                    /\ UNCHANGED <<ui, misused>>
    BY DEF SendBySocket
  <1>3. /\ sending \in [kind : Kind, left : 1 .. Size] /\ sending # Nothing
        /\ iSocket \in Conn \union {INVALID_SOCKET} /\ misused \in BOOLEAN
        /\ stream \in [Conn -> Seq(Part)]
    BY <1>1 DEF IndInv, TypeOK
  <1>4. /\ iSocket = INVALID_SOCKET => n = 0
        /\ n \in 0 .. sending.left
        /\ iSocket # INVALID_SOCKET /\ link[iSocket] = "up" => n \in 1 .. sending.left
    BY <1>3 DEF Accepted
  <1>5. /\ ui' \in {"idle", "sending"} /\ misused' \in BOOLEAN
        /\ sending' \in [kind : Kind, left : 1 .. Size] \union {Nothing}
        /\ sending' # Nothing <=> ui' = "sending"
        /\ n = sending.left => ui' = "idle"
        /\ ui' = "sending" => /\ n \in 1 .. sending.left - 1
                              /\ sending' = [kind |-> sending.kind, left |-> sending.left - n]
    <2>1. CASE n \in {0, sending.left}
      <3>1. Return
        BY <1>2, <2>1
      <3>2. ui' = "idle" /\ sending' = Nothing
        BY <3>1 DEF Return
      <3>3. misused' \in BOOLEAN
        BY <1>3, <3>1 DEF Return, UseEnv
      <3> QED
        BY <3>2, <3>3
    <2>2. CASE n \notin {0, sending.left}
      <3>1. sending' = [sending EXCEPT !.left = sending.left - n] /\ UNCHANGED <<ui, misused>>
        BY <1>2, <2>2
      <3>2. /\ sending.left \in 1 .. Size /\ sending.kind \in Kind
            /\ sending = [kind |-> sending.kind, left |-> sending.left]
        BY <1>3
      <3>3. n \in 1 .. sending.left - 1 /\ sending.left - n \in 1 .. Size
        BY <1>4, <2>2, <3>2
      <3>4. sending' = [kind |-> sending.kind, left |-> sending.left - n]
        BY <3>1, <3>2
      <3>5. sending' \in [kind : Kind, left : 1 .. Size]
        BY <3>2, <3>3, <3>4
      <3>6. sending' # Nothing
        <4>1. sending.kind # "none"
          BY <3>2 DEF Kind, Command
        <4> QED
          BY <3>4, <4>1 DEF Nothing
      <3> QED
        BY <1>1, <1>3, <2>2, <3>1, <3>3, <3>4, <3>5, <3>6
    <2> QED
      BY <2>1, <2>2
  <1>6. \A c \in Conn : Framed(stream[c])
    BY WholeIsFramed DEF IndInv, Streams
  <1>7. /\ stream' \in [Conn -> Seq(Part)] /\ \A c \in Conn : Framed(stream'[c])
        /\ \A c \in Conn : link[c] # "up" => stream'[c] = stream[c]
        /\ iSocket # INVALID_SOCKET /\ link[iSocket] = "up" => AtEnd'
    <2>1. CASE n = 0 \/ link[iSocket] # "up"
      <3>1. stream' = stream
        BY <1>2, <2>1
      <3>2. ~(iSocket # INVALID_SOCKET /\ link[iSocket] = "up")
        BY <1>3, <1>4, <2>1
      <3> QED
        BY <1>3, <1>6, <3>1, <3>2
    <2>2. CASE ~(n = 0 \/ link[iSocket] # "up")
      <3> DEFINE s == stream[iSocket]
                 kind == sending.kind
                 left == sending.left
                 t == s \o [i \in 1 .. n |-> PartOf(kind, left, i)]
      <3>1. iSocket \in Conn /\ iSocket # INVALID_SOCKET /\ link[iSocket] = "up"
        BY <1>3, <1>4, <2>2
      <3>2. kind \in Kind /\ left \in 1 .. Size /\ n \in 1 .. left /\ s \in Seq(Part)
        BY <1>3, <1>4, <3>1
      <3>3. stream' = [stream EXCEPT ![iSocket] = t]
        BY <1>2, <2>2 DEF PartOf
      <3>4. AtEnd
        BY <3>1 DEF IndInv, Streams
      <3>5. /\ left < Size => s # <<>> /\ s[Len(s)] = [kind |-> kind, part |-> Size - left]
            /\ left = Size => s = <<>> \/ s[Len(s)].part = Size
        BY <1>1, <3>2, <3>4 DEF AtEnd
      <3>6. Framed(s)
        BY <1>6, <3>1
      <3> HIDE DEF s, kind, left
      <3>7. t = s \o [i \in 1 .. n |-> PartOf(kind, left, i)]
        OBVIOUS
      <3> HIDE DEF t
      <3>8. /\ t \in Seq(Part) /\ Framed(t)
            /\ t # <<>> /\ t[Len(t)] = PartOf(kind, left, n)
        BY ONLY <3>2, <3>5, <3>6, <3>7, PartsGoOn, ZenonT(60)
      <3>9. stream'[iSocket] = t /\ \A c \in Conn : c # iSocket => stream'[c] = stream[c]
        BY <1>3, <3>1, <3>3
      <3>10. stream' \in [Conn -> Seq(Part)]
        BY <1>3, <3>1, <3>3, <3>8
      <3>11. AtEnd'
        <4>1. CASE ui' = "sending"
          <5>1. /\ n \in 1 .. left - 1 /\ sending'.kind = kind /\ sending'.left = left - n
            BY <1>5, <4>1 DEF kind, left
          <5>2. Size - sending'.left = Size - left + n
            BY <3>2, <5>1
          <5>3. t[Len(t)] = [kind |-> sending'.kind, part |-> Size - sending'.left]
            BY <3>8, <5>1, <5>2 DEF PartOf
          <5>4. sending'.left < Size
            BY <3>2, <5>1
          <5>5. stream'[iSocket'] = t
            BY <1>1, <3>9
          <5> QED
            BY <3>8, <4>1, <5>3, <5>4, <5>5 DEF AtEnd
        <4>2. CASE ui' # "sending"
          <5>1. n = left
            BY <1>2, <1>5, <2>2, <4>2, <1>1 DEF left
          <5>2. t[Len(t)].part = Size
            BY <3>2, <3>8, <5>1 DEF PartOf
          <5>3. stream'[iSocket'] = t
            BY <1>1, <3>9
          <5> QED
            BY <4>2, <5>2, <5>3 DEF AtEnd
        <4> QED
          BY <4>1, <4>2
      <3> QED
        BY <1>6, <3>1, <3>8, <3>9, <3>10, <3>11
    <2> QED
      BY <2>1, <2>2
  <1>8. TypeOK'
    BY <1>1, <1>5, <1>7 DEF IndInv, TypeOK
  <1>9. Streams'
    <2>1. WholeFrames'
      <3>1. \A c \in Conn : DOMAIN stream'[c] = 1 .. Len(stream'[c])
        BY <1>7
      <3> QED
        BY <1>7, <3>1 DEF WholeFrames, Framed, Follows
    <2>2. ui' # "connecting"
      BY <1>5
    <2>3. \A c \in Conn : link'[c] \in {"none", "open"} => stream'[c] = <<>>
      BY <1>1, <1>7 DEF IndInv, Streams
    <2>4. iSocket' # INVALID_SOCKET => link'[iSocket'] # "none"
      BY <1>1 DEF IndInv, Streams
    <2> QED
      BY <1>1, <1>7, <2>1, <2>2, <2>3, <2>4 DEF Streams
  <1>10. Made' = Made /\ ui' # "connecting"
    BY <1>1, <1>5 DEF Made
  <1>11. Numbered' /\ Alone'
    BY <1>1, <1>10 DEF IndInv, Numbered, Alone
  <1> QED
    BY <1>8, <1>9, <1>11 DEF IndInv

-----------------------------------------------------------------------------
(* The receive thread.                                                     *)

LEMMA ReceiveIndInv ==
  IndInv /\ (Top \/ Select \/ SelectFails \/ RecvCalled \/ Recv \/ Lost \/ Attach \/ Detach)
    => IndInv'
  <1> SUFFICES ASSUME IndInv, Top \/ Select \/ SelectFails \/ RecvCalled \/ Recv \/ Lost
                                \/ Attach \/ Detach
               PROVE  IndInv'
    OBVIOUS
  <1>1. /\ UNCHANGED <<ui, sending, bIsConnect, bIsNeedToSend, camera, taps>>
        /\ UNCHANGED <<link, covered, stream, answered, broadcasts, misused>>
    BY DEF Top, Select, SelectFails, RecvCalled, Recv, Lost, Attach, Detach, Receives, uiVars
  <1>2. iSocket' \in {iSocket, INVALID_SOCKET} /\ fdSet' \in {fdSet, iSocket}
    BY DEF Top, Select, SelectFails, RecvCalled, Recv, Lost, Attach, Detach
  <1>3. /\ rpc # "none"
        /\ rpc' \in {"top", "select", "recv", "reading", "received", "attached", "lost", "ended"}
        /\ jniEnvControl' \in {jniEnvControl, "receive", "dead"}
    BY DEF Top, Select, SelectFails, RecvCalled, Recv, Lost, Attach, Detach
  <1>4. inbox' \in [Conn -> Nat]
    <2>1. inbox \in [Conn -> Nat] /\ fdSet \in Conn \union {INVALID_SOCKET}
      BY DEF IndInv, TypeOK
    <2>2. Recv => inbox' \in [Conn -> Nat]
      BY <2>1 DEF Recv
    <2>3. Top \/ Select \/ SelectFails \/ RecvCalled \/ Lost \/ Attach \/ Detach => inbox' = inbox
      BY DEF Top, Select, SelectFails, RecvCalled, Lost, Attach, Detach
    <2> QED
      BY <2>1, <2>2, <2>3
  <1>5. TypeOK'
    <2>1. sending' # Nothing <=> ui' = "sending"
      BY <1>1 DEF IndInv, TypeOK
    <2> QED
      BY <1>1, <1>2, <1>3, <1>4, <2>1 DEF IndInv, TypeOK
  <1>6. Streams'
    <2>1. iSocket' # INVALID_SOCKET => iSocket' = iSocket
      BY <1>2
    <2> QED
      BY <1>1, <2>1 DEF IndInv, Streams, AtEnd, WholeFrames
  <1>7. Made' = Made
    BY <1>1 DEF Made
  <1>8. Alone'
    <2> SUFFICES ASSUME Made \subseteq {1} PROVE Alone'
      BY <1>7 DEF Alone
    <2>1. /\ ui # "connecting" /\ Made # {}
          /\ \A c \in Conn : link[c] = "up" =>
               iSocket = c /\ rpc # "lost" /\ (rpc = "reading" => fdSet = c)
      BY <1>3 DEF IndInv, Alone
    <2> SUFFICES ASSUME NEW c \in Conn, link[c] = "up"
                 PROVE  iSocket' = c /\ rpc' # "lost" /\ (rpc' = "reading" => fdSet' = c)
      BY <1>1, <1>7, <2>1 DEF Alone
    <2>2. /\ iSocket = c /\ rpc # "lost" /\ (rpc = "reading" => fdSet = c)
          /\ c # INVALID_SOCKET
      BY <2>1 DEF Conn, INVALID_SOCKET
    <2>3. CASE Recv
      <3>1. rpc = "reading" /\ Readable(c)
        BY <2>2, <2>3 DEF Recv
      <3>2. inbox[c] > 0
        BY <2>2, <3>1 DEF Readable
      <3> QED
        BY <2>2, <2>3, <3>2 DEF Recv
    <2>4. CASE Top \/ Select \/ SelectFails \/ RecvCalled \/ Attach \/ Detach
      BY <2>2, <2>4 DEF Top, Select, SelectFails, RecvCalled, Attach, Detach
    <2>5. ~Lost
      BY <2>2 DEF Lost
    <2> QED
      BY <2>3, <2>4, <2>5
  <1>9. Numbered'
    BY <1>7 DEF IndInv, Numbered
  <1> QED
    BY <1>5, <1>6, <1>8, <1>9 DEF IndInv

-----------------------------------------------------------------------------
(* The network and the server.                                             *)

LEMMA BreakIndInv == ASSUME IndInv, NEW c \in Conn, Break(c) PROVE IndInv'
  <1>1. /\ UNCHANGED <<ui, sending, bIsConnect, bIsNeedToSend, camera, taps, covered, stream, rpc>>
        /\ UNCHANGED <<fdSet, iSocket, jniEnvControl, misused, inbox, answered, broadcasts>>
        /\ link[c] = "up" /\ link' = [link EXCEPT ![c] = "broken"]
        /\ link \in [Conn -> {"none", "open", "up", "broken", "closed"}]
    BY DEF Break, NetSteps, uiVars, rcvVars, IndInv, TypeOK
  <1>2. /\ link' \in [Conn -> {"none", "open", "up", "broken", "closed"}]
        /\ link'[c] = "broken" /\ \A d \in Conn : d # c => link'[d] = link[d]
    BY <1>1
  <1>3. Made' = Made
    BY <1>1, <1>2 DEF Made
  <1>4. TypeOK'
    <2>1. sending' # Nothing <=> ui' = "sending"
      BY <1>1 DEF IndInv, TypeOK
    <2> QED
      BY <1>1, <1>2, <2>1 DEF IndInv, TypeOK
  <1>5. Streams'
    <2>1. iSocket \in Conn \union {INVALID_SOCKET}
      BY DEF IndInv, TypeOK
    <2> QED
      BY <1>1, <1>2, <2>1 DEF IndInv, Streams, AtEnd, WholeFrames
  <1>6. Alone'
    BY <1>1, <1>2, <1>3 DEF IndInv, Alone
  <1>7. Numbered'
    BY <1>3 DEF IndInv, Numbered
  <1> QED
    BY <1>4, <1>5, <1>6, <1>7 DEF IndInv

(* A frame from the server changes no stream.                              *)
LEMMA FrameComesIndInv ==
  ASSUME IndInv, Broadcast \/ \E c \in Conn : Answer(c) PROVE IndInv'
  <1>1. /\ UNCHANGED <<ui, sending, bIsConnect, bIsNeedToSend, camera, taps, covered, stream, rpc>>
        /\ UNCHANGED <<fdSet, iSocket, jniEnvControl, misused, link>>
    BY DEF Broadcast, Answer, NetSteps, uiVars, rcvVars
  <1>2. inbox \in [Conn -> Nat] /\ answered \in [Conn -> Nat] /\ broadcasts \in 0 .. MaxBroadcasts
    BY DEF IndInv, TypeOK
  <1>3. inbox' \in [Conn -> Nat] /\ answered' \in [Conn -> Nat] /\ broadcasts' \in 0 .. MaxBroadcasts
    <2>1. CASE Broadcast
      <3>1. /\ UNCHANGED answered /\ broadcasts < MaxBroadcasts /\ broadcasts' = broadcasts + 1
            /\ inbox' = [c \in Conn |-> IF link[c] = "up" THEN inbox[c] + 1 ELSE inbox[c]]
        BY <2>1 DEF Broadcast
      <3> QED
        BY <1>2, <3>1
    <2>2. ASSUME NEW c \in Conn, Answer(c)
          PROVE  inbox' \in [Conn -> Nat] /\ answered' \in [Conn -> Nat] /\ UNCHANGED broadcasts
      <3>1. /\ UNCHANGED broadcasts /\ answered' = [answered EXCEPT ![c] = answered[c] + 1]
            /\ inbox' = [inbox EXCEPT ![c] = inbox[c] + 1]
        BY <2>2 DEF Answer
      <3> QED
        BY <1>2, <3>1
    <2> QED
      BY <1>2, <2>1, <2>2
  <1>4. TypeOK'
    <2>1. sending' # Nothing <=> ui' = "sending"
      BY <1>1 DEF IndInv, TypeOK
    <2> QED
      BY <1>1, <1>3, <2>1 DEF IndInv, TypeOK
  <1>5. Made' = Made
    BY <1>1 DEF Made
  <1>6. Numbered' /\ Streams' /\ Alone'
    BY <1>1, <1>5 DEF IndInv, Numbered, Streams, AtEnd, WholeFrames, Alone
  <1> QED
    BY <1>4, <1>6 DEF IndInv

(* Every step keeps the invariant.                                         *)
LEMMA NextIndInv == IndInv /\ [Next]_vars => IndInv'
  <1> SUFFICES ASSUME IndInv, [Next]_vars PROVE IndInv'
    OBVIOUS
  <1>1. CASE UNCHANGED vars
    <2>1. /\ UNCHANGED <<ui, sending, bIsConnect, bIsNeedToSend, camera, taps, covered, stream, rpc>>
          /\ UNCHANGED <<fdSet, iSocket, jniEnvControl, misused, link, inbox, answered, broadcasts>>
      BY <1>1 DEF vars, uiVars, netVars, rcvVars
    <2>2. Made' = Made
      BY <2>1 DEF Made
    <2>3. TypeOK'
      BY <2>1 DEF IndInv, TypeOK
    <2> QED
      BY <2>1, <2>2, <2>3 DEF IndInv, Numbered, Streams, AtEnd, WholeFrames, Alone
  <1> QED
    BY <1>1, Steps, OnCreateIndInv, ConnectIndInv, ActivityIndInv, OnClickIndInv,
       OnPreviewFrameIndInv, SendBySocketIndInv, ReceiveIndInv, BreakIndInv, FrameComesIndInv

(* The invariant holds in every state.                                     *)
LEMMA Inductive == Spec => []IndInv
  BY InitIndInv, NextIndInv, PTL DEF Spec

(* The variables keep their kinds, whatever the two threads do.            *)
THEOREM TypeCorrect == Spec => []TypeOK
  <1>1. IndInv => TypeOK
    BY DEF IndInv
  <1> QED
    BY <1>1, Inductive, PTL

(* What the server gets on a connection is frames, whole but for the last, *)
(* for every way the sends can cut them and every number of activities.    *)
THEOREM Whole == Spec => []WholeFrames
  <1>1. IndInv => WholeFrames
    BY DEF IndInv, Streams
  <1> QED
    BY <1>1, Inductive, PTL

(* A process with one activity cuts no frame on a connection that stands.  *)
THEOREM NotCut == Spec => []CutOnlyByRestart
  <1>1. IndInv => CutOnlyByRestart
    <2> SUFFICES ASSUME IndInv, NEW c \in Conn, link[c] = "up", ui = "idle", Cardinality(Made) = 1
                 PROVE  stream[c] = <<>> \/ stream[c][Len(stream[c])].part = Size
      BY DEF CutOnlyByRestart
    <2>1. PICK k \in 0 .. MaxConn : Made = 1 .. k
      BY DEF IndInv, Numbered
    <2>2. Cardinality(1 .. k) = k
      <3>1. k \in Int /\ 1 \in Int
        OBVIOUS
      <3> QED
        BY <3>1, FS_Interval
    <2>3. Made \subseteq {1}
      BY <2>1, <2>2
    <2>4. iSocket = c /\ c # INVALID_SOCKET
      BY <2>3 DEF IndInv, Alone, Conn, INVALID_SOCKET
    <2> QED
      BY <2>4 DEF IndInv, Streams, AtEnd
  <1> QED
    BY <1>1, Inductive, PTL

-----------------------------------------------------------------------------
(* The environment of the receive thread.                                  *)

(* A frame reached the phone, or may have.                                 *)
AskedAt(c) ==
  \E i \in DOMAIN stream[c] :
    stream[c][i].part = Size /\ stream[c][i].kind \in {"stop", "pay"}
Came == broadcasts > 0 \/ \E c \in Conn : AskedAt(c)

(* What the receive thread and its environment come from.                  *)
Foreign ==
  misused \/ jniEnvControl # "ui" \/ rpc \in {"received", "attached"}
    \/ (\E c \in Conn : inbox[c] > 0) => Came

(* The parts on a connection are numbered from 1 and finitely many.        *)
LEMMA PartsFinite ==
  ASSUME TypeOK, NEW c \in Conn
  PROVE  DOMAIN stream[c] = 1 .. Len(stream[c]) /\ IsFiniteSet(1 .. Len(stream[c]))
  <1>1. stream[c] \in Seq(Part)
    BY DEF TypeOK
  <1>2. Len(stream[c]) \in Nat /\ DOMAIN stream[c] = 1 .. Len(stream[c])
    BY <1>1
  <1> DEFINE n == Len(stream[c])
  <1>3. n \in Int /\ 1 \in Int
    BY <1>2
  <1> HIDE DEF n
  <1>4. IsFiniteSet(1 .. n)
    BY <1>3, FS_Interval
  <1> QED
    BY <1>2, <1>4 DEF n

(* Frames that ask something are counted above 0 exactly when there is one.*)
LEMMA AskedCount ==
  ASSUME TypeOK, NEW c \in Conn
  PROVE  Asked(c) \in Nat /\ (Asked(c) > 0 <=> AskedAt(c))
  <1> DEFINE S == {i \in DOMAIN stream[c] :
                     stream[c][i].part = Size /\ stream[c][i].kind \in {"stop", "pay"}}
  <1>1. DOMAIN stream[c] = 1 .. Len(stream[c]) /\ IsFiniteSet(1 .. Len(stream[c]))
    BY PartsFinite
  <1>2. S \in SUBSET (1 .. Len(stream[c]))
    BY <1>1
  <1> HIDE DEF S
  <1>3. IsFiniteSet(S)
    BY <1>1, <1>2, FS_Subset
  <1>4. Cardinality(S) \in Nat /\ (Cardinality(S) = 0 <=> S = {})
    BY <1>3, FS_CardinalityType, FS_EmptySet
  <1>5. Asked(c) = Cardinality(S)
    BY DEF Asked, S
  <1>6. AskedAt(c) <=> S # {}
    BY DEF AskedAt, S
  <1> QED
    BY <1>4, <1>5, <1>6

(* What arrived stays.                                                     *)
LEMMA CameStays == IndInv /\ Came /\ [Next]_vars => Came'
  <1> SUFFICES ASSUME IndInv, Came, [Next]_vars PROVE Came'
    OBVIOUS
  <1>1. broadcasts \in Nat /\ broadcasts' \in {broadcasts, broadcasts + 1}
    <2>1. broadcasts \in Nat
      BY DEF IndInv, TypeOK
    <2>2. broadcasts' \in {broadcasts, broadcasts + 1}
      BY DEF Next, OnCreate, Connect, Created, OnPause, Destroyed, OnClick, OnPreviewFrame,
             SendBySocket, Top, Select, SelectFails, RecvCalled, Recv, Lost, Attach, Detach,
             Receives, Break, Answer, Broadcast, netVars, vars
    <2> QED
      BY <2>1, <2>2
  <1>2. CASE SendBySocket
    <2>1. \A c \in Conn : stream[c] \in Seq(Part) /\ stream'[c] \in Seq(Part)
      BY <1>2, SendBySocketIndInv DEF IndInv, TypeOK
    <2>2. ASSUME NEW c \in Conn, NEW i \in DOMAIN stream[c]
          PROVE  i \in DOMAIN stream'[c] /\ stream'[c][i] = stream[c][i]
      <3>1. PICK n \in Accepted :
              stream' = IF n = 0 \/ link[iSocket] # "up" THEN stream
                        ELSE [stream EXCEPT ![iSocket] = stream[iSocket] \o
                               [j \in 1 .. n |-> [kind |-> sending.kind,
                                                  part |-> Size - sending.left + j]]]
        BY <1>2 DEF SendBySocket
      <3> DEFINE u == [j \in 1 .. n |-> [kind |-> sending.kind,
                                         part |-> Size - sending.left + j]]
      <3>2. CASE stream' = stream
        BY <3>2
      <3>3. CASE ~(n = 0 \/ link[iSocket] # "up")
        <4>1. /\ sending \in [kind : Kind, left : 1 .. Size]
              /\ iSocket \in Conn \union {INVALID_SOCKET} /\ stream \in [Conn -> Seq(Part)]
          BY <1>2 DEF SendBySocket, IndInv, TypeOK
        <4>2. iSocket \in Conn /\ n \in 1 .. sending.left
          BY <3>3, <4>1 DEF Accepted
        <4>3. n \in Nat /\ \A j \in 1 .. n : u[j] \in Part
          BY <4>1, <4>2 DEF Part
        <4>4. u \in [1 .. n -> Part]
          BY <4>3
        <4> HIDE DEF u
        <4>5. stream' = [stream EXCEPT ![iSocket] = stream[iSocket] \o u]
          BY <3>1, <3>3 DEF u
        <4>6. \A j \in 1 .. Len(stream[iSocket]) : (stream[iSocket] \o u)[j] = stream[iSocket][j]
          BY <4>1, <4>2, <4>3, <4>4, Joined
        <4>7. Len(stream[iSocket] \o u) = Len(stream[iSocket]) + n
              /\ stream[iSocket] \o u \in Seq(Part)
          BY <4>1, <4>2, <4>3, <4>4, Joined
        <4>8. CASE c = iSocket
          <5>1. stream'[c] = stream[c] \o u /\ stream[c] \in Seq(Part)
            BY <2>1, <4>1, <4>5, <4>8
          <5>2. i \in 1 .. Len(stream[c])
            BY <5>1
          <5> QED
            BY <4>3, <4>6, <4>7, <4>8, <5>1, <5>2
        <4>9. CASE c # iSocket
          BY <4>1, <4>5, <4>9
        <4> QED
          BY <4>8, <4>9
      <3> QED
        BY <3>1, <3>2, <3>3
    <2>3. \A c \in Conn : AskedAt(c) => AskedAt(c)'
      BY <2>2 DEF AskedAt
    <2> QED
      BY <1>1, <2>3 DEF Came
  <1>3. CASE UNCHANGED stream
    BY <1>1, <1>3 DEF Came, AskedAt
  <1>4. SendBySocket \/ UNCHANGED stream
    BY DEF Next, OnCreate, Connect, Created, OnPause, Destroyed, OnClick, OnPreviewFrame, Top, Select,
           SelectFails, RecvCalled, Recv, Lost, Attach, Detach, Receives, Break, Answer, Broadcast,
           NetSteps, netVars, vars
  <1> QED
    BY <1>2, <1>3, <1>4

(* Every step keeps Foreign.                                               *)
LEMMA NextForeign == IndInv /\ Foreign /\ [Next]_vars => Foreign'
  <1> SUFFICES ASSUME IndInv, Foreign, [Next]_vars, ~Came' PROVE Foreign'
    BY DEF Foreign
  <1>1. /\ ~Came /\ ~misused /\ jniEnvControl = "ui" /\ rpc \notin {"received", "attached"}
        /\ \A c \in Conn : ~(inbox[c] > 0)
    BY CameStays DEF Foreign
  <1>2. \A c \in Conn : ~(answered[c] < Asked(c))
    <2> SUFFICES ASSUME NEW c \in Conn, answered[c] < Asked(c) PROVE FALSE
      OBVIOUS
    <2>1. ~AskedAt(c)
      BY <1>1 DEF Came
    <2>2. ~(Asked(c) > 0)
      BY <2>1, AskedCount DEF IndInv
    <2>3. answered[c] \in Nat /\ Asked(c) \in Nat
      BY AskedCount DEF IndInv, TypeOK
    <2> QED
      BY <2>2, <2>3
  <1>3. ~Broadcast
    <2>1. Broadcast => broadcasts' > 0
      BY DEF Broadcast, IndInv, TypeOK
    <2> QED
      BY <2>1 DEF Came
  <1>4. misused' = FALSE
    <2>1. ~UseEnv \/ misused' = FALSE
      BY <1>1 DEF UseEnv
    <2>2. SendBySocket => misused' = FALSE
      BY <1>1, <2>1 DEF SendBySocket, Return
    <2>3. Connect \/ OnPause \/ Destroyed \/ (\E kind \in Command : OnClick(kind)) \/ Top \/ Select
            \/ SelectFails \/ RecvCalled \/ Recv \/ Lost \/ Attach \/ Detach
            \/ (\E c \in Conn : Break(c) \/ Answer(c)) \/ UNCHANGED vars => misused' = misused
      BY DEF Connect, OnPause, Destroyed, OnClick, Top, Select, SelectFails, RecvCalled, Recv, Lost,
             Attach, Detach, Receives, Break, Answer, NetSteps, vars
    <2>4. OnCreate \/ Created \/ OnPreviewFrame => misused' = FALSE
      BY <2>1 DEF OnCreate, Created, OnPreviewFrame
    <2> QED
      BY <1>1, <1>3, <2>2, <2>3, <2>4, Steps
  <1>5. /\ ~Attach /\ ~Detach
        /\ \A c \in Conn : ~Answer(c)
    BY <1>1, <1>2 DEF Attach, Detach, Answer
  <1>6. Recv => rpc' = "lost" /\ UNCHANGED <<inbox, jniEnvControl>>
    BY <1>1 DEF Recv, IndInv, TypeOK
  <1>7. OnCreate \/ Connect \/ Created \/ OnPause \/ Destroyed \/ (\E kind \in Command : OnClick(kind))
          \/ OnPreviewFrame \/ SendBySocket \/ Top \/ Select \/ SelectFails \/ RecvCalled \/ Lost
          \/ (\E c \in Conn : Break(c)) \/ UNCHANGED vars
        => /\ UNCHANGED <<inbox, jniEnvControl>>
           /\ rpc' \in {rpc, "top", "ended", "select", "recv", "reading"}
    BY DEF OnCreate, Connect, Created, OnPause, Destroyed, OnClick, OnPreviewFrame, SendBySocket, Top,
           Select, SelectFails, RecvCalled, Lost, Break, NetSteps, netVars, rcvVars, vars
  <1>8. UNCHANGED <<inbox, jniEnvControl>> /\ rpc' \notin {"received", "attached"}
    BY <1>1, <1>3, <1>5, <1>6, <1>7, Steps
  <1> QED
    BY <1>1, <1>4, <1>8 DEF Foreign

(* The user interface uses the environment of another thread only after a  *)
(* frame came in.                                                          *)
THEOREM ForeignEnv == Spec => []ForeignEnvNeedsFrame
  <1>1. Init => Foreign
    BY DEF Init, Foreign
  <1>2. IndInv /\ Foreign => ForeignEnvNeedsFrame
    <2> SUFFICES ASSUME IndInv, Foreign, misused
                 PROVE  broadcasts > 0 \/ \E c \in Conn : Asked(c) > 0
      BY DEF ForeignEnvNeedsFrame
    <2>1. Came
      BY DEF Foreign
    <2>2. \A c \in Conn : AskedAt(c) => Asked(c) > 0
      BY AskedCount DEF IndInv
    <2> QED
      BY <2>1, <2>2 DEF Came
  <1> QED
    BY <1>1, <1>2, Inductive, NextForeign, PTL DEF Spec

-----------------------------------------------------------------------------
(* Scans and pictures.                                                     *)

(* How often a part is among the first n of a stream.                      *)
Seen(s, n, x) == Cardinality({i \in 1 .. n : s[i] = x})

(* The part a picture begins with, and the one a scan ends with.           *)
First == [kind |-> "picture", part |-> 1]
Last == [kind |-> "scan", part |-> Size]

(* A picture will follow on the connection in use, or begins.              *)
OwesPicture ==
  \/ bIsNeedToSend /\ sending.kind # "scan"
  \/ sending = [kind |-> "picture", left |-> Size]

(* While it is owed, a scan on this connection has no picture yet.         *)
PictureOwed ==
  /\ sending.kind = "picture" \/ ui = "connecting" => ~bIsNeedToSend
  /\ iSocket # INVALID_SOCKET /\ link[iSocket] = "up" /\ OwesPicture =>
       LET s == stream[iSocket] IN Seen(s, Len(s), First) < Seen(s, Len(s), Last)

(* The invariant is about the first parts of every stream.                 *)
Balanced(s) == \A n \in 0 .. Len(s) : Seen(s, n, First) <= Seen(s, n, Last)

(* OnePictureForAScan, one connection at a time.                           *)
LEMMA OneIsBalanced == OnePictureForAScan <=> \A c \in Conn : Balanced(stream[c])
  BY DEF OnePictureForAScan, Balanced, Seen, First, Last

(* A count is a number.                                                    *)
LEMMA SeenNat ==
  ASSUME NEW s, NEW n \in Nat, NEW x
  PROVE  Seen(s, n, x) \in Nat /\ IsFiniteSet({i \in 1 .. n : s[i] = x})
  <1> DEFINE S == {i \in 1 .. n : s[i] = x}
  <1>1. IsFiniteSet(1 .. n)
    <2>1. n \in Int /\ 1 \in Int
      OBVIOUS
    <2> QED
      BY <2>1, FS_Interval
  <1>2. S \in SUBSET (1 .. n)
    OBVIOUS
  <1> HIDE DEF S
  <1>3. IsFiniteSet(S) /\ Cardinality(S) \in Nat
    BY <1>1, <1>2, FS_Subset, FS_CardinalityType
  <1> QED
    BY <1>3 DEF S, Seen

(* What is put behind does not count as long as it is something else, ...  *)
LEMMA SeenSame ==
  ASSUME NEW s, NEW t, NEW m \in Nat, NEW n \in Nat, NEW x, m <= n,
         \A i \in 1 .. m : t[i] = s[i],
         \A i \in (m + 1) .. n : t[i] # x
  PROVE  Seen(t, n, x) = Seen(s, m, x)
  <1>1. \A i \in 1 .. n : i \in 1 .. m \/ i \in (m + 1) .. n
    OBVIOUS
  <1>2. \A i \in 1 .. m : i \in 1 .. n
    OBVIOUS
  <1>3. {i \in 1 .. n : t[i] = x} = {i \in 1 .. m : s[i] = x}
    BY <1>1, <1>2
  <1> QED
    BY <1>3 DEF Seen

(* ... and counts once if it is there once.                                *)
LEMMA SeenOnceMore ==
  ASSUME NEW s, NEW t, NEW m \in Nat, NEW n \in Nat, NEW x, m <= n,
         \A i \in 1 .. m : t[i] = s[i],
         NEW k \in (m + 1) .. n, t[k] = x,
         \A i \in (m + 1) .. n : i # k => t[i] # x
  PROVE  Seen(t, n, x) = Seen(s, m, x) + 1
  <1> DEFINE S == {i \in 1 .. m : s[i] = x}
  <1>1. /\ \A i \in 1 .. n : i \in 1 .. m \/ i \in (m + 1) .. n
        /\ \A i \in 1 .. m : i \in 1 .. n
        /\ k \in 1 .. n /\ k \notin 1 .. m
    OBVIOUS
  <1>2. {i \in 1 .. n : t[i] = x} = S \union {k}
    BY <1>1
  <1>3. IsFiniteSet(S) /\ Seen(s, m, x) = Cardinality(S)
    BY SeenNat DEF Seen
  <1>4. k \notin S
    BY <1>1
  <1> HIDE DEF S
  <1>5. Cardinality(S \union {k}) = Cardinality(S) + 1
    BY <1>3, <1>4, FS_AddElement
  <1> QED
    BY <1>2, <1>3, <1>5 DEF Seen

(* A part of a frame begins a picture, or ends a scan, only where the      *)
(* frame does.                                                             *)
LEMMA EndsOfAFrame ==
  ASSUME NEW kind \in Kind, NEW left \in 1 .. Size, NEW i \in 1 .. left
  PROVE  /\ PartOf(kind, left, i) = First <=> kind = "picture" /\ left = Size /\ i = 1
         /\ PartOf(kind, left, i) = Last <=> kind = "scan" /\ i = left
  <1>1. Size \in Int /\ left \in Int /\ i \in Int /\ 1 <= i /\ i <= left /\ left <= Size
    OBVIOUS
  <1>2. Size - left + i = 1 <=> left = Size /\ i = 1
    BY <1>1
  <1>3. Size - left + i = Size <=> i = left
    BY <1>1
  <1> QED
    BY <1>2, <1>3 DEF PartOf, First, Last

(* A stream after one send.                                                *)
Sent(s, kind, left, n) == s \o [i \in 1 .. n |-> PartOf(kind, left, i)]

(* What a send of a frame does to the counts.                              *)
LEMMA PartsCount ==
  ASSUME NEW s \in Seq(Part), NEW kind \in Kind, NEW left \in 1 .. Size, NEW n \in 1 .. left,
         Balanced(s),
         kind = "picture" /\ left = Size => Seen(s, Len(s), First) < Seen(s, Len(s), Last),
         NEW t, t = Sent(s, kind, left, n)
  PROVE  /\ Balanced(t)
         /\ kind = "scan" /\ n = left => Seen(t, Len(t), First) < Seen(t, Len(t), Last)
         /\ kind \notin {"picture", "scan"} =>
              /\ Seen(t, Len(t), First) = Seen(s, Len(s), First)
              /\ Seen(t, Len(t), Last) = Seen(s, Len(s), Last)
  <1> DEFINE u == [i \in 1 .. n |-> PartOf(kind, left, i)]
  <1>1. n \in Nat /\ left \in Nat /\ 1 <= n /\ n <= left
    OBVIOUS
  <1>2. u \in [1 .. n -> Part] /\ \A i \in 1 .. n : u[i] = PartOf(kind, left, i)
    <2>1. \A i \in 1 .. n : PartOf(kind, left, i) \in Part
      BY PartsFollow
    <2> QED
      BY <2>1
  <1>3. t = s \o u
    BY DEF Sent
  <1> HIDE DEF u
  <1> DEFINE m == Len(s)
  <1>4. /\ m \in Nat /\ Len(t) = m + n
        /\ \A i \in 1 .. m : t[i] = s[i]
        /\ \A i \in 1 .. n : t[m + i] = PartOf(kind, left, i)
    <2>1. /\ Len(s \o u) = Len(s) + n /\ Len(s) \in Nat
          /\ \A i \in 1 .. Len(s) : (s \o u)[i] = s[i]
          /\ \A i \in 1 .. n : (s \o u)[Len(s) + i] = u[i]
      BY <1>1, <1>2, Joined
    <2> QED
      BY <1>2, <1>3, <2>1
  <1>5. Seen(s, m, First) <= Seen(s, m, Last) /\ Seen(s, m, First) \in Nat
        /\ Seen(s, m, Last) \in Nat
    <2>1. m \in 0 .. Len(s)
      BY <1>4
    <2>2. Seen(s, m, First) <= Seen(s, m, Last)
      BY <2>1 DEF Balanced
    <2> HIDE DEF m
    <2> QED
      BY <1>4, <2>2, SeenNat
  <1>6. kind = "picture" /\ left = Size => Seen(s, m, First) < Seen(s, m, Last)
    OBVIOUS
  <1> HIDE DEF m
  <1>7. ASSUME NEW i \in (m + 1) .. (m + n)
        PROVE  /\ i - m \in 1 .. n /\ i - m \in 1 .. left
               /\ t[i] = First <=> kind = "picture" /\ left = Size /\ i = m + 1
               /\ t[i] = Last <=> kind = "scan" /\ i = m + left
    <2>1. i - m \in 1 .. n /\ i - m \in 1 .. left /\ i = m + (i - m) /\ i \in Int
      BY <1>1, <1>4
    <2>2. t[m + (i - m)] = PartOf(kind, left, i - m)
      BY <1>4, <2>1
    <2>3. (i - m = 1 <=> i = m + 1) /\ (i - m = left <=> i = m + left)
      BY <1>1, <1>4, <2>1
    <2>4. /\ PartOf(kind, left, i - m) = First <=> kind = "picture" /\ left = Size /\ i - m = 1
          /\ PartOf(kind, left, i - m) = Last <=> kind = "scan" /\ i - m = left
      BY <2>1, EndsOfAFrame
    <2>5. t[i] = PartOf(kind, left, i - m)
      BY ONLY <2>1, <2>2
    <2> QED
      BY ONLY <2>1, <2>3, <2>4, <2>5
  (* The counts at each point of what was sent.                            *)
  <1>8. ASSUME NEW p \in (m + 1) .. (m + n)
        PROVE  /\ p \in Nat /\ m <= p /\ m + 1 \in (m + 1) .. p /\ p \in (m + 1) .. p
               /\ \A i \in (m + 1) .. p : i \in (m + 1) .. (m + n)
    BY <1>1, <1>4
  <1>9. ASSUME NEW p \in (m + 1) .. (m + n), ~(kind = "picture" /\ left = Size)
        PROVE  Seen(t, p, First) = Seen(s, m, First)
    <2>1. \A i \in (m + 1) .. p : t[i] # First
      BY <1>7, <1>8, <1>9
    <2>2. \A i \in 1 .. m : t[i] = s[i]
      BY <1>4
    <2>3. m \in Nat /\ p \in Nat /\ m <= p
      BY <1>4, <1>8
    <2> QED
      BY ONLY <2>1, <2>2, <2>3, SeenSame
  <1>10. ASSUME NEW p \in (m + 1) .. (m + n), kind = "picture" /\ left = Size
         PROVE  Seen(t, p, First) = Seen(s, m, First) + 1
    <2>1. m + 1 \in (m + 1) .. p /\ t[m + 1] = First
      BY <1>7, <1>8, <1>10
    <2>2. \A i \in (m + 1) .. p : i # m + 1 => t[i] # First
      BY <1>7, <1>8
    <2>3. \A i \in 1 .. m : t[i] = s[i]
      BY <1>4
    <2>4. m \in Nat /\ p \in Nat /\ m <= p
      BY <1>4, <1>8
    <2> QED
      BY ONLY <2>1, <2>2, <2>3, <2>4, SeenOnceMore
  <1>11. ASSUME NEW p \in (m + 1) .. (m + n), ~(kind = "scan" /\ p = m + left)
         PROVE  Seen(t, p, Last) = Seen(s, m, Last)
    <2>1. \A i \in (m + 1) .. p : t[i] # Last
      <3> SUFFICES ASSUME NEW i \in (m + 1) .. p, t[i] = Last PROVE FALSE
        OBVIOUS
      <3>1. kind = "scan" /\ i = m + left
        BY <1>7, <1>8
      <3>2. p = m + left
        BY <1>1, <1>4, <3>1
      <3> QED
        BY <1>11, <3>1, <3>2
    <2>2. \A i \in 1 .. m : t[i] = s[i]
      BY <1>4
    <2>3. m \in Nat /\ p \in Nat /\ m <= p
      BY <1>4, <1>8
    <2> QED
      BY ONLY <2>1, <2>2, <2>3, SeenSame
  <1>12. ASSUME NEW p \in (m + 1) .. (m + n), kind = "scan" /\ p = m + left
         PROVE  Seen(t, p, Last) = Seen(s, m, Last) + 1
    <2>1. p \in (m + 1) .. p /\ t[p] = Last
      BY <1>7, <1>8, <1>12
    <2>2. \A i \in (m + 1) .. p : i # p => t[i] # Last
      BY <1>7, <1>8, <1>12
    <2>3. \A i \in 1 .. m : t[i] = s[i]
      BY <1>4
    <2>4. m \in Nat /\ p \in Nat /\ m <= p
      BY <1>4, <1>8
    <2> QED
      BY ONLY <2>1, <2>2, <2>3, <2>4, SeenOnceMore
  <1>13. m + n \in (m + 1) .. (m + n)
    BY <1>1, <1>4
  <1>14. Balanced(t)
    <2> SUFFICES ASSUME NEW p \in 0 .. (m + n) PROVE Seen(t, p, First) <= Seen(t, p, Last)
      BY <1>4 DEF Balanced
    <2>1. CASE p \in 0 .. m
      <3>1. /\ p \in Nat /\ p <= p /\ \A i \in 1 .. p : i \in 1 .. m
            /\ \A i \in (p + 1) .. p : FALSE
        BY <1>4, <2>1
      <3>2. \A i \in 1 .. p : t[i] = s[i]
        BY <1>4, <3>1
      <3>3. ASSUME NEW x PROVE Seen(t, p, x) = Seen(s, p, x)
        BY ONLY <3>1, <3>2, SeenSame
      <3>4. Seen(s, p, First) <= Seen(s, p, Last)
        BY <2>1 DEF Balanced, m
      <3> QED
        BY <3>3, <3>4
    <2>2. CASE p \in (m + 1) .. (m + n)
      <3>1. Seen(t, p, Last) \in {Seen(s, m, Last), Seen(s, m, Last) + 1}
        BY <1>11, <1>12, <2>2
      <3>2. CASE kind = "picture" /\ left = Size
        BY <1>5, <1>6, <1>10, <2>2, <3>1, <3>2
      <3>3. CASE ~(kind = "picture" /\ left = Size)
        BY <1>5, <1>9, <2>2, <3>1, <3>3
      <3> QED
        BY <3>2, <3>3
    <2> QED
      BY <1>1, <1>4, <2>1, <2>2
  <1>15. ASSUME kind = "scan", n = left PROVE Seen(t, Len(t), First) < Seen(t, Len(t), Last)
    <2>1. Seen(t, m + n, First) = Seen(s, m, First)
      BY <1>9, <1>13, <1>15
    <2>2. Seen(t, m + n, Last) = Seen(s, m, Last) + 1
      BY <1>12, <1>13, <1>15
    <2> QED
      BY <1>4, <1>5, <2>1, <2>2
  <1>16. ASSUME kind \notin {"picture", "scan"}
         PROVE  /\ Seen(t, Len(t), First) = Seen(s, m, First)
                /\ Seen(t, Len(t), Last) = Seen(s, m, Last)
    BY <1>4, <1>9, <1>11, <1>13, <1>16
  <1> QED
    BY <1>14, <1>15, <1>16 DEF m

(* Steps that leave the streams, what is being sent and what is due, and   *)
(* at most give up the connection.                                         *)
LEMMA OthersOwe ==
  ASSUME PictureOwed, OnePictureForAScan,
         UNCHANGED <<stream, sending, bIsNeedToSend>>,
         ui' = "connecting" => ui = "connecting",
         iSocket' # INVALID_SOCKET => iSocket' = iSocket,
         iSocket' # INVALID_SOCKET /\ link'[iSocket'] = "up" => link[iSocket] = "up"
  PROVE  PictureOwed' /\ OnePictureForAScan'
  <1>1. OnePictureForAScan'
    BY DEF OnePictureForAScan
  <1>2. (sending.kind = "picture" \/ ui = "connecting" => ~bIsNeedToSend)'
    BY DEF PictureOwed
  <1>3. OwesPicture' => OwesPicture
    BY DEF OwesPicture
  <1>4. ASSUME iSocket' # INVALID_SOCKET, link'[iSocket'] = "up", OwesPicture'
        PROVE  (Seen(stream[iSocket], Len(stream[iSocket]), First)
                  < Seen(stream[iSocket], Len(stream[iSocket]), Last))'
    <2>1. iSocket' = iSocket /\ iSocket # INVALID_SOCKET /\ link[iSocket] = "up" /\ OwesPicture
      BY <1>3, <1>4
    <2>2. Seen(stream[iSocket], Len(stream[iSocket]), First)
            < Seen(stream[iSocket], Len(stream[iSocket]), Last)
      BY <2>1 DEF PictureOwed
    <2> QED
      BY <2>1, <2>2 DEF Seen, First, Last
  <1> QED
    BY <1>1, <1>2, <1>4 DEF PictureOwed

(* Nothing is owed to a connection that is being made.                     *)
LEMMA NewOwes ==
  IndInv /\ PictureOwed /\ OnePictureForAScan /\ (OnCreate \/ Connect)
    => PictureOwed' /\ OnePictureForAScan'
  <1> SUFFICES ASSUME IndInv, PictureOwed, OnePictureForAScan, OnCreate \/ Connect
               PROVE  PictureOwed' /\ OnePictureForAScan'
    OBVIOUS
  <1>1. UNCHANGED <<stream, sending>> /\ ui \in {"new", "connecting"}
    BY DEF OnCreate, Connect
  <1>2. sending' = Nothing
    BY <1>1 DEF IndInv, TypeOK
  <1>3. bIsNeedToSend' = FALSE
    <2>1. bIsNeedToSend \in BOOLEAN
      BY DEF IndInv, TypeOK
    <2>2. CASE OnCreate
      BY <2>2 DEF OnCreate
    <2>3. CASE Connect
      BY <2>1, <2>3 DEF Connect, PictureOwed
    <2> QED
      BY <2>2, <2>3
  <1>4. ~OwesPicture'
    BY <1>2, <1>3 DEF OwesPicture, Nothing
  <1> QED
    BY <1>1, <1>3, <1>4 DEF PictureOwed, OnePictureForAScan

(* A button is pressed, or a picture comes.                                *)
LEMMA BegunOwes ==
  IndInv /\ PictureOwed /\ OnePictureForAScan
    /\ (OnPreviewFrame \/ \E kind \in Command : OnClick(kind))
    => PictureOwed' /\ OnePictureForAScan'
  <1> SUFFICES ASSUME IndInv, PictureOwed, OnePictureForAScan,
                      OnPreviewFrame \/ \E kind \in Command : OnClick(kind)
               PROVE  PictureOwed' /\ OnePictureForAScan'
    OBVIOUS
  <1>1. ui = "idle" /\ UNCHANGED <<stream, iSocket, link>>
    BY DEF OnPreviewFrame, OnClick, netVars
  <1>2. sending = Nothing /\ bIsNeedToSend \in BOOLEAN
    BY <1>1 DEF IndInv, TypeOK
  <1>3. ui' # "connecting" /\ OnePictureForAScan'
    BY <1>1 DEF OnPreviewFrame, OnClick, SendDataNow, OnePictureForAScan
  <1>4. CASE iSocket = INVALID_SOCKET
    <2>1. sending' = Nothing
      BY <1>2, <1>4 DEF OnPreviewFrame, OnClick, SendDataNow
    <2>2. sending'.kind # "picture"
      BY <2>1 DEF Nothing
    <2> QED
      BY <1>1, <1>3, <1>4, <2>2 DEF PictureOwed
  <1>5. CASE iSocket # INVALID_SOCKET
    <2>1. CASE OnPreviewFrame
      <3>1. bIsNeedToSend /\ bIsNeedToSend' = FALSE
        BY <2>1 DEF OnPreviewFrame
      <3>2. OwesPicture
        BY <1>2, <3>1 DEF OwesPicture, Nothing
      <3> QED
        BY <1>1, <1>3, <3>1, <3>2 DEF PictureOwed, Seen, First, Last
    <2>2. CASE \E kind \in Command : OnClick(kind)
      <3>1. PICK kind \in Command : OnClick(kind)
        BY <2>2
      <3>2. /\ bIsNeedToSend' = (bIsNeedToSend \/ kind = "scan")
            /\ sending' = [kind |-> kind, left |-> Size]
        BY <1>5, <3>1 DEF OnClick, SendDataNow
      <3>3. sending'.kind = kind /\ kind # "picture"
        BY <3>2 DEF Command
      <3>4. OwesPicture' => OwesPicture
        BY <1>2, <3>2, <3>3 DEF OwesPicture, Nothing
      <3> QED
        BY <1>1, <1>3, <3>3, <3>4 DEF PictureOwed, Seen, First, Last
    <2> QED
      BY <2>1, <2>2
  <1> QED
    BY <1>4, <1>5

(* A send that gets nowhere leaves the streams, and the connection down.   *)
LEMMA SentNowhere ==
  ASSUME TypeOK, PictureOwed, OnePictureForAScan, SendBySocket,
         ~(iSocket # INVALID_SOCKET /\ link[iSocket] = "up")
  PROVE  PictureOwed' /\ OnePictureForAScan'
  <1>1. /\ UNCHANGED <<stream, bIsNeedToSend, iSocket, link>>
        /\ ui' # "connecting" /\ sending'.kind \in {sending.kind, "none"}
    <2>1. sending \in [kind : Kind, left : 1 .. Size]
      BY DEF SendBySocket, TypeOK
    <2>2. stream' = stream
      <3>1. iSocket = INVALID_SOCKET => Accepted = {0}
        BY DEF Accepted
      <3> QED
        BY <3>1 DEF SendBySocket
    <2>3. ui' # "connecting"
      BY DEF SendBySocket, Return
    <2>4. sending' = Nothing \/ \E n \in Int : sending' = [sending EXCEPT !.left = n]
      <3>1. PICK n \in Accepted :
              IF n \in {0, sending.left} THEN Return
              ELSE sending' = [sending EXCEPT !.left = sending.left - n]
        BY DEF SendBySocket
      <3>2. Accepted \subseteq Int
        BY <2>1 DEF Accepted
      <3>3. sending.left - n \in Int
        BY <2>1, <3>2
      <3> QED
        BY <3>1, <3>3 DEF Return
    <2>5. sending'.kind \in {sending.kind, "none"}
      BY <2>1, <2>4 DEF Nothing
    <2> QED
      BY <2>2, <2>3, <2>5 DEF SendBySocket
  <1>2. OnePictureForAScan'
    BY <1>1 DEF OnePictureForAScan
  <1>3. sending'.kind = "picture" => ~bIsNeedToSend'
    BY <1>1 DEF PictureOwed
  <1> QED
    BY <1>1, <1>2, <1>3 DEF PictureOwed

(* A send on a connection that stands.                                     *)
LEMMA SentOwes ==
  ASSUME TypeOK, PictureOwed, OnePictureForAScan, SendBySocket,
         iSocket # INVALID_SOCKET, link[iSocket] = "up"
  PROVE  PictureOwed' /\ OnePictureForAScan'
  <1> DEFINE s == stream[iSocket]
             kind == sending.kind
             left == sending.left
  <1>1. PICK n \in Accepted :
          /\ stream' = IF n = 0 \/ link[iSocket] # "up" THEN stream
                       ELSE [stream EXCEPT ![iSocket] = stream[iSocket] \o
                              [i \in 1 .. n |-> [kind |-> sending.kind,
                                                 part |-> Size - sending.left + i]]]
          /\ IF n \in {0, sending.left}
               THEN Return
               ELSE /\ sending' = [sending EXCEPT !.left = sending.left - n]
                    /\ UNCHANGED <<ui, misused>>
    BY DEF SendBySocket
  <1>2. /\ sending = [kind |-> kind, left |-> left] /\ kind \in Kind /\ left \in 1 .. Size
        /\ iSocket \in Conn /\ s \in Seq(Part) /\ stream \in [Conn -> Seq(Part)]
        /\ bIsNeedToSend \in BOOLEAN
    BY DEF SendBySocket, TypeOK
  <1>3. n \in 1 .. left /\ n # 0
    BY <1>2 DEF Accepted
  <1> DEFINE t == Sent(s, kind, left, n)
  <1>4. stream' = [stream EXCEPT ![iSocket] = t]
    BY <1>1, <1>3 DEF PartOf, Sent
  <1>5. UNCHANGED <<bIsNeedToSend, iSocket, link>> /\ ui' \in {"sending", "idle"}
    BY DEF SendBySocket, Return
  <1>6. /\ n = left => sending' = Nothing
        /\ n # left => sending' = [kind |-> kind, left |-> left - n] /\ left - n # Size
    <2>1. CASE n = left
      BY <1>1, <2>1 DEF Return
    <2>2. CASE n # left
      <3>1. sending' = [sending EXCEPT !.left = left - n]
        BY <1>1, <1>3, <2>2
      <3>2. sending' = [kind |-> kind, left |-> left - n]
        BY <1>2, <3>1
      <3>3. left - n # Size
        BY <1>2, <1>3
      <3> QED
        BY <2>2, <3>2, <3>3
    <2> QED
      BY <2>1, <2>2
  <1>7. Balanced(s)
    BY <1>2, OneIsBalanced
  <1>8. kind = "picture" /\ left = Size => Seen(s, Len(s), First) < Seen(s, Len(s), Last)
    BY <1>2 DEF PictureOwed, OwesPicture
  <1>9. bIsNeedToSend /\ kind # "scan" => Seen(s, Len(s), First) < Seen(s, Len(s), Last)
    BY DEF PictureOwed, OwesPicture
  <1>10. kind = "picture" => ~bIsNeedToSend
    BY DEF PictureOwed
  <1> HIDE DEF s, kind, left
  <1>11. t = Sent(s, kind, left, n)
    OBVIOUS
  <1> HIDE DEF t
  <1>12. /\ Balanced(t)
         /\ kind = "scan" /\ n = left => Seen(t, Len(t), First) < Seen(t, Len(t), Last)
         /\ kind \notin {"picture", "scan"} =>
              /\ Seen(t, Len(t), First) = Seen(s, Len(s), First)
              /\ Seen(t, Len(t), Last) = Seen(s, Len(s), Last)
    <2>1. s \in Seq(Part) /\ kind \in Kind /\ left \in 1 .. Size /\ n \in 1 .. left
      BY <1>2, <1>3
    <2> QED
      BY ONLY <2>1, <1>7, <1>8, <1>11, PartsCount
  <1>13. stream'[iSocket] = t /\ \A c \in Conn : c # iSocket => stream'[c] = stream[c]
    BY <1>2, <1>4
  <1>14. OnePictureForAScan'
    <2>1. \A c \in Conn : Balanced(stream[c])
      BY OneIsBalanced
    <2>2. \A c \in Conn : Balanced(stream'[c])
      BY <1>12, <1>13, <2>1
    <2> QED
      BY <2>2 DEF OnePictureForAScan, Balanced, Seen, First, Last
  <1>15. OwesPicture' => Seen(t, Len(t), First) < Seen(t, Len(t), Last)
    <2> SUFFICES ASSUME OwesPicture' PROVE Seen(t, Len(t), First) < Seen(t, Len(t), Last)
      OBVIOUS
    <2>1. sending' # [kind |-> "picture", left |-> Size]
      BY <1>6 DEF Nothing
    <2>2. bIsNeedToSend /\ sending'.kind # "scan"
      BY <1>5, <2>1 DEF OwesPicture
    <2>3. kind # "picture"
      BY <1>10, <2>2
    <2>4. kind = "scan" => n = left
      BY <1>6, <2>2
    <2>5. CASE kind = "scan"
      BY <1>12, <2>4, <2>5
    <2>6. CASE kind # "scan"
      BY <1>9, <1>12, <2>2, <2>3, <2>6
    <2> QED
      BY <2>5, <2>6
  <1>16. sending'.kind = "picture" => ~bIsNeedToSend'
    BY <1>5, <1>6, <1>10 DEF Nothing
  <1>17. LET q == stream'[iSocket'] IN
           OwesPicture' => Seen(q, Len(q), First) < Seen(q, Len(q), Last)
    BY <1>5, <1>13, <1>15
  <1> QED
    BY <1>5, <1>14, <1>16, <1>17 DEF PictureOwed, Seen, First, Last

(* A picture is begun only while one is owed, and none is owed after it.   *)
LEMMA NextOwes ==
  IndInv /\ PictureOwed /\ OnePictureForAScan /\ [Next]_vars
    => PictureOwed' /\ OnePictureForAScan'
  <1> SUFFICES ASSUME IndInv, PictureOwed, OnePictureForAScan, [Next]_vars
               PROVE  PictureOwed' /\ OnePictureForAScan'
    OBVIOUS
  <1>1. CASE \/ Created \/ OnPause \/ Destroyed
             \/ Top \/ Select \/ SelectFails \/ RecvCalled \/ Recv \/ Lost \/ Attach \/ Detach
             \/ \E c \in Conn : Break(c) \/ Answer(c)
             \/ Broadcast
             \/ UNCHANGED vars
    <2>1. /\ UNCHANGED <<stream, sending, bIsNeedToSend>>
          /\ ui' = "connecting" => ui = "connecting"
      BY <1>1 DEF Created, OnPause, Destroyed, Top, Select, SelectFails, RecvCalled, Recv, Lost,
         Attach, Detach, Receives, Break, Answer, Broadcast, NetSteps, uiVars, netVars, vars
    <2>2. iSocket' # INVALID_SOCKET => iSocket' = iSocket
      BY <1>1 DEF Created, OnPause, Destroyed, Top, Select, SelectFails, RecvCalled, Recv, Lost,
         Attach, Detach, Break, Answer, Broadcast, NetSteps, vars
    <2>3. \A c \in Conn : link'[c] = "up" => link[c] = "up"
      <3>1. CASE \E c \in Conn : Break(c)
        BY <3>1 DEF Break, IndInv, TypeOK
      <3>2. CASE UNCHANGED link
        BY <3>2
      <3>3. (\E c \in Conn : Break(c)) \/ UNCHANGED link
        BY <1>1 DEF Created, OnPause, Destroyed, Top, Select, SelectFails, RecvCalled, Recv, Lost,
           Attach, Detach, Receives, Answer, Broadcast, netVars, vars
      <3> QED
        BY <3>1, <3>2, <3>3
    <2>4. iSocket \in Conn \union {INVALID_SOCKET}
      BY DEF IndInv, TypeOK
    <2>5. iSocket' # INVALID_SOCKET /\ link'[iSocket'] = "up" => link[iSocket] = "up"
      BY <2>2, <2>3, <2>4
    <2> QED
      BY <2>1, <2>2, <2>5, OthersOwe
  <1>2. CASE SendBySocket
    BY <1>2, SentNowhere, SentOwes DEF IndInv
  <1> QED
    BY <1>1, <1>2, Steps, NewOwes, BegunOwes

(* Before the first activity nothing was sent.                             *)
LEMMA InitOwes == Init => PictureOwed /\ OnePictureForAScan
  <1> SUFFICES ASSUME Init PROVE PictureOwed /\ OnePictureForAScan
    OBVIOUS
  <1>1. PictureOwed
    BY DEF Init, PictureOwed, Nothing
  <1>2. ASSUME NEW c \in Conn PROVE Balanced(stream[c])
    <2>1. stream[c] = <<>> /\ Len(stream[c]) = 0
      BY DEF Init
    <2>2. \A x : {i \in 1 .. 0 : stream[c][i] = x} = {}
      OBVIOUS
    <2>3. \A x : Seen(stream[c], 0, x) = 0
      BY <2>2, FS_EmptySet DEF Seen
    <2>4. \A n \in 0 .. Len(stream[c]) : n = 0
      BY <2>1
    <2> QED
      BY <2>3, <2>4 DEF Balanced
  <1> QED
    BY <1>1, <1>2, OneIsBalanced

(* The server gets no picture of a connection but after a scan of its own, *)
(* whatever the sends take of each and whatever is lost.                   *)
THEOREM OnePicture == Spec => []OnePictureForAScan
  BY InitOwes, NextOwes, Inductive, PTL DEF Spec
=============================================================================
