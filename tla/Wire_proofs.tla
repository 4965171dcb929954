----------------------------- MODULE Wire_proofs ------------------------------
(***************************************************************************)
(* What TLAPS proves of what goes over a connection: of FrameParser, for   *)
(* every stream of frames, header, buffer and way of cutting the stream;   *)
(* of JsonText, for every text and every document; and of JsonDocument,    *)
(* for all keys, texts and numbers and whatever is done to a document.     *)
(***************************************************************************)
EXTENDS FrameParser, JsonDocument, WellFoundedInduction, SequenceTheorems, TLAPS

(* Every nonempty set of numbers has a least element.                      *)
LEMMA NatMin == ASSUME NEW S \in SUBSET Nat, S # {} PROVE \E x \in S : \A y \in S : x <= y
  <1>1. IsWellFoundedOn(OpToRel(<, Nat), Nat)
    BY NatLessThanWellFounded, Zenon
  <1>2. PICK x \in S : \A y \in S : ~(<<y, x>> \in OpToRel(<, Nat))
    BY <1>1, WFMin, Zenon
  <1>3. \A y \in S : ~(y < x)
    BY <1>2, Zenon DEF OpToRel
  <1>. QED  BY <1>3

(* Each frame starts behind the ones before it: a least one that does not  *)
(* would come right behind one that does.                                  *)
LEMMA Increasing ==
  ASSUME NEW f \in 0 .. Frames, NEW g \in 0 .. Frames, f < g
  PROVE  Start[f] < Start[g]
  <1> DEFINE Early == {n \in Nat : f < n /\ n <= Frames /\ ~(Start[f] < Start[n])}
  <1>. SUFFICES ASSUME ~(Start[f] < Start[g]) PROVE FALSE
    OBVIOUS
  <1>1. g \in Early
    BY StreamAssumption
  <1>2. PICK n \in Early : \A m \in Early : n <= m
    BY <1>1, NatMin
  <1>3. /\ f \in Nat /\ n \in Nat /\ Frames \in Nat
        /\ f < n /\ n <= Frames /\ ~(Start[f] < Start[n])
    BY <1>2, StreamAssumption
  <1>4. n - 1 \in Nat /\ n - 1 \in 0 .. Frames - 1 /\ n - 1 \in 0 .. Frames /\ (n - 1) + 1 = n
        /\ f <= n - 1
    BY <1>3
  <1>5. n - 1 \notin Early
    BY <1>2, <1>4
  <1>6. f = n - 1 \/ Start[f] < Start[n - 1]
    BY <1>3, <1>4, <1>5
  <1>7. Start[n - 1] < Start[n]
    <2>1. Start[n] - Start[n - 1] - SOCKET_DATA_CONNECT_FLAG \in 0 .. MaxLength
      BY <1>4, StreamAssumption
    <2>2. Start[n - 1] \in Nat /\ Start[n] \in Nat
      BY <1>3, <1>4, StreamAssumption
    <2>. QED  BY <2>1, <2>2, SizeAssumption
  <1>8. Start[f] \in Nat /\ Start[n - 1] \in Nat /\ Start[n] \in Nat
    BY <1>3, <1>4, StreamAssumption
  <1>. QED  BY <1>3, <1>6, <1>7, <1>8

(* The frame boundaries, one by one.                                       *)
LEMMA Boundaries ==
  /\ \A f \in 0 .. Frames : Start[f] \in Nat /\ Start[f] <= Start[Frames]
  /\ \A f \in 0 .. Frames - 1 :
       /\ f \in 0 .. Frames /\ f + 1 \in 0 .. Frames
       /\ Payload(f) \in 0 .. MaxLength
       /\ Start[f + 1] = Start[f] + SOCKET_DATA_CONNECT_FLAG + Payload(f)
  /\ SOCKET_DATA_CONNECT_FLAG \in Nat \ {0}
  <1>1. ASSUME NEW f \in 0 .. Frames
        PROVE  Start[f] \in Nat /\ Start[f] <= Start[Frames]
    <2>1. Start[f] \in Nat /\ Start[Frames] \in Nat
      BY StreamAssumption
    <2>2. CASE f = Frames
      BY <2>1, <2>2
    <2>3. CASE f < Frames
      <3>1. Start[f] < Start[Frames]
        BY <2>3, Increasing, StreamAssumption
      <3>. QED  BY <2>1, <3>1
    <2>. QED  BY <2>2, <2>3, StreamAssumption
  <1>2. ASSUME NEW f \in 0 .. Frames - 1
        PROVE  /\ f \in 0 .. Frames /\ f + 1 \in 0 .. Frames
               /\ Payload(f) \in 0 .. MaxLength
               /\ Start[f + 1] = Start[f] + SOCKET_DATA_CONNECT_FLAG + Payload(f)
    <2>1. f \in 0 .. Frames /\ f + 1 \in 0 .. Frames
      BY StreamAssumption
    <2>2. Start[f] \in Nat /\ Start[f + 1] \in Nat /\ SOCKET_DATA_CONNECT_FLAG \in Nat
      BY <2>1, SizeAssumption, StreamAssumption
    <2>3. Payload(f) \in 0 .. MaxLength
      BY StreamAssumption DEF Payload
    <2>. QED  BY <2>1, <2>2, <2>3 DEF Payload
  <1>3. SOCKET_DATA_CONNECT_FLAG \in Nat \ {0}
    BY SizeAssumption
  <1>. QED  BY <1>1, <1>2, <1>3

(* A position at which a frame starts and from which the buffer holds at   *)
(* least a length field reads as that frame's length.                      *)
LEMMA LengthRead ==
  ASSUME NEW k \in 0 .. Frames - 1,
         base + pFrameData = Start[k],
         nReceivedDataLen >= LENGTH_FIELD
  PROVE  LengthAt = {Payload(k)}
  <1>1. Payload(k) \in 0 .. MaxLength
    BY Boundaries
  <1>2. ASSUME NEW f \in 0 .. Frames - 1, Start[f] = Start[k] PROVE f = k
    <2>1. f \in 0 .. Frames /\ k \in 0 .. Frames /\ f \in Int /\ k \in Int
      BY StreamAssumption
    <2>2. Start[f] \in Nat /\ ~(Start[f] < Start[k]) /\ ~(Start[k] < Start[f])
      BY <1>2, <2>1, StreamAssumption
    <2>3. ~(f < k) /\ ~(k < f)
      BY <2>1, <2>2, Increasing
    <2>. QED  BY <2>1, <2>3
  <1>. QED  BY <1>1, <1>2 DEF LengthAt

(* The parser starts in the invariant.                                     *)
LEMMA InitInd == Init => IndInv
  <1>. SUFFICES ASSUME Init PROVE IndInv
    OBVIOUS
  <1>1. TypeOK
    <2>1. 0 \in 0 .. Start[Frames]
      BY Boundaries, StreamAssumption
    <2>2. <<>> \in Seq([from : Nat, len : Nat])
      OBVIOUS
    <2>. QED  BY <2>1, <2>2 DEF Init, TypeOK
  <1>2. FramesInOrder
    BY StreamAssumption DEF Init, FramesInOrder
  <1>3. OnlyBareHeaderWaits
    <2>1. Frames > 0 => Start[1] > 0
      BY StreamAssumption, SizeAssumption
    <2>. QED  BY <2>1, StreamAssumption DEF Init, OnlyBareHeaderWaits
  <1>4. InBuffer /\ Place
    BY StreamAssumption DEF Init, InBuffer, Place
  <1>. QED  BY <1>1, <1>2, <1>3, <1>4 DEF IndInv

(* The number of the frame that comes next, and what the invariant says of *)
(* the lengths as numbers.                                                 *)
LEMMA Numbers ==
  ASSUME IndInv
  PROVE  /\ Len(delivered) \in 0 .. Frames
         /\ delivered \in Seq([from : Nat, len : Nat])
         /\ arrived \in Nat /\ arrived <= Start[Frames]
         /\ base \in Nat /\ pFrameData \in Nat /\ nReceivedDataLen \in Nat
         /\ ulReceivedDataLen \in Nat /\ ulReceivedBufferLength \in Nat
         /\ Frames \in Nat /\ Start[Frames] \in Nat
         /\ Start[Len(delivered)] \in Nat
         /\ rpc = "loop" => /\ base + pFrameData = Start[Len(delivered)]
                            /\ base + pFrameData + nReceivedDataLen = arrived
  <1>1. Frames \in Nat /\ Start[Frames] \in Nat
    BY StreamAssumption
  <1>2. delivered \in Seq([from : Nat, len : Nat]) /\ Len(delivered) \in Nat
    BY DEF IndInv, TypeOK
  <1>3. Len(delivered) \in 0 .. Frames
    <2>1. Len(delivered) <= Frames
      BY DEF IndInv, FramesInOrder
    <2>. QED  BY <1>1, <1>2, <2>1
  <1>4. Start[Len(delivered)] \in Nat
    BY <1>3, StreamAssumption
  <1>. QED  BY <1>1, <1>2, <1>3, <1>4 DEF IndInv, TypeOK, InBuffer, Place

(* The frame boundary behind frame k, for k the next frame.                *)
LEMMA Behind ==
  ASSUME NEW k \in 0 .. Frames - 1
  PROVE  /\ k \in Nat /\ k < Frames
         /\ Payload(k) \in 0 .. MaxLength /\ Payload(k) \in Nat
         /\ Start[k] \in Nat /\ Start[k + 1] \in Nat
         /\ Start[k + 1] <= Start[Frames]
         /\ SOCKET_DATA_CONNECT_FLAG \in Nat \ {0}
         /\ Start[k + 1] = Start[k] + SOCKET_DATA_CONNECT_FLAG + Payload(k)
  <1>1. k \in 0 .. Frames /\ k + 1 \in 0 .. Frames
    BY Boundaries
  <1>2. Start[k] \in Nat /\ Start[k + 1] \in Nat /\ Start[k + 1] <= Start[Frames]
    BY <1>1, Boundaries
  <1>3. /\ Payload(k) \in 0 .. MaxLength
        /\ Start[k + 1] = Start[k] + SOCKET_DATA_CONNECT_FLAG + Payload(k)
    BY Boundaries
  <1>4. Frames \in Nat /\ MaxLength \in Nat
    BY SizeAssumption, StreamAssumption
  <1>. QED  BY <1>1, <1>2, <1>3, <1>4, Boundaries

(* Bytes that arrive keep the invariant.                                   *)
LEMMA ReceiveKeeps ==
  ASSUME IndInv, NEW n \in 1 .. BASE_STRING_LEN_MAX, Receive(n)
  PROVE  IndInv'
  <1>1. TypeOK'
    BY Boundaries, SizeAssumption DEF IndInv, TypeOK, Receive, Enlarged, Allocated
  <1>2. FramesInOrder'
    <2>1. /\ delivered' = delivered
          /\ arrived \in Nat /\ arrived' \in Nat /\ arrived <= arrived'
      BY Numbers, SizeAssumption DEF Receive
    <2>2. \A i \in 1 .. Len(delivered) : Start[i] <= arrived'
      <3>. SUFFICES ASSUME NEW i \in 1 .. Len(delivered) PROVE Start[i] <= arrived'
        OBVIOUS
      <3>1. i \in 0 .. Frames
        BY Numbers
      <3>2. Start[i] \in Nat
        BY <3>1, Boundaries
      <3>3. Start[i] <= arrived
        BY DEF IndInv, FramesInOrder
      <3>. QED  BY <2>1, <3>2, <3>3
    <2>. QED  BY <2>1, <2>2 DEF IndInv, FramesInOrder, Payload
  <1>3. OnlyBareHeaderWaits'
    BY DEF Receive, OnlyBareHeaderWaits
  <1>4. InBuffer'
    BY SizeAssumption DEF IndInv, TypeOK, InBuffer, Receive, Enlarged, Allocated
  <1>5. Place'
    BY DEF IndInv, TypeOK, Place, Receive
  <1>. QED  BY <1>1, <1>2, <1>3, <1>4, <1>5 DEF IndInv

(* The frame that is delivered is the next one of the stream, and all of   *)
(* it has arrived.                                                         *)
LEMMA DeliverNext ==
  ASSUME IndInv, Deliver
  PROVE  /\ Len(delivered) \in 0 .. Frames - 1
         /\ Start[Len(delivered) + 1] <= arrived
         /\ delivered' = Append(delivered,
              [from |-> Start[Len(delivered)] + SOCKET_DATA_CONNECT_FLAG,
               len  |-> Payload(Len(delivered))])
         /\ pFrameData' = pFrameData + SOCKET_DATA_CONNECT_FLAG + Payload(Len(delivered))
         /\ nReceivedDataLen' = nReceivedDataLen - SOCKET_DATA_CONNECT_FLAG
                                  - Payload(Len(delivered))
         /\ SOCKET_DATA_CONNECT_FLAG + Payload(Len(delivered)) <= nReceivedDataLen
  <1> DEFINE k == Len(delivered)
  <1>1. /\ base + pFrameData = Start[k]
        /\ base + pFrameData + nReceivedDataLen = arrived
    BY Numbers DEF Deliver
  <1>2. PICK len \in LengthAt :
          /\ len + SOCKET_DATA_CONNECT_FLAG <= nReceivedDataLen
          /\ delivered' =
               Append(delivered, [from |-> base + pFrameData + SOCKET_DATA_CONNECT_FLAG,
                                  len  |-> len])
          /\ pFrameData' = pFrameData + SOCKET_DATA_CONNECT_FLAG + len
          /\ nReceivedDataLen' = nReceivedDataLen - SOCKET_DATA_CONNECT_FLAG - len
    BY DEF Deliver
  <1>3. len \in Nat
    BY SizeAssumption DEF LengthAt
  <1>4. nReceivedDataLen >= LENGTH_FIELD /\ nReceivedDataLen > 0
    <2>1. nReceivedDataLen \in Int
      BY Numbers
    <2>2. /\ SOCKET_DATA_CONNECT_FLAG \in Nat /\ LENGTH_FIELD \in Nat
          /\ 1 <= LENGTH_FIELD /\ LENGTH_FIELD <= SOCKET_DATA_CONNECT_FLAG
      BY SizeAssumption
    <2>3. len + SOCKET_DATA_CONNECT_FLAG <= nReceivedDataLen
      BY <1>2
    <2> QED BY ONLY <2>1, <2>2, <2>3, <1>3
  <1>5. k \in 0 .. Frames - 1
    <2>1. Start[k] < Start[Frames]
      BY <1>1, <1>4, Numbers
    <2>2. k # Frames
      BY <2>1, Numbers
    <2>. QED  BY <2>2, Numbers
  <1>6. len = Payload(k)
    BY <1>1, <1>2, <1>4, <1>5, LengthRead
  <1>7. /\ Start[k] \in Nat /\ Payload(k) \in Nat
        /\ SOCKET_DATA_CONNECT_FLAG \in Nat
        /\ Start[k + 1] = Start[k] + SOCKET_DATA_CONNECT_FLAG + Payload(k)
    BY <1>5, Behind
  <1>8. arrived \in Nat /\ nReceivedDataLen \in Nat
    BY Numbers
  <1>9. SOCKET_DATA_CONNECT_FLAG + Payload(k) <= nReceivedDataLen
    BY <1>2, <1>6, <1>7, <1>8
  <1>10. Start[k + 1] <= arrived
    <2>. HIDE DEF k
    <2>. QED  BY <1>1, <1>7, <1>8, <1>9
  <1>. QED  BY <1>1, <1>2, <1>5, <1>6, <1>9, <1>10

(* A frame that is delivered keeps the invariant.                          *)
LEMMA DeliverKeeps ==
  ASSUME IndInv, Deliver
  PROVE  IndInv'
  <1> DEFINE k == Len(delivered)
             call == [from |-> Start[k] + SOCKET_DATA_CONNECT_FLAG, len |-> Payload(k)]
  <1>1. /\ k \in 0 .. Frames - 1
        /\ delivered' = Append(delivered, call)
        /\ Start[k + 1] = Start[k] + SOCKET_DATA_CONNECT_FLAG + Payload(k)
    BY DeliverNext, Behind
  <1>2. call \in [from : Nat, len : Nat]
    BY <1>1, Behind
  <1>3. UNCHANGED <<rpc, arrived, ulReceivedBufferLength, ulReceivedDataLen, base>>
    BY DEF Deliver
  <1>4. /\ pFrameData' = pFrameData + SOCKET_DATA_CONNECT_FLAG + Payload(k)
        /\ nReceivedDataLen' = nReceivedDataLen - SOCKET_DATA_CONNECT_FLAG - Payload(k)
        /\ SOCKET_DATA_CONNECT_FLAG + Payload(k) <= nReceivedDataLen
        /\ Start[k + 1] <= arrived
    BY DeliverNext
  <1>5. /\ Len(delivered') = k + 1 /\ delivered'[k + 1] = call
        /\ \A i \in 1 .. k : delivered'[i] = delivered[i]
        /\ delivered' \in Seq([from : Nat, len : Nat])
    <2>. HIDE DEF call
    <2>. QED  BY <1>1, <1>2, Numbers
  <1>0. /\ Payload(k) \in Nat /\ Start[k] \in Nat
        /\ SOCKET_DATA_CONNECT_FLAG \in Nat
        /\ pFrameData \in Nat /\ nReceivedDataLen \in Nat /\ base \in Nat
        /\ ulReceivedDataLen \in Nat /\ rpc = "loop"
        /\ base + pFrameData = Start[k]
    BY <1>1, Behind, Numbers DEF Deliver
  <1>6. pFrameData' \in Nat /\ nReceivedDataLen' \in Nat
    <2>. HIDE DEF k
    <2>. QED  BY <1>0, <1>4
  <1>7. TypeOK'
    BY <1>3, <1>5, <1>6 DEF IndInv, TypeOK
  <1>8. FramesInOrder'
    <2>1. ASSUME NEW i \in 1 .. k + 1
          PROVE  /\ delivered'[i] = [from |-> Start[i - 1] + SOCKET_DATA_CONNECT_FLAG,
                                     len  |-> Payload(i - 1)]
                 /\ Start[i] <= arrived
      <3>1. CASE i = k + 1
        <4>1. i - 1 = k
          BY <3>1, <1>1, Behind
        <4>. QED  BY <4>1, <3>1, <1>4, <1>5
      <3>2. CASE i \in 1 .. k
        BY <3>2, <1>5 DEF IndInv, FramesInOrder
      <3>. QED  BY <3>1, <3>2, <1>1, Behind
    <2>2. k + 1 <= Frames
      BY <1>1, Numbers
    <2>. QED  BY <1>3, <1>5, <2>1, <2>2 DEF FramesInOrder, Payload
  <1>9. OnlyBareHeaderWaits'
    BY <1>3 DEF Deliver, OnlyBareHeaderWaits
  <1>10. InBuffer'
    <2>1. /\ ulReceivedDataLen <= ulReceivedBufferLength
          /\ pFrameData + nReceivedDataLen = ulReceivedDataLen
      BY <1>0 DEF IndInv, InBuffer
    <2>2. pFrameData' + nReceivedDataLen' = pFrameData + nReceivedDataLen
      <3>. HIDE DEF k
      <3>. QED  BY <1>0, <1>4
    <2>. QED  BY <1>3, <2>1, <2>2 DEF InBuffer
  <1>11. Place'
    <2>1. base + ulReceivedDataLen = arrived
      BY DEF IndInv, Place
    <2>2. base + pFrameData' = Start[k + 1]
      <3>. HIDE DEF k
      <3>. QED  BY <1>0, <1>1, <1>4
    <2>. QED  BY <1>0, <1>3, <1>5, <2>1, <2>2 DEF Place
  <1>. QED  BY <1>7, <1>8, <1>9, <1>10, <1>11 DEF IndInv

(* So does the rest that waits for more bytes.                             *)
LEMMA KeepRestKeeps ==
  ASSUME IndInv, KeepRest
  PROVE  IndInv'
  <1> DEFINE k == Len(delivered)
  <1>1. TypeOK'
    BY DEF IndInv, TypeOK, KeepRest
  <1>2. FramesInOrder'
    BY DEF IndInv, FramesInOrder, KeepRest, Payload
  <1>3. OnlyBareHeaderWaits'
    <2>. SUFFICES ASSUME k < Frames, Start[k + 1] <= arrived
                  PROVE  Payload(k) = 0 /\ arrived = Start[k + 1]
      BY DEF KeepRest, OnlyBareHeaderWaits, Payload
    <2>1. k \in 0 .. Frames - 1
      BY Numbers
    <2>2. /\ base + pFrameData = Start[k]
          /\ base + pFrameData + nReceivedDataLen = arrived
          /\ pFrameData + nReceivedDataLen = ulReceivedDataLen
      BY Numbers DEF IndInv, InBuffer, KeepRest
    <2>0. /\ Payload(k) \in Nat /\ Start[k] \in Nat
          /\ SOCKET_DATA_CONNECT_FLAG \in Nat
          /\ Start[k + 1] = Start[k] + SOCKET_DATA_CONNECT_FLAG + Payload(k)
          /\ pFrameData \in Nat /\ nReceivedDataLen \in Nat /\ base \in Nat
          /\ ulReceivedDataLen \in Nat
      BY <2>1, Behind, Numbers
    <2>3. SOCKET_DATA_CONNECT_FLAG + Payload(k) <= nReceivedDataLen
      <3>. HIDE DEF k
      <3>. QED  BY <2>0, <2>2
    <2>4. nReceivedDataLen >= LENGTH_FIELD
      BY <2>1, <2>3, Behind, Numbers, SizeAssumption
    <2>5. LengthAt = {Payload(k)}
      BY <2>1, <2>2, <2>4, LengthRead
    <2>6. ulReceivedDataLen <= SOCKET_DATA_CONNECT_FLAG
      <3>. HIDE DEF k
      <3>. QED  BY <2>0, <2>3, <2>5 DEF KeepRest, LoopEnds
    <2>. HIDE DEF k
    <2>. QED  BY <2>0, <2>2, <2>3, <2>6
  <1>4. InBuffer'
    BY DEF IndInv, TypeOK, InBuffer, KeepRest
  <1>5. Place'
    BY DEF IndInv, TypeOK, InBuffer, Place, KeepRest
  <1>. QED  BY <1>1, <1>2, <1>3, <1>4, <1>5 DEF IndInv

(* The invariant is inductive.                                             *)
LEMMA NextInd == IndInv /\ [Next]_vars => IndInv'
  <1>. SUFFICES ASSUME IndInv, [Next]_vars PROVE IndInv'
    OBVIOUS
  <1>1. CASE \E n \in 1 .. BASE_STRING_LEN_MAX : Receive(n)
    BY <1>1, ReceiveKeeps
  <1>2. CASE Deliver
    BY <1>2, DeliverKeeps
  <1>3. CASE KeepRest
    BY <1>3, KeepRestKeeps
  <1>4. CASE UNCHANGED vars
    BY <1>4 DEF vars, IndInv, TypeOK, FramesInOrder, OnlyBareHeaderWaits, InBuffer,
                Place, Payload
  <1>. QED  BY <1>1, <1>2, <1>3, <1>4 DEF Next

(* IndInv is an invariant.                                                 *)
THEOREM Inductive == Spec => []IndInv
  BY InitInd, NextInd, PTL DEF Spec

(* The variables of OnReceivedData keep their kinds, for every stream and  *)
(* every way of cutting it.                                                *)
THEOREM TypeCorrect == Spec => []TypeOK
  <1>1. IndInv => TypeOK
    BY DEF IndInv
  <1>. QED  BY <1>1, Inductive, PTL

(* The frames come out of OnReceivedData whole, once each and in order,    *)
(* for every stream and every way of cutting it.                           *)
THEOREM Framing == Spec => []FramesInOrder
  <1>1. IndInv => FramesInOrder
    BY DEF IndInv
  <1>. QED  BY <1>1, Inductive, PTL

(* The receive thread never waits with a complete frame in its buffer,     *)
(* except a single one without payload.                                    *)
THEOREM Promptness == Spec => []OnlyBareHeaderWaits
  <1>1. IndInv => OnlyBareHeaderWaits
    BY DEF IndInv
  <1>. QED  BY <1>1, Inductive, PTL

(* No copy of OnReceivedData leaves its buffer.                            *)
THEOREM Bounded == Spec => []InBuffer
  <1>1. IndInv => InBuffer
    BY DEF IndInv
  <1>. QED  BY <1>1, Inductive, PTL

-----------------------------------------------------------------------------
(* Documents: computing from the left, as encode, trim and c_str do.       *)

(* Induction up to n, over a set.                                          *)
LEMMA UpTo ==
  ASSUME NEW n \in Nat, NEW S, 0 \in S,
         \A i \in Nat : i < n /\ i \in S => i + 1 \in S
  PROVE  0 .. n \subseteq S
  <1> DEFINE Out == {i \in Nat : i <= n /\ i \notin S}
  <1>. SUFFICES ASSUME Out # {} PROVE FALSE
    OBVIOUS
  <1>1. PICK x \in Out : \A y \in Out : x <= y
    BY NatMin
  <1>2. x # 0 /\ x \in Nat /\ x <= n /\ x \notin S
    BY <1>1
  <1>3. x - 1 \in Nat /\ x - 1 < n /\ x - 1 \notin Out
    BY <1>1, <1>2
  <1>4. x - 1 \in S
    BY <1>2, <1>3
  <1>. QED  BY <1>2, <1>3, <1>4

(* u holds what is computed from e by the n functions g.                   *)
IsLeftFold(S, e, n, g, u) ==
  u \in [0 .. n -> S] /\ u[0] = e /\ \A i \in 1 .. n : u[i] = g[i][u[i - 1]]

(* What is computed from the left exists.                                  *)
LEMMA FromTheLeft ==
  ASSUME NEW S, NEW e \in S, NEW n \in Nat, NEW g \in [1 .. n -> [S -> S]]
  PROVE  \E u : IsLeftFold(S, e, n, g, u)
  <1> DEFINE Is(m, u) == u[0] = e /\ \A i \in 1 .. m : u[i] = g[i][u[i - 1]]
             P == {m \in Nat : m <= n => \E u \in [0 .. m -> S] : Is(m, u)}
  <1>1. 0 \in P
    <2>1. [i \in 0 .. 0 |-> e] \in [0 .. 0 -> S] /\ Is(0, [i \in 0 .. 0 |-> e])
      OBVIOUS
    <2>. QED  BY <2>1
  <1>2. ASSUME NEW m \in Nat, m < n, m \in P PROVE m + 1 \in P
    <2>1. PICK u \in [0 .. m -> S] : Is(m, u)
      BY <1>2
    <2>2. m + 1 \in 1 .. n /\ u[m] \in S /\ m \in 0 .. m
      BY <1>2, <2>1
    <2>3. g[m + 1][u[m]] \in S
      BY <2>2
    <2> DEFINE w == [i \in 0 .. m + 1 |-> IF i = m + 1 THEN g[m + 1][u[m]] ELSE u[i]]
    <2>4. w \in [0 .. m + 1 -> S]
      BY <2>1, <2>3
    <2>5. /\ w[m + 1] = g[m + 1][u[m]]
          /\ \A i \in 0 .. m : w[i] = u[i]
      BY <1>2
    <2> HIDE DEF w
    <2>6. w[0] = e
      BY <2>1, <2>5
    <2>7. ASSUME NEW i \in 1 .. m + 1 PROVE w[i] = g[i][w[i - 1]]
      <3>1. CASE i = m + 1
        <4>1. i - 1 = m /\ w[m] = u[m]
          BY <2>2, <2>5, <3>1
        <4>. QED  BY <2>5, <3>1, <4>1
      <3>2. CASE i # m + 1
        <4>1. i \in 1 .. m /\ i \in 0 .. m /\ i - 1 \in 0 .. m
          BY <3>2
        <4>. QED  BY <2>1, <2>5, <4>1
      <3>. QED  BY <3>1, <3>2
    <2>8. Is(m + 1, w)
      BY <2>6, <2>7
    <2>. QED  BY <2>4, <2>8
  <1> HIDE DEF P
  <1>3. 0 .. n \subseteq P
    BY <1>1, <1>2, UpTo
  <1>4. n \in P
    BY <1>3
  <1>. QED  BY <1>4 DEF P, IsLeftFold

(* There is only one result.                                               *)
LEMMA SameFromTheLeft ==
  ASSUME NEW n \in Nat, NEW f, NEW w, f[0] = w[0],
         \A i \in 1 .. n : f[i - 1] = w[i - 1] => f[i] = w[i]
  PROVE  f[n] = w[n]
  <1> DEFINE P == {i \in Nat : i <= n => f[i] = w[i]}
  <1>1. 0 \in P
    OBVIOUS
  <1>2. ASSUME NEW i \in Nat, i < n, i \in P PROVE i + 1 \in P
    <2>1. i + 1 \in 1 .. n /\ (i + 1) - 1 = i /\ f[i] = w[i]
      BY <1>2
    <2> QED BY <2>1
  <1> HIDE DEF P
  <1>3. n \in P
    BY <1>1, <1>2, UpTo
  <1> QED BY <1>3 DEF P

-----------------------------------------------------------------------------
(* Escaping.                                                               *)

Special == {Quote, Backslash, "\n"}

(* Texts are closed under what builds them.                                *)
LEMMA Texts ==
  /\ <<>> \in Chars
  /\ \A c \in Char : <<c>> \in Chars /\ Len(<<c>>) = 1
  /\ \A s, t \in Chars : s \o t \in Chars /\ Len(s \o t) = Len(s) + Len(t)
  /\ \A t \in Chars : Len(t) \in Nat
  BY DEF Chars

(* Two characters stand for one that needs care, and say which.            *)
LEMMA EncodedChar ==
  ASSUME NEW c \in Char
  PROVE  /\ EncodeChar(c) \in Chars
         /\ c \notin Special => EncodeChar(c) = <<c>>
         /\ c \in Special =>
              \E x \in Char : /\ EncodeChar(c) = <<Backslash, x>>
                              /\ (IF x = "n" THEN "\n" ELSE x) = c
  <1>1. /\ Quote \in Char /\ Backslash \in Char /\ "n" \in Char
        /\ Quote # "n" /\ Backslash # "n" /\ Quote # Backslash
        /\ "\n" # Quote /\ "\n" # Backslash
    BY CharAssumption DEF Quote, Backslash
  <1>2. \A x \in Char : <<x>> \in Chars /\ <<Backslash, x>> \in Chars
    BY <1>1 DEF Chars
  <1>3. CASE c = Quote
    <2>1. EncodeChar(c) = <<Backslash, Quote>>
      BY <1>1, <1>3 DEF EncodeChar
    <2> QED BY <1>1, <1>2, <1>3, <2>1 DEF Special
  <1>4. CASE c = Backslash
    <2>1. EncodeChar(c) = <<Backslash, Backslash>>
      BY <1>1, <1>4 DEF EncodeChar
    <2> QED BY <1>1, <1>2, <1>4, <2>1 DEF Special
  <1>5. CASE c = "\n"
    <2>1. EncodeChar(c) = <<Backslash, "n">>
      BY <1>1, <1>5 DEF EncodeChar
    <2> QED BY <1>1, <1>2, <1>5, <2>1 DEF Special
  <1>6. CASE c \notin Special
    <2>1. EncodeChar(c) = <<c>>
      BY <1>6 DEF EncodeChar, Special
    <2> QED BY <1>2, <1>6, <2>1
  <1> QED BY <1>3, <1>4, <1>5, <1>6 DEF Special

(* The text that Encode has written after each character.                  *)
LEMMA EncodeIs ==
  ASSUME NEW t \in Chars
  PROVE  \E u \in [0 .. Len(t) -> Chars] :
           /\ u[0] = <<>>
           /\ \A i \in 1 .. Len(t) : u[i] = u[i - 1] \o EncodeChar(t[i])
           /\ Encode(t) = u[Len(t)]
  <1> DEFINE Step(i, x) == x \o EncodeChar(t[i])
             D(u) == [i \in 0 .. Len(t) |-> IF i = 0 THEN <<>> ELSE Step(i, u[i - 1])]
             f == CHOOSE u : u = D(u)
  <1>1. PICK n \in Nat : n = Len(t)
    BY DEF Chars
  <1>2. <<>> \in Chars
    BY DEF Chars
  <1>3. \A i \in 1 .. n : \A x \in Chars : Step(i, x) \in Chars
    <2>1. \A i \in 1 .. n : EncodeChar(t[i]) \in Chars
      BY <1>1, EncodedChar, ElementOfSeq DEF Chars
    <2> QED BY <2>1 DEF Chars
  <1>4. Encode(t) = f[n]
    BY <1>1 DEF Encode
  <1> HIDE DEF f, Step
  <1>5. PICK g \in [1 .. n -> [Chars -> Chars]] :
          \A i \in 1 .. n : \A x \in Chars : g[i][x] = Step(i, x)
    <2> DEFINE h == [i \in 1 .. n |-> [x \in Chars |-> Step(i, x)]]
    <2>1. h \in [1 .. n -> [Chars -> Chars]]
      BY <1>3
    <2> QED BY <2>1
  <1>6. PICK w \in [0 .. n -> Chars] : w[0] = <<>> /\ \A i \in 1 .. n : w[i] = g[i][w[i - 1]]
    <2>1. \E u : IsLeftFold(Chars, <<>>, n, g, u)
      BY <1>2, FromTheLeft
    <2> QED BY <2>1 DEF IsLeftFold
  <1>7. ASSUME NEW i \in 1 .. n PROVE w[i] = Step(i, w[i - 1])
    <2>1. w[i - 1] \in Chars
      OBVIOUS
    <2> QED BY <1>5, <1>6, <2>1
  <1>8. w = D(w)
    BY <1>1, <1>6, <1>7
  <1>9. f = D(f)
    BY <1>8 DEF f
  <1>10. f[0] = <<>> /\ \A i \in 1 .. n : f[i] = Step(i, f[i - 1])
    <2>1. D(f)[0] = <<>> /\ \A i \in 1 .. n : D(f)[i] = Step(i, f[i - 1])
      BY <1>1
    <2> HIDE DEF D
    <2> QED BY <1>9, <2>1
  <1>11. f[n] = w[n]
    <2>1. ASSUME NEW i \in 1 .. n, f[i - 1] = w[i - 1] PROVE f[i] = w[i]
      BY <1>7, <1>10, <2>1
    <2>2. f[0] = w[0] /\ \A i \in 1 .. n : f[i - 1] = w[i - 1] => f[i] = w[i]
      BY <1>6, <1>10, <2>1
    <2> HIDE DEF D
    <2> QED BY ONLY n \in Nat, <2>2, SameFromTheLeft
  <1> QED BY <1>1, <1>4, <1>6, <1>7, <1>11 DEF Step

(* The size that EncodeCheck has counted after each character.             *)
LEMMA EncodeCheckIs ==
  ASSUME NEW t \in Chars
  PROVE  \E u \in [0 .. Len(t) -> Nat] :
           /\ u[0] = 1
           /\ \A i \in 1 .. Len(t) : u[i] = u[i - 1] + (IF t[i] \in Special THEN 2 ELSE 1)
           /\ EncodeCheck(t) = IF u[Len(t)] = Len(t) + 1 THEN -1 ELSE u[Len(t)]
  <1> DEFINE Step(i, x) == x + (IF t[i] \in Special THEN 2 ELSE 1)
             D(u) == [i \in 0 .. Len(t) |-> IF i = 0 THEN 1 ELSE Step(i, u[i - 1])]
             f == CHOOSE u : u = D(u)
  <1>1. PICK n \in Nat : n = Len(t)
    BY DEF Chars
  <1>2. 1 \in Nat
    OBVIOUS
  <1>3. \A i \in 1 .. n : \A x \in Nat : Step(i, x) \in Nat
    OBVIOUS
  <1>4. EncodeCheck(t) = IF f[n] = Len(t) + 1 THEN -1 ELSE f[n]
    BY <1>1 DEF EncodeCheck, Special
  <1> HIDE DEF f, Step
  <1>5. PICK g \in [1 .. n -> [Nat -> Nat]] :
          \A i \in 1 .. n : \A x \in Nat : g[i][x] = Step(i, x)
    <2> DEFINE h == [i \in 1 .. n |-> [x \in Nat |-> Step(i, x)]]
    <2>1. h \in [1 .. n -> [Nat -> Nat]]
      BY <1>3
    <2> QED BY <2>1
  <1>6. PICK w \in [0 .. n -> Nat] : w[0] = 1 /\ \A i \in 1 .. n : w[i] = g[i][w[i - 1]]
    <2>1. \E u : IsLeftFold(Nat, 1, n, g, u)
      BY <1>2, FromTheLeft
    <2> QED BY <2>1 DEF IsLeftFold
  <1>7. ASSUME NEW i \in 1 .. n PROVE w[i] = Step(i, w[i - 1])
    <2>1. w[i - 1] \in Nat
      OBVIOUS
    <2> QED BY <1>5, <1>6, <2>1
  <1>8. w = D(w)
    BY <1>1, <1>6, <1>7
  <1>9. f = D(f)
    BY <1>8 DEF f
  <1>10. f[0] = 1 /\ \A i \in 1 .. n : f[i] = Step(i, f[i - 1])
    <2>1. D(f)[0] = 1 /\ \A i \in 1 .. n : D(f)[i] = Step(i, f[i - 1])
      BY <1>1
    <2> HIDE DEF D
    <2> QED BY <1>9, <2>1
  <1>11. f[n] = w[n]
    <2>1. ASSUME NEW i \in 1 .. n, f[i - 1] = w[i - 1] PROVE f[i] = w[i]
      BY <1>7, <1>10, <2>1
    <2>2. f[0] = w[0] /\ \A i \in 1 .. n : f[i - 1] = w[i - 1] => f[i] = w[i]
      BY <1>6, <1>10, <2>1
    <2> HIDE DEF D
    <2> QED BY ONLY n \in Nat, <2>2, SameFromTheLeft
  <1> QED BY <1>1, <1>4, <1>6, <1>7, <1>11 DEF Step

(* What Decode has read after each character.                              *)
LEMMA DecodeIs ==
  ASSUME NEW raw \in Chars
  PROVE  \E u \in [0 .. Len(raw) -> [text : Chars, escaped : BOOLEAN]] :
           /\ u[0] = [text |-> <<>>, escaped |-> FALSE]
           /\ \A i \in 1 .. Len(raw) : u[i] = DecodeChar(u[i - 1], raw[i])
           /\ Decode(raw) = u[Len(raw)].text
  <1> DEFINE Step(i, x) == DecodeChar(x, raw[i])
             D(u) == [i \in 0 .. Len(raw) |-> IF i = 0 THEN [text |-> <<>>, escaped |-> FALSE] ELSE Step(i, u[i - 1])]
             f == CHOOSE u : u = D(u)
  <1>1. PICK n \in Nat : n = Len(raw)
    BY DEF Chars
  <1>2. [text |-> <<>>, escaped |-> FALSE] \in [text : Chars, escaped : BOOLEAN]
    BY DEF Chars
  <1>3. \A i \in 1 .. n : \A x \in [text : Chars, escaped : BOOLEAN] : Step(i, x) \in [text : Chars, escaped : BOOLEAN]
    <2>1. \A i \in 1 .. n : raw[i] \in Char
      BY <1>1, ElementOfSeq DEF Chars
    <2> QED
      <3> SUFFICES ASSUME NEW i \in 1 .. n, NEW x \in [text : Chars, escaped : BOOLEAN]
                   PROVE  DecodeChar(x, raw[i]) \in [text : Chars, escaped : BOOLEAN]
        OBVIOUS
      <3>1. "\n" \in Char /\ x.text \in Chars
        BY CharAssumption
      <3>2. Append(x.text, raw[i]) \in Chars /\ Append(x.text, "\n") \in Chars
        BY <2>1, <3>1 DEF Chars
      <3> QED BY <3>1, <3>2 DEF DecodeChar
  <1>4. Decode(raw) = f[n].text
    BY <1>1 DEF Decode
  <1> HIDE DEF f, Step
  <1>5. PICK g \in [1 .. n -> [[text : Chars, escaped : BOOLEAN] -> [text : Chars, escaped : BOOLEAN]]] :
          \A i \in 1 .. n : \A x \in [text : Chars, escaped : BOOLEAN] : g[i][x] = Step(i, x)
    <2> DEFINE h == [i \in 1 .. n |-> [x \in [text : Chars, escaped : BOOLEAN] |-> Step(i, x)]]
    <2>1. h \in [1 .. n -> [[text : Chars, escaped : BOOLEAN] -> [text : Chars, escaped : BOOLEAN]]]
      BY <1>3
    <2> QED BY <2>1
  <1>6. PICK w \in [0 .. n -> [text : Chars, escaped : BOOLEAN]] : w[0] = [text |-> <<>>, escaped |-> FALSE] /\ \A i \in 1 .. n : w[i] = g[i][w[i - 1]]
    <2>1. \E u : IsLeftFold([text : Chars, escaped : BOOLEAN], [text |-> <<>>, escaped |-> FALSE], n, g, u)
      BY <1>2, FromTheLeft
    <2> QED BY <2>1 DEF IsLeftFold
  <1>7. ASSUME NEW i \in 1 .. n PROVE w[i] = Step(i, w[i - 1])
    <2>1. w[i - 1] \in [text : Chars, escaped : BOOLEAN]
      OBVIOUS
    <2> QED BY <1>5, <1>6, <2>1
  <1>8. w = D(w)
    BY <1>1, <1>6, <1>7
  <1>9. f = D(f)
    BY <1>8 DEF f
  <1>10. f[0] = [text |-> <<>>, escaped |-> FALSE] /\ \A i \in 1 .. n : f[i] = Step(i, f[i - 1])
    <2>1. D(f)[0] = [text |-> <<>>, escaped |-> FALSE] /\ \A i \in 1 .. n : D(f)[i] = Step(i, f[i - 1])
      BY <1>1
    <2> HIDE DEF D
    <2> QED BY <1>9, <2>1
  <1>11. f[n] = w[n]
    <2>1. ASSUME NEW i \in 1 .. n, f[i - 1] = w[i - 1] PROVE f[i] = w[i]
      BY <1>7, <1>10, <2>1
    <2>2. f[0] = w[0] /\ \A i \in 1 .. n : f[i - 1] = w[i - 1] => f[i] = w[i]
      BY <1>6, <1>10, <2>1
    <2> HIDE DEF D
    <2> QED BY ONLY n \in Nat, <2>2, SameFromTheLeft
  <1> QED BY <1>1, <1>4, <1>6, <1>7, <1>11 DEF Step

(* What Joined has written after each text.                                *)
LEMMA JoinedIs ==
  ASSUME NEW texts \in Seq(Chars)
  PROVE  \E u \in [0 .. Len(texts) -> Chars] :
           /\ u[0] = <<>>
           /\ \A i \in 1 .. Len(texts) : u[i] = u[i - 1] \o (IF i > 1 THEN <<",">> ELSE <<>>) \o texts[i]
           /\ Joined(texts) = u[Len(texts)]
  <1> DEFINE Step(i, x) == x \o (IF i > 1 THEN <<",">> ELSE <<>>) \o texts[i]
             D(u) == [i \in 0 .. Len(texts) |-> IF i = 0 THEN <<>> ELSE Step(i, u[i - 1])]
             f == CHOOSE u : u = D(u)
  <1>1. PICK n \in Nat : n = Len(texts)
    OBVIOUS
  <1>2. <<>> \in Chars
    BY DEF Chars
  <1>3. \A i \in 1 .. n : \A x \in Chars : Step(i, x) \in Chars
    <2>1. \A i \in 1 .. n : texts[i] \in Chars
      BY <1>1, ElementOfSeq
    <2>2. <<",">> \in Chars /\ <<>> \in Chars
      <3>1. "," \in Char
        BY CharAssumption
      <3> QED BY ONLY <3>1, Texts
    <2>3. ASSUME NEW i \in 1 .. n, NEW x \in Chars PROVE Step(i, x) \in Chars
      <3>1. \A y, z \in Chars : y \o z \in Chars
        BY DEF Chars
      <3> HIDE DEF D, f
      <3> QED BY <2>1, <2>2, <3>1
    <2> QED BY <2>3
  <1>4. Joined(texts) = f[n]
    BY <1>1 DEF Joined
  <1> HIDE DEF f, Step
  <1>5. PICK g \in [1 .. n -> [Chars -> Chars]] :
          \A i \in 1 .. n : \A x \in Chars : g[i][x] = Step(i, x)
    <2> DEFINE h == [i \in 1 .. n |-> [x \in Chars |-> Step(i, x)]]
    <2>1. h \in [1 .. n -> [Chars -> Chars]]
      BY <1>3
    <2> QED BY <2>1
  <1>6. PICK w \in [0 .. n -> Chars] : w[0] = <<>> /\ \A i \in 1 .. n : w[i] = g[i][w[i - 1]]
    <2>1. \E u : IsLeftFold(Chars, <<>>, n, g, u)
      BY <1>2, FromTheLeft
    <2> QED BY <2>1 DEF IsLeftFold
  <1>7. ASSUME NEW i \in 1 .. n PROVE w[i] = Step(i, w[i - 1])
    <2>1. w[i - 1] \in Chars
      OBVIOUS
    <2> QED BY <1>5, <1>6, <2>1
  <1>8. w = D(w)
    BY <1>1, <1>6, <1>7
  <1>9. f = D(f)
    BY <1>8 DEF f
  <1>10. f[0] = <<>> /\ \A i \in 1 .. n : f[i] = Step(i, f[i - 1])
    <2>1. D(f)[0] = <<>> /\ \A i \in 1 .. n : D(f)[i] = Step(i, f[i - 1])
      BY <1>1
    <2> HIDE DEF D
    <2> QED BY <1>9, <2>1
  <1>11. f[n] = w[n]
    <2>1. ASSUME NEW i \in 1 .. n, f[i - 1] = w[i - 1] PROVE f[i] = w[i]
      BY <1>7, <1>10, <2>1
    <2>2. f[0] = w[0] /\ \A i \in 1 .. n : f[i - 1] = w[i - 1] => f[i] = w[i]
      BY <1>6, <1>10, <2>1
    <2> HIDE DEF D
    <2> QED BY ONLY n \in Nat, <2>2, SameFromTheLeft
  <1> QED BY <1>1, <1>4, <1>6, <1>7, <1>11 DEF Step

(* What LenJoined has counted after each length.                           *)
LEMMA LenJoinedIs ==
  ASSUME NEW lens \in Seq(Nat)
  PROVE  \E u \in [0 .. Len(lens) -> Nat] :
           /\ u[0] = 0
           /\ \A i \in 1 .. Len(lens) : u[i] = u[i - 1] + (IF i > 1 THEN 1 ELSE 0) + lens[i]
           /\ LenJoined(lens) = u[Len(lens)]
  <1> DEFINE Step(i, x) == x + (IF i > 1 THEN 1 ELSE 0) + lens[i]
             D(u) == [i \in 0 .. Len(lens) |-> IF i = 0 THEN 0 ELSE Step(i, u[i - 1])]
             f == CHOOSE u : u = D(u)
  <1>1. PICK n \in Nat : n = Len(lens)
    OBVIOUS
  <1>2. 0 \in Nat
    OBVIOUS
  <1>3. \A i \in 1 .. n : \A x \in Nat : Step(i, x) \in Nat
    BY <1>1, ElementOfSeq
  <1>4. LenJoined(lens) = f[n]
    BY <1>1 DEF LenJoined
  <1> HIDE DEF f, Step
  <1>5. PICK g \in [1 .. n -> [Nat -> Nat]] :
          \A i \in 1 .. n : \A x \in Nat : g[i][x] = Step(i, x)
    <2> DEFINE h == [i \in 1 .. n |-> [x \in Nat |-> Step(i, x)]]
    <2>1. h \in [1 .. n -> [Nat -> Nat]]
      BY <1>3
    <2> QED BY <2>1
  <1>6. PICK w \in [0 .. n -> Nat] : w[0] = 0 /\ \A i \in 1 .. n : w[i] = g[i][w[i - 1]]
    <2>1. \E u : IsLeftFold(Nat, 0, n, g, u)
      BY <1>2, FromTheLeft
    <2> QED BY <2>1 DEF IsLeftFold
  <1>7. ASSUME NEW i \in 1 .. n PROVE w[i] = Step(i, w[i - 1])
    <2>1. w[i - 1] \in Nat
      OBVIOUS
    <2> QED BY <1>5, <1>6, <2>1
  <1>8. w = D(w)
    BY <1>1, <1>6, <1>7
  <1>9. f = D(f)
    BY <1>8 DEF f
  <1>10. f[0] = 0 /\ \A i \in 1 .. n : f[i] = Step(i, f[i - 1])
    <2>1. D(f)[0] = 0 /\ \A i \in 1 .. n : D(f)[i] = Step(i, f[i - 1])
      BY <1>1
    <2> HIDE DEF D
    <2> QED BY <1>9, <2>1
  <1>11. f[n] = w[n]
    <2>1. ASSUME NEW i \in 1 .. n, f[i - 1] = w[i - 1] PROVE f[i] = w[i]
      BY <1>7, <1>10, <2>1
    <2>2. f[0] = w[0] /\ \A i \in 1 .. n : f[i - 1] = w[i - 1] => f[i] = w[i]
      BY <1>6, <1>10, <2>1
    <2> HIDE DEF D
    <2> QED BY ONLY n \in Nat, <2>2, SameFromTheLeft
  <1> QED BY <1>1, <1>4, <1>6, <1>7, <1>11 DEF Step

-----------------------------------------------------------------------------
(* What escaping needs and keeps.                                          *)

(* The first characters of a text, with one more.                          *)
LEMMA OneMore ==
  ASSUME NEW t \in Chars, NEW i \in Nat, i < Len(t)
  PROVE  /\ SubSeq(t, 1, i) \in Chars /\ t[i + 1] \in Char
         /\ SubSeq(t, 1, i + 1) = SubSeq(t, 1, i) \o <<t[i + 1]>>
         /\ SubSeq(t, 1, i + 1) = Append(SubSeq(t, 1, i), t[i + 1])
  <1>1. t \in Seq(Char) /\ Len(t) \in Nat /\ 1 \in 1 .. Len(t) /\ i + 1 \in 1 .. Len(t)
    BY DEF Chars
  <1>2. t[i + 1] \in Char /\ \A j \in 1 .. i : t[j] \in Char
    BY <1>1, ElementOfSeq
  <1>3. SubSeq(t, 1, i) \in Seq(Char)
    BY <1>2, SubSeqProperties
  <1>4. SubSeq(t, 1, i + 1) = SubSeq(t, 1, (i + 1) - 1) \o <<t[i + 1]>>
    BY ONLY <1>1, SubSeqRecursiveSecond
  <1>5. (i + 1) - 1 = i
    OBVIOUS
  <1>6. \A s \in Seq(Char) : Append(s, t[i + 1]) = s \o <<t[i + 1]>>
    BY <1>2
  <1> QED BY <1>2, <1>3, <1>4, <1>5, <1>6 DEF Chars

(* encodeCheck computes the size of what encode writes, its final NUL      *)
(* included, and says -1 exactly when escaping would change nothing, for   *)
(* every text (BaseJson.cpp 1780-1846).                                    *)
THEOREM EscapingFits ==
  \A t \in Chars : EncodeCheck(t) = IF Encode(t) = t THEN -1 ELSE Len(Encode(t)) + 1
  <1> SUFFICES ASSUME NEW t \in Chars
               PROVE  EncodeCheck(t) = IF Encode(t) = t THEN -1 ELSE Len(Encode(t)) + 1
    OBVIOUS
  <1>1. PICK n \in Nat : n = Len(t)
    BY Texts
  <1>2. PICK u \in [0 .. n -> Chars] :
          /\ u[0] = <<>>
          /\ \A i \in 1 .. n : u[i] = u[i - 1] \o EncodeChar(t[i])
          /\ Encode(t) = u[n]
    BY <1>1, EncodeIs
  <1>3. PICK z \in [0 .. n -> Nat] :
          /\ z[0] = 1
          /\ \A i \in 1 .. n : z[i] = z[i - 1] + (IF t[i] \in Special THEN 2 ELSE 1)
          /\ EncodeCheck(t) = IF z[n] = n + 1 THEN -1 ELSE z[n]
    BY <1>1, EncodeCheckIs
  <1> DEFINE P == {i \in Nat : i <= n =>
                     /\ z[i] = Len(u[i]) + 1 /\ Len(u[i]) >= i
                     /\ Len(u[i]) = i => u[i] = SubSeq(t, 1, i)}
  <1>4. 0 \in P
    <2>1. SubSeq(t, 1, 0) = <<>> /\ Len(<<>>) = 0
      BY SubSeqEmpty
    <2>2. u[0] = <<>> /\ z[0] = 1
      BY <1>2, <1>3
    <2>3. Len(u[0]) = 0 /\ u[0] = SubSeq(t, 1, 0)
      BY ONLY <2>1, <2>2
    <2> QED BY ONLY <2>2, <2>3, n \in Nat
  <1>5. ASSUME NEW i \in Nat, i < n, i \in P PROVE i + 1 \in P
    <2>1. /\ i + 1 \in 1 .. n /\ (i + 1) - 1 = i /\ i \in 0 .. n
          /\ z[i] = Len(u[i]) + 1 /\ Len(u[i]) >= i
          /\ Len(u[i]) = i => u[i] = SubSeq(t, 1, i)
      BY <1>5
    <2> DEFINE c == t[i + 1]
    <2>2. c \in Char /\ SubSeq(t, 1, i + 1) = SubSeq(t, 1, i) \o <<c>>
      BY <1>1, <1>5, OneMore
    <2> HIDE DEF c, P
    <2>3. u[i] \in Chars /\ Len(u[i]) \in Nat /\ EncodeChar(c) \in Chars
      BY <2>1, <2>2, EncodedChar, Texts
    <2>4. u[i + 1] = u[i] \o EncodeChar(c) /\ Len(u[i + 1]) = Len(u[i]) + Len(EncodeChar(c))
      <3>1. u[i + 1] = u[i] \o EncodeChar(t[i + 1])
        BY <1>2, <2>1
      <3> QED BY <2>3, <3>1, Texts DEF c
    <2>5. z[i + 1] = z[i] + (IF c \in Special THEN 2 ELSE 1)
      BY <1>3, <2>1 DEF c
    <2>6. CASE c \in Special
      <3>1. Len(EncodeChar(c)) = 2
        BY <2>2, <2>6, EncodedChar
      <3> QED BY <2>1, <2>3, <2>4, <2>5, <2>6, <3>1 DEF P
    <2>7. CASE c \notin Special
      <3>1. EncodeChar(c) = <<c>> /\ Len(EncodeChar(c)) = 1
        BY <2>2, <2>7, EncodedChar
      <3>2. Len(u[i + 1]) = i + 1 => u[i + 1] = SubSeq(t, 1, i + 1)
        BY <2>1, <2>2, <2>3, <2>4, <3>1
      <3> QED BY <2>1, <2>3, <2>4, <2>5, <2>7, <3>1, <3>2 DEF P
    <2> QED BY <2>6, <2>7
  <1> HIDE DEF P
  <1>6. n \in P
    <2>1. 0 .. n \subseteq P
      BY ONLY n \in Nat, <1>4, <1>5, UpTo
    <2> QED BY <2>1
  <1>7. /\ z[n] = Len(Encode(t)) + 1 /\ Len(Encode(t)) \in Nat
        /\ Len(Encode(t)) = n => Encode(t) = SubSeq(t, 1, n)
    BY <1>2, <1>6, Texts DEF P
  <1>8. SubSeq(t, 1, n) = t
    BY <1>1, SubSeqFull DEF Chars
  <1> QED BY <1>1, <1>3, <1>7, <1>8

(* A text and one appended to it are found again in the whole.             *)
LEMMA Parts ==
  ASSUME NEW x \in Chars, NEW y \in Chars
  PROVE  /\ Len(x) \in Nat /\ Len(y) \in Nat /\ Len(x \o y) = Len(x) + Len(y)
         /\ x \o y \in Chars
         /\ \A k \in 1 .. Len(x) : (x \o y)[k] = x[k]
         /\ \A k \in 1 .. Len(y) : (x \o y)[Len(x) + k] = y[k]
  BY DEF Chars

(* Where Encode writes each character.                                     *)
LEMMA EncodePlaces ==
  ASSUME NEW t \in Chars
  PROVE  \E p \in [0 .. Len(t) -> Nat] :
           /\ p[0] = 0 /\ p[Len(t)] = Len(Encode(t)) /\ Encode(t) \in Chars
           /\ \A i \in 1 .. Len(t) :
                /\ p[i] = p[i - 1] + Len(EncodeChar(t[i])) /\ p[i] <= Len(Encode(t))
                /\ \A k \in 1 .. Len(EncodeChar(t[i])) :
                     Encode(t)[p[i - 1] + k] = EncodeChar(t[i])[k]
  <1>1. PICK n \in Nat : n = Len(t)
    BY Texts
  <1>2. PICK u \in [0 .. n -> Chars] :
          /\ u[0] = <<>>
          /\ \A i \in 1 .. n : u[i] = u[i - 1] \o EncodeChar(t[i])
          /\ Encode(t) = u[n]
    BY <1>1, EncodeIs
  <1> DEFINE p == [i \in 0 .. n |-> Len(u[i])]
  <1>3. p \in [0 .. n -> Nat] /\ \A i \in 0 .. n : p[i] = Len(u[i])
    BY Texts
  <1>4. \A i \in 1 .. n : t[i] \in Char /\ EncodeChar(t[i]) \in Chars /\ Len(EncodeChar(t[i])) \in Nat
    BY <1>1, ElementOfSeq, EncodedChar, Texts DEF Chars
  <1>5. ASSUME NEW i \in 1 .. n
        PROVE  /\ p[i] = p[i - 1] + Len(EncodeChar(t[i]))
               /\ \A k \in 1 .. p[i - 1] : u[i][k] = u[i - 1][k]
               /\ \A k \in 1 .. Len(EncodeChar(t[i])) : u[i][p[i - 1] + k] = EncodeChar(t[i])[k]
    <2> HIDE DEF p
    <2>1. u[i - 1] \in Chars /\ EncodeChar(t[i]) \in Chars /\ u[i] = u[i - 1] \o EncodeChar(t[i])
      <3>1. i - 1 \in 0 .. n
        OBVIOUS
      <3> QED BY <1>2, <1>4, <3>1
    <2>3. p[i - 1] = Len(u[i - 1]) /\ p[i] = Len(u[i])
      BY <1>3
    <2>4. /\ Len(u[i]) = Len(u[i - 1]) + Len(EncodeChar(t[i]))
          /\ \A k \in 1 .. Len(u[i - 1]) : u[i][k] = u[i - 1][k]
          /\ \A k \in 1 .. Len(EncodeChar(t[i])) :
               u[i][Len(u[i - 1]) + k] = EncodeChar(t[i])[k]
      <3>1. PICK x \in Chars, y \in Chars, z \in {u[i]} : x = u[i - 1] /\ y = EncodeChar(t[i]) /\ z = u[i]
        BY <2>1
      <3>2. z = x \o y
        BY <2>1, <3>1
      <3>3. /\ Len(z) = Len(x) + Len(y)
            /\ \A k \in 1 .. Len(x) : z[k] = x[k]
            /\ \A k \in 1 .. Len(y) : z[Len(x) + k] = y[k]
        BY <3>2, Parts
      <3> QED BY <3>1, <3>3
    <2> QED BY <2>3, <2>4
  <1> HIDE DEF p
  <1> DEFINE P == {m \in Nat : m <= n =>
                     \A i \in 0 .. m : p[i] <= p[m] /\ \A k \in 1 .. p[i] : u[m][k] = u[i][k]}
  <1>6. 0 \in P
    BY <1>3
  <1>7. ASSUME NEW m \in Nat, m < n, m \in P PROVE m + 1 \in P
    <2>1. m + 1 \in 1 .. n /\ (m + 1) - 1 = m
      BY <1>7
    <2>2. /\ p[m + 1] = p[m] + Len(EncodeChar(t[m + 1]))
          /\ \A k \in 1 .. p[m] : u[m + 1][k] = u[m][k]
      BY <1>5, <2>1
    <2>3. p[m] \in Nat /\ p[m + 1] \in Nat /\ p[m] <= p[m + 1]
      BY <1>3, <1>4, <2>1, <2>2
    <2>4. ASSUME NEW i \in 0 .. m + 1
          PROVE  p[i] <= p[m + 1] /\ \A k \in 1 .. p[i] : u[m + 1][k] = u[i][k]
      <3>1. CASE i = m + 1
        BY <2>3, <3>1
      <3>2. CASE i \in 0 .. m
        <4>1. p[i] \in Nat /\ p[i] <= p[m] /\ \A k \in 1 .. p[i] : u[m][k] = u[i][k]
          BY <1>3, <1>7, <3>2
        <4> QED BY <2>2, <2>3, <4>1
      <3> QED BY <3>1, <3>2
    <2> QED BY <2>4
  <1>8. n \in P
    <2> HIDE DEF P
    <2>1. 0 .. n \subseteq P
      BY ONLY n \in Nat, <1>6, <1>7, UpTo
    <2> QED BY <2>1
  <1>9. ASSUME NEW i \in 1 .. n
        PROVE  /\ p[i] = p[i - 1] + Len(EncodeChar(t[i])) /\ p[i] <= Len(Encode(t))
               /\ \A k \in 1 .. Len(EncodeChar(t[i])) : Encode(t)[p[i - 1] + k] = EncodeChar(t[i])[k]
    <2>1. p[i] \in Nat /\ p[i - 1] \in Nat /\ p[i] <= p[n] /\ p[n] = Len(u[n])
      BY <1>3, <1>8
    <2>2. \A k \in 1 .. p[i] : u[n][k] = u[i][k]
      BY <1>8
    <2>3. ASSUME NEW k \in 1 .. Len(EncodeChar(t[i]))
          PROVE  Encode(t)[p[i - 1] + k] = EncodeChar(t[i])[k]
      <3>1. p[i - 1] + k \in 1 .. p[i]
        BY <1>4, <1>5, <2>1
      <3> QED BY <1>2, <1>5, <2>2, <3>1
    <2> QED BY <1>2, <1>5, <2>1, <2>3
  <1> HIDE DEF P
  <1>10. p \in [0 .. Len(t) -> Nat] /\ p[0] = 0 /\ p[Len(t)] = Len(Encode(t)) /\ Encode(t) \in Chars
    BY <1>1, <1>2, <1>3
  <1> QED BY ONLY <1>1, <1>9, <1>10

(* A caller who asks for escaping stores what Encode writes.               *)
LEMMA StoredIsEncoded == ASSUME NEW t \in Chars PROVE Stored(t, TRUE) = Encode(t)
  <1>1. EncodeCheck(t) = IF Encode(t) = t THEN -1 ELSE Len(Encode(t)) + 1
    BY EscapingFits
  <1>2. CASE Encode(t) = t
    BY <1>2 DEF Stored
  <1>3. CASE Encode(t) # t
    <2>1. Len(Encode(t)) \in Nat
      <3>1. PICK p \in [0 .. Len(t) -> Nat] : p[Len(t)] = Len(Encode(t))
        BY EncodePlaces
      <3> QED BY <3>1, Texts
    <2>2. EncodeCheck(t) = Len(Encode(t)) + 1
      BY <1>1, <1>3
    <2>3. EncodeCheck(t) # -1
      BY ONLY <2>1, <2>2
    <2> QED BY <2>3 DEF Stored
  <1> QED BY <1>2, <1>3

(* Every text comes out of its escaped form as it was put in               *)
(* (BaseJson.cpp 1807-1889).                                               *)
THEOREM DecodesStored == \A t \in Chars : Decode(Stored(t, TRUE)) = t
  <1> SUFFICES ASSUME NEW t \in Chars PROVE Decode(Encode(t)) = t
    BY StoredIsEncoded
  <1>1. PICK n \in Nat : n = Len(t)
    BY Texts
  <1>2. PICK raw \in Chars : raw = Encode(t)
    BY EncodePlaces
  <1>3. PICK p \in [0 .. n -> Nat] :
          /\ p[0] = 0 /\ p[n] = Len(raw)
          /\ \A i \in 1 .. n :
               /\ p[i] = p[i - 1] + Len(EncodeChar(t[i])) /\ p[i] <= Len(raw)
               /\ \A k \in 1 .. Len(EncodeChar(t[i])) :
                    raw[p[i - 1] + k] = EncodeChar(t[i])[k]
    BY <1>1, <1>2, EncodePlaces
  <1>4. PICK d \in [0 .. Len(raw) -> [text : Chars, escaped : BOOLEAN]] :
          /\ d[0] = [text |-> <<>>, escaped |-> FALSE]
          /\ \A i \in 1 .. Len(raw) : d[i] = DecodeChar(d[i - 1], raw[i])
          /\ Decode(raw) = d[Len(raw)].text
    BY DecodeIs
  <1> DEFINE P == {i \in Nat : i <= n =>
                     d[p[i]] = [text |-> SubSeq(t, 1, i), escaped |-> FALSE]}
  <1>5. 0 \in P
    <2>1. SubSeq(t, 1, 0) = <<>>
      BY SubSeqEmpty
    <2> QED BY <1>3, <1>4, <2>1
  <1>6. ASSUME NEW i \in Nat, i < n, i \in P PROVE i + 1 \in P
    <2>1. /\ i + 1 \in 1 .. n /\ (i + 1) - 1 = i /\ i \in 0 .. n
          /\ d[p[i]] = [text |-> SubSeq(t, 1, i), escaped |-> FALSE]
      BY <1>6
    <2> DEFINE c == t[i + 1]
               k == p[i]
               before == SubSeq(t, 1, i)
    <2>2. c \in Char /\ before \in Chars /\ SubSeq(t, 1, i + 1) = Append(before, c)
      BY <1>1, <1>6, OneMore
    <2>3. /\ k \in Nat /\ p[i + 1] = k + Len(EncodeChar(c)) /\ p[i + 1] <= Len(raw)
          /\ \A j \in 1 .. Len(EncodeChar(c)) : raw[k + j] = EncodeChar(c)[j]
      BY <1>3, <2>1
    <2>4. d[k] = [text |-> before, escaped |-> FALSE]
      BY <2>1
    <2>5. Len(raw) \in Nat
      BY Texts
    <2> HIDE DEF c, k, before, P
    <2>6. CASE c \notin Special
      <3>1. EncodeChar(c) = <<c>> /\ Len(<<c>>) = 1 /\ <<c>>[1] = c /\ c # Backslash
        BY <2>2, <2>6, EncodedChar DEF Special
      <3>2. p[i + 1] = k + 1 /\ k + 1 \in 1 .. Len(raw) /\ (k + 1) - 1 = k /\ raw[k + 1] = c
        BY <2>3, <2>5, <3>1
      <3>3. d[k + 1] = DecodeChar(d[k], c)
        BY <1>4, <3>2
      <3>4. d[k + 1] = [text |-> Append(before, c), escaped |-> FALSE]
        BY <2>4, <3>1, <3>3 DEF DecodeChar
      <3>5. d[p[i + 1]] = [text |-> SubSeq(t, 1, i + 1), escaped |-> FALSE]
        BY <2>2, <3>2, <3>4
      <3> QED BY <3>5 DEF P
    <2>7. CASE c \in Special
      <3>1. PICK x \in Char : /\ EncodeChar(c) = <<Backslash, x>>
                              /\ (IF x = "n" THEN "\n" ELSE x) = c
        BY <2>2, <2>7, EncodedChar
      <3>2. Len(EncodeChar(c)) = 2 /\ EncodeChar(c)[1] = Backslash /\ EncodeChar(c)[2] = x
        BY <3>1
      <3>3. /\ p[i + 1] = k + 2 /\ k + 1 \in 1 .. Len(raw) /\ (k + 1) - 1 = k
            /\ k + 2 \in 1 .. Len(raw) /\ (k + 2) - 1 = k + 1
            /\ raw[k + 1] = Backslash /\ raw[k + 2] = x
        BY <2>3, <2>5, <3>2
      <3>4. d[k + 1] = DecodeChar(d[k], Backslash) /\ d[k + 2] = DecodeChar(d[k + 1], x)
        BY <1>4, <3>3
      <3>5. d[k + 1] = [text |-> before, escaped |-> TRUE]
        BY <2>4, <3>4 DEF DecodeChar
      <3>6. d[k + 2] = [text |-> Append(before, c), escaped |-> FALSE]
        <4>1. d[k + 1].escaped = TRUE /\ d[k + 1].text = before
          BY <3>5
        <4>2. d[k + 2] = [text |-> Append(before, IF x = "n" THEN "\n" ELSE x), escaped |-> FALSE]
          BY <3>4, <4>1 DEF DecodeChar
        <4> QED BY <3>1, <4>2
      <3>7. d[p[i + 1]] = [text |-> SubSeq(t, 1, i + 1), escaped |-> FALSE]
        BY <2>2, <3>3, <3>6
      <3> QED BY <3>7 DEF P
    <2> QED BY <2>6, <2>7
  <1>7. n \in P
    <2> HIDE DEF P
    <2>1. 0 .. n \subseteq P
      BY ONLY n \in Nat, <1>5, <1>6, UpTo
    <2> QED BY <2>1
  <1>8. d[Len(raw)].text = SubSeq(t, 1, n)
    BY <1>3, <1>7
  <1>9. SubSeq(t, 1, n) = t
    BY <1>1, SubSeqFull DEF Chars
  <1> QED BY <1>2, <1>4, <1>8, <1>9

(* x knows which characters of the string at i are escaped, and ends is    *)
(* where it may end.                                                       *)
Escapes(s, i, x) ==
  \A j \in i + 1 .. Len(s) : x[j] = (j > i + 1 /\ s[j - 1] = Backslash /\ ~x[j - 1])
Ends(s, i, x) == {j \in i + 1 .. Len(s) : s[j] = Quote /\ ~x[j]}

(* What StringEnd knows of escapes at each character.                      *)
LEMMA StringEndIs ==
  ASSUME NEW s \in Chars, NEW i \in 1 .. Len(s)
  PROVE  \E x : /\ Escapes(s, i, x)
                /\ StringEnd(s, i) = IF Ends(s, i, x) = {} THEN i ELSE Min(Ends(s, i, x))
  <1> DEFINE D(u) == [j \in i + 1 .. Len(s) |->
                        j > i + 1 /\ s[j - 1] = Backslash /\ ~u[j - 1]]
             f == CHOOSE u : u = D(u)
             Step(k, x) == k > 1 /\ s[i + k - 1] = Backslash /\ ~x
  <1>1. PICK n \in Nat : n = Len(s) - i
    <2> HIDE DEF f
    <2>1. Len(s) \in Nat
      BY Texts
    <2>2. Len(s) - i \in Nat
      BY <2>1
    <2> QED BY <2>2
  <1>2. PICK g \in [1 .. n -> [BOOLEAN -> BOOLEAN]] :
          \A k \in 1 .. n : \A x \in BOOLEAN : g[k][x] = Step(k, x)
    <2> DEFINE h == [k \in 1 .. n |-> [x \in BOOLEAN |-> Step(k, x)]]
    <2>1. h \in [1 .. n -> [BOOLEAN -> BOOLEAN]]
      OBVIOUS
    <2> QED BY <2>1
  <1>3. PICK w \in [0 .. n -> BOOLEAN] : w[0] = FALSE /\ \A k \in 1 .. n : w[k] = g[k][w[k - 1]]
    <2>1. \E u : IsLeftFold(BOOLEAN, FALSE, n, g, u)
      BY FromTheLeft
    <2> QED BY <2>1 DEF IsLeftFold
  <1>4. ASSUME NEW k \in 1 .. n PROVE w[k] = Step(k, w[k - 1])
    <2>1. w[k - 1] \in BOOLEAN
      OBVIOUS
    <2> QED BY <1>2, <1>3, <2>1
  <1> DEFINE v == [j \in i + 1 .. Len(s) |-> w[j - i]]
  <1>5. v = D(v)
    <2>1. i \in Nat /\ Len(s) \in Nat
      BY Texts
    <2>2. ASSUME NEW j \in i + 1 .. Len(s)
          PROVE  v[j] = (j > i + 1 /\ s[j - 1] = Backslash /\ ~v[j - 1])
      <3>1. j - i \in 1 .. n /\ i + (j - i) - 1 = j - 1 /\ (j - i > 1 <=> j > i + 1)
        BY <1>1, <2>1
      <3>2. w[j - i] = (j - i > 1 /\ s[j - 1] = Backslash /\ ~w[(j - i) - 1])
        BY <1>4, <3>1
      <3>3. j > i + 1 => j - 1 \in i + 1 .. Len(s) /\ (j - i) - 1 = (j - 1) - i
        BY <2>1
      <3>4. v[j] = w[j - i] /\ (j > i + 1 => v[j - 1] = w[(j - i) - 1])
        BY <3>3
      <3> QED BY <3>1, <3>2, <3>4
    <2> HIDE DEF v
    <2>3. v = [j \in i + 1 .. Len(s) |-> v[j]]
      BY DEF v
    <2> QED BY <2>2, <2>3
  <1>6. f = D(f)
    BY <1>5
  <1>7. StringEnd(s, i) = IF Ends(s, i, f) = {} THEN i ELSE Min(Ends(s, i, f))
    BY DEF StringEnd, Ends
  <1> HIDE DEF f
  <1>8. Escapes(s, i, f)
    BY <1>6 DEF Escapes
  <1> QED BY <1>7, <1>8

(* A text that stands between quotes is found there.                       *)
LEMMA Between ==
  ASSUME NEW x \in Chars, NEW e \in Chars, NEW y \in Chars, NEW s, s = x \o Quoted(e) \o y
  PROVE  /\ s \in Chars /\ Len(x) \in Nat /\ Len(e) \in Nat /\ Len(s) \in Nat
         /\ Len(x) + Len(e) + 2 <= Len(s)
         /\ s[Len(x) + 1] = Quote /\ s[Len(x) + Len(e) + 2] = Quote
         /\ \A k \in 1 .. Len(e) : s[Len(x) + 1 + k] = e[k]
  <1>1. Quote \in Char
    BY CharAssumption
  <1>2. PICK q : q = <<Quote>>
    OBVIOUS
  <1>3. q \in Chars /\ Len(q) = 1 /\ q[1] = Quote
    BY <1>1, <1>2, Texts
  <1>4. PICK a : a = q \o e
    OBVIOUS
  <1>5. /\ a \in Chars /\ Len(a) = 1 + Len(e) /\ a[1] = Quote
        /\ \A k \in 1 .. Len(e) : a[1 + k] = e[k]
    <2>1. /\ Len(a) = Len(q) + Len(e)
          /\ \A k \in 1 .. Len(q) : a[k] = q[k]
          /\ \A k \in 1 .. Len(e) : a[Len(q) + k] = e[k]
      BY <1>3, <1>4, Parts
    <2> QED BY <1>3, <1>4, <2>1, Texts
  <1>6. PICK b : b = a \o q
    OBVIOUS
  <1>7. /\ b \in Chars /\ Len(b) = 2 + Len(e) /\ b[1] = Quote /\ b[2 + Len(e)] = Quote
        /\ \A k \in 1 .. Len(e) : b[1 + k] = e[k]
    <2>1. /\ Len(b) = Len(a) + Len(q)
          /\ \A k \in 1 .. Len(a) : b[k] = a[k]
          /\ \A k \in 1 .. Len(q) : b[Len(a) + k] = q[k]
      <3>1. a \in Chars /\ q \in Chars
        BY <1>3, <1>5
      <3>2. /\ Len(a \o q) = Len(a) + Len(q)
            /\ \A k \in 1 .. Len(a) : (a \o q)[k] = a[k]
            /\ \A k \in 1 .. Len(q) : (a \o q)[Len(a) + k] = q[k]
        BY ONLY <3>1, Parts
      <3> QED BY <1>6, <3>2
    <2>2. Len(e) \in Nat /\ b \in Chars
      BY <1>3, <1>5, <1>6, Texts
    <2>3. 1 \in 1 .. Len(q) /\ 1 \in 1 .. Len(a) /\ \A k \in 1 .. Len(e) : 1 + k \in 1 .. Len(a)
      BY <1>3, <1>5, <2>2
    <2>4. b[1] = Quote /\ b[Len(a) + 1] = Quote /\ \A k \in 1 .. Len(e) : b[1 + k] = e[k]
      BY <1>3, <1>5, <2>1, <2>3
    <2> QED BY <1>3, <1>5, <2>1, <2>2, <2>4
  <1>8. b = Quoted(e)
    BY <1>2, <1>4, <1>6 DEF Quoted
  <1>9. PICK c : c = x \o b
    OBVIOUS
  <1>10. /\ c \in Chars /\ Len(c) = Len(x) + Len(b) /\ Len(x) \in Nat /\ Len(e) \in Nat
         /\ \A k \in 1 .. Len(b) : c[Len(x) + k] = b[k]
    BY <1>7, <1>9, Parts, Texts
  <1>11. s = c \o y
    BY <1>8, <1>9
  <1>12. /\ s \in Chars /\ Len(s) = Len(c) + Len(y) /\ Len(y) \in Nat /\ Len(c) \in Nat
         /\ \A k \in 1 .. Len(c) : s[k] = c[k]
    <2>1. c \in Chars /\ y \in Chars
      BY <1>10
    <2>2. /\ c \o y \in Chars /\ Len(c \o y) = Len(c) + Len(y) /\ Len(y) \in Nat /\ Len(c) \in Nat
          /\ \A k \in 1 .. Len(c) : (c \o y)[k] = c[k]
      BY ONLY <2>1, Parts
    <2> QED BY <1>11, <2>2
  <1>13. \A k \in 1 .. Len(b) : Len(x) + k \in 1 .. Len(c)
    BY <1>7, <1>10
  <1>14. \A k \in 1 .. Len(b) : s[Len(x) + k] = b[k]
    BY <1>10, <1>12, <1>13
  <1>15. /\ 1 \in 1 .. Len(b) /\ 2 + Len(e) \in 1 .. Len(b)
         /\ \A k \in 1 .. Len(e) : 1 + k \in 1 .. Len(b)
    BY <1>7, <1>10
  <1>16. /\ s[Len(x) + 1] = Quote /\ s[Len(x) + (2 + Len(e))] = Quote
         /\ \A k \in 1 .. Len(e) : s[Len(x) + (1 + k)] = e[k]
    BY <1>7, <1>14, <1>15
  <1>17. /\ Len(x) + (2 + Len(e)) = Len(x) + Len(e) + 2
         /\ \A k \in 1 .. Len(e) : Len(x) + (1 + k) = Len(x) + 1 + k
    BY <1>10
  <1>18. Len(x) + Len(e) + 2 <= Len(s) /\ Len(s) \in Nat
    BY <1>7, <1>10, <1>12
  <1> QED BY <1>10, <1>12, <1>16, <1>17, <1>18

(* A string ends where its text ends: whatever is stored, and whatever     *)
(* stands before and after it, the search for the closing quote never      *)
(* stops at a quote of the text and never runs past its end                *)
(* (BaseJson.cpp 683-707).                                                 *)
THEOREM StoredEndsAtQuote ==
  \A t, x, y \in Chars :
    StringEnd(x \o Quoted(Stored(t, TRUE)) \o y, Len(x) + 1) = Len(x) + Len(Stored(t, TRUE)) + 2
  <1> SUFFICES ASSUME NEW t \in Chars, NEW x \in Chars, NEW y \in Chars
               PROVE  StringEnd(x \o Quoted(Encode(t)) \o y, Len(x) + 1) = Len(x) + Len(Encode(t)) + 2
    BY StoredIsEncoded
  <1>1. PICK n \in Nat : n = Len(t)
    BY Texts
  <1>2. PICK e \in Chars : e = Encode(t)
    BY EncodePlaces
  <1>3. PICK p \in [0 .. n -> Nat] :
          /\ p[0] = 0 /\ p[n] = Len(e)
          /\ \A i \in 1 .. n :
               /\ p[i] = p[i - 1] + Len(EncodeChar(t[i])) /\ p[i] <= Len(e)
               /\ \A k \in 1 .. Len(EncodeChar(t[i])) : e[p[i - 1] + k] = EncodeChar(t[i])[k]
    BY <1>1, <1>2, EncodePlaces
  <1>4. PICK s : s = x \o Quoted(e) \o y
    OBVIOUS
  <1>5. PICK b \in Nat : b = Len(x) + 1
    BY Texts
  <1>6. PICK l \in Nat : l = Len(e)
    BY Texts
  <1>7. /\ s \in Chars /\ Len(s) \in Nat /\ b + l + 1 <= Len(s) /\ b \in 1 .. Len(s)
        /\ s[b + l + 1] = Quote /\ \A k \in 1 .. l : s[b + k] = e[k]
    <2>1. /\ s \in Chars /\ Len(x) \in Nat /\ Len(e) \in Nat /\ Len(s) \in Nat
          /\ Len(x) + Len(e) + 2 <= Len(s)
          /\ s[Len(x) + Len(e) + 2] = Quote
          /\ \A k \in 1 .. Len(e) : s[Len(x) + 1 + k] = e[k]
      BY <1>4, Between
    <2>2. Len(x) + Len(e) + 2 = b + l + 1
      BY <1>5, <1>6, <2>1
    <2> QED BY <1>5, <1>6, <2>1, <2>2
  <1>20. PICK z : /\ Escapes(s, b, z)
                  /\ StringEnd(s, b) = IF Ends(s, b, z) = {} THEN b ELSE Min(Ends(s, b, z))
    BY <1>7, StringEndIs
  <1>8. \A j \in b + 1 .. Len(s) : z[j] = (j > b + 1 /\ s[j - 1] = Backslash /\ ~z[j - 1])
    BY <1>20 DEF Escapes
  <1> DEFINE IsEnd(j) == s[j] = Quote /\ ~z[j]
             P == {i \in Nat : i <= n => /\ ~z[b + 1 + p[i]]
                                         /\ \A j \in b + 1 .. b + p[i] : ~IsEnd(j)}
  <1>9. 0 \in P
    <2>1. b + 1 \in b + 1 .. Len(s) /\ ~(b + 1 > b + 1)
      BY <1>7
    <2>2. ~z[b + 1]
      BY <1>8, <2>1
    <2> QED BY <1>3, <2>2
  <1>10. ASSUME NEW i \in Nat, i < n, i \in P PROVE i + 1 \in P
    <2> DEFINE c == t[i + 1]
    <2>1. PICK k \in Nat : k = p[i]
      BY <1>10
    <2>2. /\ i + 1 \in 1 .. n /\ (i + 1) - 1 = i
          /\ ~z[b + 1 + k] /\ \A j \in b + 1 .. b + k : ~IsEnd(j)
      BY <1>10, <2>1
    <2>3. /\ p[i + 1] = k + Len(EncodeChar(c)) /\ p[i + 1] <= l
          /\ \A j \in 1 .. Len(EncodeChar(c)) : e[k + j] = EncodeChar(c)[j]
      BY <1>3, <1>6, <2>1, <2>2
    <2>4. c \in Char
      BY <1>1, <1>10, OneMore
    <2>5. Quote # Backslash
      BY DEF Quote, Backslash
    <2> HIDE DEF c, P
    <2>6. CASE c \notin Special
      <3>1. EncodeChar(c) = <<c>> /\ Len(<<c>>) = 1 /\ <<c>>[1] = c /\ c # Backslash /\ c # Quote
        BY <2>4, <2>6, EncodedChar DEF Special
      <3>2. p[i + 1] = k + 1 /\ k + 1 \in 1 .. l /\ e[k + 1] = c
        BY <2>3, <3>1
      <3>3. s[b + (k + 1)] = c
        BY <1>7, <3>2
      <3>4. b + 1 + (k + 1) \in b + 1 .. Len(s) /\ (b + 1 + (k + 1)) - 1 = b + (k + 1)
        BY <1>7, <3>2
      <3>5. ~z[b + 1 + (k + 1)]
        BY <1>8, <3>1, <3>3, <3>4
      <3>6. ~IsEnd(b + (k + 1))
        BY <3>1, <3>3
      <3>7. \A j \in b + 1 .. b + (k + 1) : j \in b + 1 .. b + k \/ j = b + (k + 1)
        OBVIOUS
      <3>8. \A j \in b + 1 .. b + (k + 1) : ~IsEnd(j)
        BY <2>2, <3>6, <3>7
      <3> QED BY <3>2, <3>5, <3>8 DEF P
    <2>7. CASE c \in Special
      <3>1. PICK h \in Char : EncodeChar(c) = <<Backslash, h>>
        BY <2>4, <2>7, EncodedChar
      <3>2. Len(EncodeChar(c)) = 2 /\ EncodeChar(c)[1] = Backslash
        BY <3>1
      <3>3. p[i + 1] = k + 2 /\ k + 1 \in 1 .. l /\ k + 2 \in 1 .. l /\ e[k + 1] = Backslash
        BY <2>3, <3>2
      <3>4. s[b + (k + 1)] = Backslash
        BY <1>7, <3>3
      <3>5. /\ b + (k + 2) \in b + 1 .. Len(s) /\ (b + (k + 2)) - 1 = b + (k + 1)
            /\ b + (k + 2) > b + 1 /\ b + (k + 1) = b + 1 + k
            /\ b + 1 + (k + 2) \in b + 1 .. Len(s) /\ (b + 1 + (k + 2)) - 1 = b + (k + 2)
        BY <1>7, <3>3
      <3>6. z[b + (k + 2)]
        BY <1>8, <2>2, <3>4, <3>5
      <3>7. ~z[b + 1 + (k + 2)]
        BY <1>8, <3>5, <3>6
      <3>8. ~IsEnd(b + (k + 1)) /\ ~IsEnd(b + (k + 2))
        BY <2>5, <3>4, <3>6
      <3>9. \A j \in b + 1 .. b + (k + 2) :
              j \in b + 1 .. b + k \/ j = b + (k + 1) \/ j = b + (k + 2)
        OBVIOUS
      <3>10. \A j \in b + 1 .. b + (k + 2) : ~IsEnd(j)
        BY <2>2, <3>8, <3>9
      <3>11. ~z[b + 1 + p[i + 1]] /\ \A j \in b + 1 .. b + p[i + 1] : ~IsEnd(j)
        BY <3>3, <3>7, <3>10
      <3> QED BY <3>11 DEF P
    <2> QED BY <2>6, <2>7
  <1>11. n \in P
    <2> HIDE DEF P
    <2>1. 0 .. n \subseteq P
      BY ONLY n \in Nat, <1>9, <1>10, UpTo
    <2> QED BY <2>1
  <1>12. ~z[b + 1 + l] /\ \A j \in b + 1 .. b + l : ~IsEnd(j)
    <2> HIDE DEF IsEnd
    <2>1. ~z[b + 1 + p[n]] /\ \A j \in b + 1 .. b + p[n] : ~IsEnd(j)
      BY ONLY n \in Nat, <1>11 DEF P
    <2>2. p[n] = l
      BY <1>3, <1>6
    <2> QED BY ONLY <2>1, <2>2
  <1>13. b + l + 1 \in Ends(s, b, z) /\ \A j \in Ends(s, b, z) : b + l + 1 <= j
    <2>1. b + l + 1 = b + 1 + l /\ b + l + 1 \in b + 1 .. Len(s)
      BY <1>7
    <2>2. \A j \in b + 1 .. Len(s) : j \in b + 1 .. b + l \/ b + l + 1 <= j
      BY <1>7
    <2> QED BY <1>7, <1>12, <2>1, <2>2 DEF Ends
  <1>14. Ends(s, b, z) \subseteq Int
    BY <1>7 DEF Ends
  <1>16. Min(Ends(s, b, z)) = b + l + 1
    <2>1. PICK m : m = Min(Ends(s, b, z))
      OBVIOUS
    <2>2. m \in Ends(s, b, z) /\ \A j \in Ends(s, b, z) : m <= j
      BY <1>13, <2>1 DEF Min
    <2>3. m <= b + l + 1 /\ b + l + 1 <= m /\ m \in Int
      BY <1>13, <1>14, <2>2
    <2> QED BY <2>1, <2>3
  <1>17. b + l + 1 = Len(x) + Len(e) + 2
    BY <1>5, <1>6, Texts
  <1> QED BY <1>2, <1>4, <1>5, <1>13, <1>16, <1>17, <1>20

-----------------------------------------------------------------------------
(* Writing.                                                                *)

(* The values of each level.                                               *)
LEMMA DocIs ==
  /\ Doc[0] = {}
  /\ \A d \in 1 .. MaxDepth : Doc[d] = {v \in [type : Type, val : Chars, keys : Seq(Chars), kids : Seq(Doc[d - 1])] :
          v.type = "OBJECT" => Len(v.keys) = Len(v.kids)}
  <1> DEFINE Step(d, x) == {v \in [type : Type, val : Chars, keys : Seq(Chars), kids : Seq(x)] :
          v.type = "OBJECT" => Len(v.keys) = Len(v.kids)}
             Is(m, f) == f = [d \in 0 .. m |-> IF d = 0 THEN {} ELSE Step(d, f[d - 1])]
             P == {m \in Nat : m <= MaxDepth => \E f : Is(m, f)}
  <1>1. Doc = CHOOSE f : Is(MaxDepth, f)
    BY DEF Doc
  <1> HIDE DEF Step
  <1>2. 0 \in P
    <2>1. Is(0, [d \in 0 .. 0 |-> {}])
      OBVIOUS
    <2> QED BY <2>1
  <1>3. ASSUME NEW m \in Nat, m < MaxDepth, m \in P PROVE m + 1 \in P
    <2>1. PICK f : Is(m, f)
      BY <1>3, DepthAssumption
    <2> DEFINE h == [d \in 0 .. m + 1 |-> IF d = m + 1 THEN Step(m + 1, f[m]) ELSE f[d]]
    <2>2. h[m + 1] = Step(m + 1, f[m]) /\ \A d \in 0 .. m : h[d] = f[d]
      OBVIOUS
    <2>3. ASSUME NEW d \in 0 .. m + 1
          PROVE  h[d] = IF d = 0 THEN {} ELSE Step(d, h[d - 1])
      <3> HIDE DEF h
      <3>1. CASE d = m + 1
        <4>1. d # 0 /\ d - 1 = m /\ h[m] = f[m]
          BY <2>2, <3>1
        <4> QED BY <2>2, <3>1, <4>1
      <3>2. CASE d \in 0 .. m
        <4>1. f[d] = IF d = 0 THEN {} ELSE Step(d, f[d - 1])
          BY <2>1, <3>2
        <4>2. h[d] = f[d] /\ (d # 0 => h[d - 1] = f[d - 1])
          BY <2>2, <3>2
        <4> QED BY <4>1, <4>2
      <3> QED BY <3>1, <3>2
    <2>4. h = [d \in 0 .. m + 1 |-> h[d]]
      OBVIOUS
    <2> HIDE DEF h
    <2>5. Is(m + 1, h)
      BY <2>3, <2>4
    <2> QED BY <2>5
  <1>4. \E f : Is(MaxDepth, f)
    <2> HIDE DEF P
    <2>1. 0 .. MaxDepth \subseteq P
      BY ONLY DepthAssumption, <1>2, <1>3, UpTo
    <2>2. MaxDepth \in P
      BY <2>1, DepthAssumption
    <2> QED BY <2>2, DepthAssumption DEF P
  <1>5. Is(MaxDepth, Doc)
    BY <1>1, <1>4
  <1>6. Doc[0] = {} /\ \A d \in 1 .. MaxDepth : Doc[d] = Step(d, Doc[d - 1])
    BY <1>5, DepthAssumption
  <1> QED BY <1>6 DEF Step

(* The texts of the values of each level.                                  *)
LEMMA WrittenIs ==
  /\ Written[0] = <<>>
  /\ \A d \in 1 .. MaxDepth : Written[d] = [v \in Doc[d] |->
          CASE v.type = "OBJECT" ->
                 <<"{">> \o Joined([i \in 1 .. Len(v.kids) |->
                   Quoted(v.keys[i]) \o <<":">> \o Written[d - 1][v.kids[i]]]) \o <<"}">>
            [] v.type = "ARRAY" ->
                 <<"[">> \o Joined([i \in 1 .. Len(v.kids) |-> Written[d - 1][v.kids[i]]]) \o <<"]">>
            [] v.type = "STRING" -> Quoted(v.val)
            [] v.type = "MAX" -> <<>>
            [] OTHER -> v.val]
  <1> DEFINE Step(d, x) == [v \in Doc[d] |->
          CASE v.type = "OBJECT" ->
                 <<"{">> \o Joined([i \in 1 .. Len(v.kids) |->
                   Quoted(v.keys[i]) \o <<":">> \o x[v.kids[i]]]) \o <<"}">>
            [] v.type = "ARRAY" ->
                 <<"[">> \o Joined([i \in 1 .. Len(v.kids) |-> x[v.kids[i]]]) \o <<"]">>
            [] v.type = "STRING" -> Quoted(v.val)
            [] v.type = "MAX" -> <<>>
            [] OTHER -> v.val]
             Is(m, f) == f = [d \in 0 .. m |-> IF d = 0 THEN <<>> ELSE Step(d, f[d - 1])]
             P == {m \in Nat : m <= MaxDepth => \E f : Is(m, f)}
  <1>1. Written = CHOOSE f : Is(MaxDepth, f)
    BY DEF Written
  <1> HIDE DEF Step
  <1>2. 0 \in P
    <2>1. Is(0, [d \in 0 .. 0 |-> <<>>])
      OBVIOUS
    <2> QED BY <2>1
  <1>3. ASSUME NEW m \in Nat, m < MaxDepth, m \in P PROVE m + 1 \in P
    <2>1. PICK f : Is(m, f)
      BY <1>3, DepthAssumption
    <2> DEFINE h == [d \in 0 .. m + 1 |-> IF d = m + 1 THEN Step(m + 1, f[m]) ELSE f[d]]
    <2>2. h[m + 1] = Step(m + 1, f[m]) /\ \A d \in 0 .. m : h[d] = f[d]
      OBVIOUS
    <2>3. ASSUME NEW d \in 0 .. m + 1
          PROVE  h[d] = IF d = 0 THEN <<>> ELSE Step(d, h[d - 1])
      <3> HIDE DEF h
      <3>1. CASE d = m + 1
        <4>1. d # 0 /\ d - 1 = m /\ h[m] = f[m]
          BY <2>2, <3>1
        <4> QED BY <2>2, <3>1, <4>1
      <3>2. CASE d \in 0 .. m
        <4>1. f[d] = IF d = 0 THEN <<>> ELSE Step(d, f[d - 1])
          BY <2>1, <3>2
        <4>2. h[d] = f[d] /\ (d # 0 => h[d - 1] = f[d - 1])
          BY <2>2, <3>2
        <4> QED BY <4>1, <4>2
      <3> QED BY <3>1, <3>2
    <2>4. h = [d \in 0 .. m + 1 |-> h[d]]
      OBVIOUS
    <2> HIDE DEF h
    <2>5. Is(m + 1, h)
      BY <2>3, <2>4
    <2> QED BY <2>5
  <1>4. \E f : Is(MaxDepth, f)
    <2> HIDE DEF P
    <2>1. 0 .. MaxDepth \subseteq P
      BY ONLY DepthAssumption, <1>2, <1>3, UpTo
    <2>2. MaxDepth \in P
      BY <2>1, DepthAssumption
    <2> QED BY <2>2, DepthAssumption DEF P
  <1>5. Is(MaxDepth, Written)
    BY <1>1, <1>4
  <1>6. Written[0] = <<>> /\ \A d \in 1 .. MaxDepth : Written[d] = Step(d, Written[d - 1])
    BY <1>5, DepthAssumption
  <1> QED BY <1>6 DEF Step

(* Their lengths.                                                          *)
LEMMA MeasuredIs ==
  /\ Measured[0] = <<>>
  /\ \A d \in 1 .. MaxDepth : Measured[d] = [v \in Doc[d] |->
          CASE v.type = "OBJECT" ->
                 LenJoined([i \in 1 .. Len(v.kids) |->
                   3 + Len(v.keys[i]) + Measured[d - 1][v.kids[i]]]) + 2
            [] v.type = "ARRAY" ->
                 LenJoined([i \in 1 .. Len(v.kids) |-> Measured[d - 1][v.kids[i]]]) + 2
            [] v.type = "STRING" -> Len(v.val) + 2
            [] v.type = "MAX" -> 0
            [] OTHER -> Len(v.val)]
  <1> DEFINE Step(d, x) == [v \in Doc[d] |->
          CASE v.type = "OBJECT" ->
                 LenJoined([i \in 1 .. Len(v.kids) |->
                   3 + Len(v.keys[i]) + x[v.kids[i]]]) + 2
            [] v.type = "ARRAY" ->
                 LenJoined([i \in 1 .. Len(v.kids) |-> x[v.kids[i]]]) + 2
            [] v.type = "STRING" -> Len(v.val) + 2
            [] v.type = "MAX" -> 0
            [] OTHER -> Len(v.val)]
             Is(m, f) == f = [d \in 0 .. m |-> IF d = 0 THEN <<>> ELSE Step(d, f[d - 1])]
             P == {m \in Nat : m <= MaxDepth => \E f : Is(m, f)}
  <1>1. Measured = CHOOSE f : Is(MaxDepth, f)
    BY DEF Measured
  <1> HIDE DEF Step
  <1>2. 0 \in P
    <2>1. Is(0, [d \in 0 .. 0 |-> <<>>])
      OBVIOUS
    <2> QED BY <2>1
  <1>3. ASSUME NEW m \in Nat, m < MaxDepth, m \in P PROVE m + 1 \in P
    <2>1. PICK f : Is(m, f)
      BY <1>3, DepthAssumption
    <2> DEFINE h == [d \in 0 .. m + 1 |-> IF d = m + 1 THEN Step(m + 1, f[m]) ELSE f[d]]
    <2>2. h[m + 1] = Step(m + 1, f[m]) /\ \A d \in 0 .. m : h[d] = f[d]
      OBVIOUS
    <2>3. ASSUME NEW d \in 0 .. m + 1
          PROVE  h[d] = IF d = 0 THEN <<>> ELSE Step(d, h[d - 1])
      <3> HIDE DEF h
      <3>1. CASE d = m + 1
        <4>1. d # 0 /\ d - 1 = m /\ h[m] = f[m]
          BY <2>2, <3>1
        <4> QED BY <2>2, <3>1, <4>1
      <3>2. CASE d \in 0 .. m
        <4>1. f[d] = IF d = 0 THEN <<>> ELSE Step(d, f[d - 1])
          BY <2>1, <3>2
        <4>2. h[d] = f[d] /\ (d # 0 => h[d - 1] = f[d - 1])
          BY <2>2, <3>2
        <4> QED BY <4>1, <4>2
      <3> QED BY <3>1, <3>2
    <2>4. h = [d \in 0 .. m + 1 |-> h[d]]
      OBVIOUS
    <2> HIDE DEF h
    <2>5. Is(m + 1, h)
      BY <2>3, <2>4
    <2> QED BY <2>5
  <1>4. \E f : Is(MaxDepth, f)
    <2> HIDE DEF P
    <2>1. 0 .. MaxDepth \subseteq P
      BY ONLY DepthAssumption, <1>2, <1>3, UpTo
    <2>2. MaxDepth \in P
      BY <2>1, DepthAssumption
    <2> QED BY <2>2, DepthAssumption DEF P
  <1>5. Is(MaxDepth, Measured)
    BY <1>1, <1>4
  <1>6. Measured[0] = <<>> /\ \A d \in 1 .. MaxDepth : Measured[d] = Step(d, Measured[d - 1])
    BY <1>5, DepthAssumption
  <1> QED BY <1>6 DEF Step

(* Joined texts are as long as is counted from their lengths.              *)
LEMMA JoinedLen ==
  ASSUME NEW texts \in Seq(Chars), NEW lens \in Seq(Nat), Len(texts) = Len(lens),
         \A i \in 1 .. Len(texts) : Len(texts[i]) = lens[i]
  PROVE  /\ Joined(texts) \in Chars
         /\ LenJoined(lens) \in Nat
         /\ Len(Joined(texts)) = LenJoined(lens)
  <1>1. PICK n \in Nat : n = Len(texts) /\ n = Len(lens)
    OBVIOUS
  <1>2. PICK u \in [0 .. n -> Chars] :
          /\ u[0] = <<>>
          /\ \A i \in 1 .. n : u[i] = u[i - 1] \o (IF i > 1 THEN <<",">> ELSE <<>>) \o texts[i]
          /\ Joined(texts) = u[n]
    BY <1>1, JoinedIs
  <1>3. PICK z \in [0 .. n -> Nat] :
          /\ z[0] = 0
          /\ \A i \in 1 .. n : z[i] = z[i - 1] + (IF i > 1 THEN 1 ELSE 0) + lens[i]
          /\ LenJoined(lens) = z[n]
    BY <1>1, LenJoinedIs
  <1> DEFINE P == {i \in Nat : i <= n => Len(u[i]) = z[i]}
  <1>4. 0 \in P
    <2>1. u[0] = <<>> /\ z[0] = 0 /\ Len(<<>>) = 0
      BY <1>2, <1>3
    <2> QED BY <2>1
  <1>5. ASSUME NEW i \in Nat, i < n, i \in P PROVE i + 1 \in P
    <2>1. i + 1 \in 1 .. n /\ (i + 1) - 1 = i /\ i \in 0 .. n /\ i + 1 \in 0 .. n /\ Len(u[i]) = z[i]
      BY <1>5
    <2> DEFINE comma == IF i + 1 > 1 THEN <<",">> ELSE <<>>
               one   == IF i + 1 > 1 THEN 1 ELSE 0
    <2>2. comma \in Chars /\ Len(comma) = one /\ one \in Nat
      <3>1. "," \in Char
        BY CharAssumption
      <3>2. <<",">> \in Chars /\ Len(<<",">>) = 1 /\ <<>> \in Chars /\ Len(<<>>) = 0
        BY <3>1, Texts
      <3>3. CASE i + 1 > 1
        <4>1. comma = <<",">> /\ one = 1
          BY <3>3
        <4> QED BY ONLY <3>2, <4>1
      <3>4. CASE ~(i + 1 > 1)
        <4>1. comma = <<>> /\ one = 0
          BY <3>4
        <4> QED BY ONLY <3>2, <4>1
      <3> QED BY <3>3, <3>4
    <2>3. u[i + 1] = u[i] \o comma \o texts[i + 1]
      BY <1>2, <2>1
    <2>4. z[i + 1] = z[i] + one + lens[i + 1]
      BY <1>3, <2>1
    <2> HIDE DEF P, comma, one
    <2>5. u[i] \in Chars /\ texts[i + 1] \in Chars /\ lens[i + 1] \in Nat /\ z[i] \in Nat
          /\ Len(texts[i + 1]) = lens[i + 1]
      <3>1. u[i] \in Chars /\ z[i] \in Nat
        BY <2>1
      <3>2. texts[i + 1] \in Chars /\ lens[i + 1] \in Nat
        BY <1>1, <2>1
      <3>3. Len(texts[i + 1]) = lens[i + 1]
        BY <1>1, <2>1
      <3> QED BY <3>1, <3>2, <3>3
    <2>6. u[i] \o comma \in Chars /\ Len(u[i] \o comma) = z[i] + one
      BY ONLY <2>1, <2>2, <2>5, Texts
    <2>7. Len(u[i] \o comma \o texts[i + 1]) = z[i] + one + lens[i + 1]
      BY ONLY <2>6, <2>5, Texts
    <2>8. Len(u[i + 1]) = z[i + 1]
      BY ONLY <2>3, <2>4, <2>7
    <2> QED BY <2>8 DEF P
  <1> HIDE DEF P
  <1>6. n \in P
    <2>1. 0 .. n \subseteq P
      BY ONLY n \in Nat, <1>4, <1>5, UpTo
    <2> QED BY <2>1
  <1>7. Len(u[n]) = z[n] /\ u[n] \in Chars /\ z[n] \in Nat
    BY <1>6 DEF P
  <1> QED BY <1>2, <1>3, <1>7

(* A level whose values are written into as much as is measured for them.  *)
Fitting(d) ==
  \A v \in Doc[d] : /\ Written[d][v] \in Chars
                    /\ Measured[d][v] \in Nat
                    /\ Len(Written[d][v]) = Measured[d][v]

(* A text in quotes has two more characters.                               *)
LEMMA QuotedLen ==
  ASSUME NEW t \in Chars
  PROVE  Quoted(t) \in Chars /\ Len(Quoted(t)) = Len(t) + 2
  <1>1. Quote \in Char
    BY CharAssumption
  <1>2. <<Quote>> \in Chars /\ Len(<<Quote>>) = 1 /\ Len(t) \in Nat
    BY <1>1, Texts
  <1>3. <<Quote>> \o t \in Chars /\ Len(<<Quote>> \o t) = 1 + Len(t)
    BY ONLY <1>2, Texts, t \in Chars
  <1>4. <<Quote>> \o t \o <<Quote>> \in Chars /\ Len(<<Quote>> \o t \o <<Quote>>) = 1 + Len(t) + 1
    BY ONLY <1>2, <1>3, Texts
  <1> QED BY <1>2, <1>4 DEF Quoted

(* So do the brackets around a text.                                       *)
LEMMA Bracketed ==
  ASSUME NEW t \in Chars, NEW a \in Char, NEW b \in Char
  PROVE  <<a>> \o t \o <<b>> \in Chars /\ Len(<<a>> \o t \o <<b>>) = Len(t) + 2
  <1>1. <<a>> \in Chars /\ Len(<<a>>) = 1 /\ <<b>> \in Chars /\ Len(<<b>>) = 1 /\ Len(t) \in Nat
    BY Texts
  <1>2. <<a>> \o t \in Chars /\ Len(<<a>> \o t) = 1 + Len(t)
    BY ONLY <1>1, Texts, t \in Chars
  <1>3. <<a>> \o t \o <<b>> \in Chars /\ Len(<<a>> \o t \o <<b>>) = 1 + Len(t) + 1
    BY ONLY <1>1, <1>2, Texts
  <1> QED BY <1>1, <1>3

(* A level fits when the level inside does.                                *)
LEMMA NextLevelFits ==
  ASSUME NEW d \in 1 .. MaxDepth, Fitting(d - 1)
  PROVE  Fitting(d)
  <1>1. PICK e \in 0 .. MaxDepth : e = d - 1
    BY DepthAssumption
  <1> DEFINE W == Written[e]
             M == Measured[e]
             D == Doc[e]
  <1>2. \A v \in D : W[v] \in Chars /\ M[v] \in Nat /\ Len(W[v]) = M[v]
    BY <1>1 DEF Fitting
  <1>3. Doc[d] = {v \in [type : Type, val : Chars, keys : Seq(Chars), kids : Seq(D)] :
          v.type = "OBJECT" => Len(v.keys) = Len(v.kids)}
    BY <1>1, DocIs
  <1>4. Written[d] = [v \in Doc[d] |->
          CASE v.type = "OBJECT" ->
                 <<"{">> \o Joined([i \in 1 .. Len(v.kids) |->
                   Quoted(v.keys[i]) \o <<":">> \o W[v.kids[i]]]) \o <<"}">>
            [] v.type = "ARRAY" ->
                 <<"[">> \o Joined([i \in 1 .. Len(v.kids) |-> W[v.kids[i]]]) \o <<"]">>
            [] v.type = "STRING" -> Quoted(v.val)
            [] v.type = "MAX" -> <<>>
            [] OTHER -> v.val]
    BY <1>1, WrittenIs, ZenonT(30)
  <1>5. Measured[d] = [v \in Doc[d] |->
          CASE v.type = "OBJECT" ->
                 LenJoined([i \in 1 .. Len(v.kids) |->
                   3 + Len(v.keys[i]) + M[v.kids[i]]]) + 2
            [] v.type = "ARRAY" ->
                 LenJoined([i \in 1 .. Len(v.kids) |-> M[v.kids[i]]]) + 2
            [] v.type = "STRING" -> Len(v.val) + 2
            [] v.type = "MAX" -> 0
            [] OTHER -> Len(v.val)]
    BY <1>1, MeasuredIs, ZenonT(30)
  <1> HIDE DEF W, M, D
  <1>6. SUFFICES ASSUME NEW v \in Doc[d]
        PROVE  /\ Written[d][v] \in Chars
               /\ Measured[d][v] \in Nat
               /\ Len(Written[d][v]) = Measured[d][v]
    BY DEF Fitting
  <1>7. /\ v.type \in Type /\ v.val \in Chars /\ v.keys \in Seq(Chars) /\ v.kids \in Seq(D)
        /\ v.type = "OBJECT" => Len(v.keys) = Len(v.kids)
    BY <1>3
  <1>8. PICK n \in Nat : n = Len(v.kids)
    BY <1>7
  <1>9. \A i \in 1 .. n : v.kids[i] \in D
    BY <1>7, <1>8
  <1>10. {",", ":", "{", "}", "[", "]"} \subseteq Char
    BY CharAssumption
  <1>11. CASE v.type = "OBJECT"
    <2> DEFINE T == [i \in 1 .. n |-> Quoted(v.keys[i]) \o <<":">> \o W[v.kids[i]]]
               L == [i \in 1 .. n |-> 3 + Len(v.keys[i]) + M[v.kids[i]]]
    <2>1. Written[d][v] = <<"{">> \o Joined(T) \o <<"}">>
      BY <1>4, <1>8, <1>11
    <2>2. Measured[d][v] = LenJoined(L) + 2
      BY <1>5, <1>8, <1>11
    <2>3. ASSUME NEW i \in 1 .. n
          PROVE  /\ Quoted(v.keys[i]) \o <<":">> \o W[v.kids[i]] \in Chars
                 /\ 3 + Len(v.keys[i]) + M[v.kids[i]] \in Nat
                 /\ Len(Quoted(v.keys[i]) \o <<":">> \o W[v.kids[i]])
                      = 3 + Len(v.keys[i]) + M[v.kids[i]]
      <3>1. PICK k \in Chars : k = v.keys[i]
        BY <1>7, <1>8, <1>11
      <3>2. PICK w \in Chars : w = W[v.kids[i]]
        BY <1>2, <1>9
      <3>3. PICK m \in Nat : m = M[v.kids[i]] /\ Len(w) = m
        BY <1>2, <1>9, <3>2
      <3>4. Quoted(k) \in Chars /\ Len(Quoted(k)) = Len(k) + 2 /\ Len(k) \in Nat
        BY ONLY k \in Chars, QuotedLen, Texts
      <3>5. <<":">> \in Chars /\ Len(<<":">>) = 1
        BY <1>10, Texts
      <3>6. Quoted(k) \o <<":">> \in Chars /\ Len(Quoted(k) \o <<":">>) = Len(k) + 2 + 1
        BY ONLY <3>4, <3>5, Texts
      <3>7. /\ Quoted(k) \o <<":">> \o w \in Chars
            /\ Len(Quoted(k) \o <<":">> \o w) = Len(k) + 2 + 1 + m
        BY ONLY <3>3, <3>6, Texts, w \in Chars
      <3>8. /\ Quoted(v.keys[i]) \o <<":">> \o W[v.kids[i]] = Quoted(k) \o <<":">> \o w
            /\ 3 + Len(v.keys[i]) + M[v.kids[i]] = 3 + Len(k) + m
        BY ONLY <3>1, <3>2, <3>3, Zenon
      <3>9. 3 + Len(k) + m \in Nat /\ 3 + Len(k) + m = Len(k) + 2 + 1 + m
        BY ONLY <3>4, m \in Nat
      <3> QED BY ONLY <3>7, <3>8, <3>9, Zenon
    <2>4. T \in [1 .. n -> Chars] /\ L \in [1 .. n -> Nat]
      BY ONLY <2>3, Zenon
    <2>6. \A i \in 1 .. n : Len(T[i]) = L[i]
      BY ONLY <2>3, Zenon
    <2> HIDE DEF T, L
    <2>5. T \in Seq(Chars) /\ Len(T) = n /\ L \in Seq(Nat) /\ Len(L) = n
      BY ONLY <2>4, n \in Nat
    <2>7. Joined(T) \in Chars /\ LenJoined(L) \in Nat /\ Len(Joined(T)) = LenJoined(L)
      BY ONLY <2>5, <2>6, JoinedLen
    <2>8. /\ <<"{">> \o Joined(T) \o <<"}">> \in Chars
          /\ Len(<<"{">> \o Joined(T) \o <<"}">>) = Len(Joined(T)) + 2
      BY ONLY <1>10, <2>7, Bracketed
    <2>9. LenJoined(L) + 2 \in Nat
      BY ONLY <2>7
    <2> QED BY ONLY <2>1, <2>2, <2>7, <2>8, <2>9, Zenon
  <1>12. CASE v.type = "ARRAY"
    <2> DEFINE T == [i \in 1 .. n |-> W[v.kids[i]]]
               L == [i \in 1 .. n |-> M[v.kids[i]]]
    <2>1. Written[d][v] = <<"[">> \o Joined(T) \o <<"]">>
      BY <1>4, <1>8, <1>12
    <2>2. Measured[d][v] = LenJoined(L) + 2
      BY <1>5, <1>8, <1>12
    <2>4. T \in [1 .. n -> Chars] /\ L \in [1 .. n -> Nat]
      BY <1>2, <1>9
    <2>6. \A i \in 1 .. n : Len(T[i]) = L[i]
      BY <1>2, <1>9
    <2> HIDE DEF T, L
    <2>5. T \in Seq(Chars) /\ Len(T) = n /\ L \in Seq(Nat) /\ Len(L) = n
      BY ONLY <2>4, n \in Nat
    <2>7. Joined(T) \in Chars /\ LenJoined(L) \in Nat /\ Len(Joined(T)) = LenJoined(L)
      BY ONLY <2>5, <2>6, JoinedLen
    <2>8. /\ <<"[">> \o Joined(T) \o <<"]">> \in Chars
          /\ Len(<<"[">> \o Joined(T) \o <<"]">>) = Len(Joined(T)) + 2
      BY ONLY <1>10, <2>7, Bracketed
    <2>9. LenJoined(L) + 2 \in Nat
      BY ONLY <2>7
    <2> QED BY ONLY <2>1, <2>2, <2>7, <2>8, <2>9, Zenon
  <1>13. CASE v.type = "STRING"
    <2>1. Written[d][v] = Quoted(v.val) /\ Measured[d][v] = Len(v.val) + 2
      BY <1>4, <1>5, <1>13
    <2>2. Quoted(v.val) \in Chars /\ Len(Quoted(v.val)) = Len(v.val) + 2 /\ Len(v.val) \in Nat
      BY <1>7, QuotedLen, Texts
    <2> QED BY ONLY <2>1, <2>2
  <1>14. CASE v.type = "MAX"
    <2>1. Written[d][v] = <<>> /\ Measured[d][v] = 0
      BY <1>4, <1>5, <1>14
    <2> QED BY <2>1, Texts
  <1>15. CASE v.type \notin {"OBJECT", "ARRAY", "STRING", "MAX"}
    <2>1. Written[d][v] = v.val /\ Measured[d][v] = Len(v.val)
      BY <1>4, <1>5, <1>15
    <2> QED BY <1>7, <2>1, Texts
  <1> QED BY <1>11, <1>12, <1>13, <1>14, <1>15

(* c_str writes exactly as many characters as getStrLen measured for the   *)
(* buffer it writes them to, for every document of every depth             *)
(* (BaseJson.cpp 1032-1160).                                               *)
THEOREM WritingFits == \A v \in Doc[MaxDepth] : Len(CStr(v)) = GetStrLen(v)
  <1> DEFINE P == {d \in Nat : d <= MaxDepth => Fitting(d)}
  <1>1. 0 \in P
    BY DocIs DEF Fitting
  <1>2. ASSUME NEW d \in Nat, d < MaxDepth, d \in P PROVE d + 1 \in P
    <2>1. d + 1 \in 1 .. MaxDepth /\ (d + 1) - 1 = d /\ Fitting(d)
      BY <1>2, DepthAssumption
    <2>2. Fitting(d + 1)
      BY <2>1, NextLevelFits
    <2> QED BY <2>2
  <1> HIDE DEF P
  <1>3. 0 .. MaxDepth \subseteq P
    BY ONLY DepthAssumption, <1>1, <1>2, UpTo
  <1>4. Fitting(MaxDepth)
    BY <1>3, DepthAssumption DEF P
  <1> QED BY <1>4 DEF Fitting, CStr, GetStrLen

-----------------------------------------------------------------------------
(* Reading: computing from the right, where a token ends.                  *)

(* Each function of G looks at what is behind its place only, and those    *)
(* behind n at nothing.                                                    *)
LooksBehind(S, n, G) ==
  \A i \in Nat : \A f, h \in [Nat -> S] :
    i > n \/ (\A j \in Nat : j > i => f[j] = h[j]) => G[i][f] = G[i][h]

(* f holds what they compute.                                              *)
IsRightFold(S, G, f) == f \in [Nat -> S] /\ \A i \in Nat : f[i] = G[i][f]

(* What is computed from the right exists: a function each of whose values *)
(* depends on the values behind it only.                                   *)
LEMMA FromTheRight ==
  ASSUME NEW S, NEW n \in Nat, NEW G \in [Nat -> [[Nat -> S] -> S]], NEW f0 \in [Nat -> S],
         LooksBehind(S, n, G)
  PROVE  \E f : IsRightFold(S, G, f)
  <1> DEFINE P == {m \in Nat : \E f \in [Nat -> S] : \A i \in Nat : i + m > n => f[i] = G[i][f]}
  <1>1. 0 \in P
    <2> DEFINE f == [i \in Nat |-> G[i][f0]]
    <2>1. f \in [Nat -> S]
      OBVIOUS
    <2>2. \A i \in Nat : f[i] = G[i][f0]
      OBVIOUS
    <2> HIDE DEF f
    <2>3. \A i \in Nat : i + 0 > n => f[i] = G[i][f]
      <3> SUFFICES ASSUME NEW i \in Nat, i > n PROVE f[i] = G[i][f]
        OBVIOUS
      <3>1. G[i][f0] = G[i][f]
        BY <2>1 DEF LooksBehind
      <3> QED BY <2>2, <3>1
    <2> QED BY <2>1, <2>3
  <1>2. ASSUME NEW m \in Nat, m < n + 1, m \in P PROVE m + 1 \in P
    <2>1. PICK f \in [Nat -> S] : \A i \in Nat : i + m > n => f[i] = G[i][f]
      BY <1>2
    <2>2. PICK k \in Nat : k = n - m
      BY <1>2
    <2> DEFINE h == [f EXCEPT ![k] = G[k][f]]
    <2>3. h \in [Nat -> S] /\ h[k] = G[k][f] /\ \A j \in Nat : j # k => h[j] = f[j]
      OBVIOUS
    <2> HIDE DEF h
    <2>4. ASSUME NEW i \in Nat, i + (m + 1) > n PROVE h[i] = G[i][h]
      <3>1. \A j \in Nat : j > i => f[j] = h[j]
        BY <2>2, <2>3, <2>4, <1>2
      <3>2. G[i][f] = G[i][h]
        BY <2>3, <3>1 DEF LooksBehind
      <3>3. CASE i = k
        BY <2>3, <3>2, <3>3
      <3>4. CASE i # k
        <4>1. i + m > n
          BY <1>2, <2>2, <2>4, <3>4
        <4> QED BY <2>1, <2>3, <3>2, <3>4, <4>1
      <3> QED BY <3>3, <3>4
    <2> QED BY <2>3, <2>4
  <1> HIDE DEF P
  <1>3. n + 1 \in P
    <2>1. PICK n1 \in Nat : n1 = n + 1
      OBVIOUS
    <2>2. 0 .. n1 \subseteq P
      BY ONLY <2>1, <1>1, <1>2, UpTo
    <2> QED BY <2>1, <2>2
  <1> QED BY <1>3 DEF P, IsRightFold

(* There is only one result.                                               *)
SameWhenBehind(n, f, c) ==
  \A i \in Nat : i > n \/ (\A j \in Nat : j > i => f[j] = c[j]) => f[i] = c[i]

(* Two functions that agree at i when they agree behind it agree           *)
(* everywhere.                                                             *)
LEMMA SameFromTheRight ==
  ASSUME NEW n \in Nat, NEW f, NEW c, SameWhenBehind(n, f, c)
  PROVE  \A i \in Nat : f[i] = c[i]
  <1> DEFINE P == {m \in Nat : \A i \in Nat : i + m > n => f[i] = c[i]}
  <1>1. 0 \in P
    BY DEF SameWhenBehind
  <1>2. ASSUME NEW m \in Nat, m < n + 1, m \in P PROVE m + 1 \in P
    <2>1. ASSUME NEW i \in Nat, i + (m + 1) > n PROVE f[i] = c[i]
      <3>1. \A j \in Nat : j > i => f[j] = c[j]
        BY <1>2, <2>1
      <3> QED BY <3>1 DEF SameWhenBehind
    <2> QED BY <2>1
  <1> HIDE DEF P
  <1>3. n + 1 \in P
    <2>1. PICK n1 \in Nat : n1 = n + 1
      OBVIOUS
    <2>2. 0 .. n1 \subseteq P
      BY ONLY <2>1, <1>1, <1>2, UpTo
    <2> QED BY <2>1, <2>2
  <1> QED BY <1>3 DEF P

(* A nonempty set of numbers that has a bound has a greatest element.      *)
LEMMA MaxIn ==
  ASSUME NEW n \in Nat, NEW S \in SUBSET (0 .. n), S # {}
  PROVE  Max(S) \in S /\ \A y \in S : y <= Max(S)
  <1>1. PICK z \in {n - y : y \in S} : \A x \in {n - y : y \in S} : z <= x
    <2> DEFINE D == {n - y : y \in S}
    <2>1. \A y \in S : n - y \in Nat /\ n - y \in D
      OBVIOUS
    <2>2. D \in SUBSET Nat
      BY <2>1
    <2>3. D # {}
      BY <2>1
    <2> HIDE DEF D
    <2>4. \E z \in D : \A x \in D : z <= x
      BY ONLY <2>2, <2>3, NatMin
    <2> QED BY <2>4 DEF D
  <1>2. PICK x \in S : z = n - x
    BY <1>1
  <1>3. \A y \in S : x >= y
    <2> SUFFICES ASSUME NEW y \in S PROVE x >= y
      OBVIOUS
    <2>1. n - x <= n - y
      BY <1>1, <1>2
    <2> QED BY <2>1
  <1>4. \E w \in S : \A y \in S : w >= y
    BY <1>3
  <1>5. Max(S) \in S /\ \A y \in S : Max(S) >= y
    BY <1>4, Zenon DEF Max
  <1> QED BY <1>5

(* And every nonempty set of numbers the least one.                        *)
LEMMA MinIn ==
  ASSUME NEW S \in SUBSET Nat, S # {}
  PROVE  Min(S) \in S /\ \A y \in S : Min(S) <= y
  <1>1. \E w \in S : \A y \in S : w <= y
    BY NatMin
  <1> QED BY <1>1, Zenon DEF Min

Bracket == {"]", "}"}

(* A token ends where it starts or behind, and in the text.                *)
LEMMA TokenEndBound ==
  ASSUME NEW s \in Chars, NEW i \in 0 .. Len(s), NEW c \in [Bracket -> 0 .. Len(s)]
  PROVE  TokenEnd(s, i, c) \in i .. Len(s)
  <1>1. PICK n \in Nat : n = Len(s)
    BY Texts
  <1>2. \A x \in 0 .. n : Max({i, x}) \in i .. n
    <2> SUFFICES ASSUME NEW x \in 0 .. n PROVE Max({i, x}) \in i .. n
      OBVIOUS
    <2>1. {i, x} \in SUBSET (0 .. n) /\ {i, x} # {}
      BY <1>1
    <2>2. Max({i, x}) \in {i, x} /\ \A y \in {i, x} : y <= Max({i, x})
      BY ONLY <2>1, n \in Nat, MaxIn
    <2>3. Max({i, x}) \in 0 .. n /\ i <= Max({i, x})
      BY <2>1, <2>2
    <2> QED BY <1>1, <2>3
  <1>3. c["]"] \in 0 .. n /\ c["}"] \in 0 .. n
    BY <1>1 DEF Bracket
  <1>4. StringEnd(s, i) \in i .. n
    <2> DEFINE escaped == CHOOSE f : f = [j \in i + 1 .. Len(s) |->
                            j > i + 1 /\ s[j - 1] = Backslash /\ ~f[j - 1]]
               ends == {j \in i + 1 .. Len(s) : s[j] = Quote /\ ~escaped[j]}
    <2>1. StringEnd(s, i) = IF ends = {} THEN i ELSE Min(ends)
      BY DEF StringEnd
    <2> HIDE DEF escaped
    <2>2. ends \in SUBSET Nat /\ ends \subseteq i .. n
      BY <1>1
    <2> HIDE DEF ends
    <2>3. ends # {} => Min(ends) \in ends
      BY <2>2, MinIn
    <2>4. i \in i .. n
      BY <1>1
    <2> QED BY ONLY <2>1, <2>2, <2>3, <2>4
  <1>5. NumberEnd(s, i) \in i .. n
    <2> DEFINE D == {j \in i .. n : \A k \in i + 1 .. j : s[k] \in Digit}
    <2>1. NumberEnd(s, i) = Max(D)
      BY <1>1 DEF NumberEnd
    <2>2. D \in SUBSET (0 .. n) /\ i \in D /\ D \subseteq i .. n
      BY <1>1
    <2> HIDE DEF D
    <2>3. Max(D) \in D
      BY <2>2, MaxIn
    <2> QED BY <2>1, <2>2, <2>3
  <1>6. TokenEnd(s, i, c) \in {Max({i, c["]"]}), Max({i, c["}"]}), StringEnd(s, i), NumberEnd(s, i), i}
    BY Zenon DEF TokenEnd
  <1>7. i \in i .. n /\ Max({i, c["]"]}) \in i .. n /\ Max({i, c["}"]}) \in i .. n
    <2>1. i \in i .. n
      BY <1>1
    <2> QED BY ONLY <1>2, <1>3, <2>1
  <1>8. TokenEnd(s, i, c) \in i .. n
    BY ONLY <1>4, <1>5, <1>6, <1>7
  <1> QED BY <1>1, <1>8

(* What is said of a container's end at each position.                     *)
Closing(s, i, c) ==
  [close \in Bracket |->
          IF i > Len(s) THEN 0
          ELSE IF s[i] = close /\ s[i - 1] # Backslash THEN i
          ELSE IF s[i] \in {"[", "{", Quote} /\ s[i - 1] # Backslash
            THEN LET e == TokenEnd(s, i, c[i + 1]) IN
                 IF e = i /\ close = "]" THEN 0 ELSE c[e + 1][close]
          ELSE c[i + 1][close]]

(* ContainerEnd obeys its recursive definition.                            *)
LEMMA ContainerEndIs ==
  ASSUME NEW s \in Chars
  PROVE  /\ ContainerEnd(s) \in [Nat -> [Bracket -> 0 .. Len(s)]]
         /\ \A i \in Nat : ContainerEnd(s)[i] = Closing(s, i, ContainerEnd(s))
  <1> DEFINE D(f) == [i \in Nat |-> Closing(s, i, f)]
             c == CHOOSE f : f = D(f)
  <1>1. ContainerEnd(s) = c
    BY DEF ContainerEnd, Closing, Bracket
  <1>2. PICK n \in Nat : n = Len(s)
    BY Texts
  <1>3. PICK S : S = [Bracket -> 0 .. n]
    OBVIOUS
  <1>4. ASSUME NEW i \in Nat, NEW f \in [Nat -> S] PROVE Closing(s, i, f) \in S
    <2>1. f \in [Nat -> [Bracket -> 0 .. n]]
      BY <1>3
    <2>2. ASSUME NEW close \in Bracket
          PROVE  (IF i > Len(s) THEN 0
                  ELSE IF s[i] = close /\ s[i - 1] # Backslash THEN i
                  ELSE IF s[i] \in {"[", "{", Quote} /\ s[i - 1] # Backslash
                    THEN LET e == TokenEnd(s, i, f[i + 1]) IN
                         IF e = i /\ close = "]" THEN 0 ELSE f[e + 1][close]
                  ELSE f[i + 1][close]) \in 0 .. n
      <3>1. 0 \in 0 .. n
        OBVIOUS
      <3>2. CASE i > n
        <4>1. i > Len(s)
          BY <1>2, <3>2
        <4> QED BY ONLY <3>1, <4>1, Zenon
      <3>3. CASE ~(i > n)
        <4>1. f[i + 1] \in [Bracket -> 0 .. n] /\ i \in 0 .. n
          BY <2>1, <3>3
        <4>2. PICK e : e = TokenEnd(s, i, f[i + 1])
          OBVIOUS
        <4>3. e \in i .. n
          BY <1>2, <4>1, <4>2, TokenEndBound
        <4>4. f[e + 1] \in [Bracket -> 0 .. n]
          BY <2>1, <4>3
        <4>5. f[e + 1][close] \in 0 .. n /\ f[i + 1][close] \in 0 .. n
          BY ONLY <4>1, <4>4, close \in Bracket
        <4>6. i \in 0 .. n /\ ~(i > Len(s))
          BY <1>2, <3>3
        <4> QED BY ONLY <3>1, <4>2, <4>5, <4>6, Zenon
      <3> QED BY ONLY <3>2, <3>3, Zenon
    <2> QED BY <1>3, <2>2, Zenon DEF Closing
  <1>5. ASSUME NEW i \in Nat, NEW f \in [Nat -> S], NEW h,
               i > n \/ \A j \in Nat : j > i => f[j] = h[j]
        PROVE  Closing(s, i, f) = Closing(s, i, h)
    <2>1. CASE i > n
      <3>1. i > Len(s)
        BY <1>2, <2>1
      <3> QED BY ONLY <3>1, Zenon DEF Closing
    <2>2. CASE i <= n
      <3>1. f[i + 1] = h[i + 1]
        BY <1>5, <2>2
      <3>2. f[i + 1] \in [Bracket -> 0 .. Len(s)] /\ i \in 0 .. Len(s)
        <4>1. f \in [Nat -> [Bracket -> 0 .. Len(s)]] /\ i \in 0 .. Len(s) /\ i + 1 \in Nat
          BY <1>2, <1>3, <2>2
        <4> QED BY ONLY <4>1
      <3>3. TokenEnd(s, i, f[i + 1]) \in i .. n
        BY <1>2, <3>2, TokenEndBound
      <3>4. f[TokenEnd(s, i, f[i + 1]) + 1] = h[TokenEnd(s, i, h[i + 1]) + 1]
        BY <1>5, <2>2, <3>1, <3>3
      <3> QED BY ONLY <3>1, <3>4, Zenon DEF Closing
    <2> QED BY <2>1, <2>2
  <1> DEFINE G == [i \in Nat |-> [f \in [Nat -> S] |-> Closing(s, i, f)]]
  <1>6. \A i \in Nat : \A f \in [Nat -> S] : G[i][f] = Closing(s, i, f)
    OBVIOUS
  <1>7. G \in [Nat -> [[Nat -> S] -> S]]
    BY <1>4
  <1>8. PICK f0 \in [Nat -> S] : TRUE
    <2>1. [i \in Nat |-> [close \in Bracket |-> 0]] \in [Nat -> S]
      BY <1>3
    <2> QED BY <2>1
  <1> HIDE DEF G, c
  <1>9. LooksBehind(S, n, G)
    BY <1>5, <1>6 DEF LooksBehind
  <1>10. PICK f \in [Nat -> S] : \A i \in Nat : f[i] = G[i][f]
    <2> HIDE DEF D
    <2>1. PICK g : g = G
      OBVIOUS
    <2>2. \E f : IsRightFold(S, g, f)
      BY ONLY <1>7, f0 \in [Nat -> S], <1>9, n \in Nat, <2>1, FromTheRight
    <2> QED BY <2>1, <2>2 DEF IsRightFold
  <1>11. \A i \in Nat : f[i] = Closing(s, i, f)
    BY <1>6, <1>10
  <1>12. c = D(c)
    <2>1. f = D(f)
      BY <1>11
    <2> QED BY <2>1 DEF c
  <1>13. \A i \in Nat : c[i] = Closing(s, i, c)
    BY <1>12
  <1>14. \A i \in Nat : f[i] = c[i]
    <2>1. PICK g : g = c
      OBVIOUS
    <2>2. SameWhenBehind(n, f, g)
      BY <1>5, <1>11, <1>13, <2>1 DEF SameWhenBehind
    <2> HIDE DEF D
    <2>3. \A i \in Nat : f[i] = g[i]
      BY ONLY n \in Nat, <2>2, SameFromTheRight
    <2> QED BY ONLY <2>1, <2>3
  <1>15. c \in [Nat -> S]
    <2>1. c = [i \in Nat |-> c[i]]
      BY <1>12
    <2>2. \A i \in Nat : c[i] \in S
      BY <1>14
    <2> HIDE DEF D
    <2> QED BY ONLY <2>1, <2>2
  <1> QED BY ONLY <1>1, <1>2, <1>3, <1>13, <1>15

-----------------------------------------------------------------------------
(* Texts in a text: where one stands, and looking for a bracket behind it. *)

(* Text t stands in s from position i on.                                  *)
Stands(s, i, t) ==
  i + Len(t) <= Len(s) + 1 /\ \A k \in 1 .. Len(t) : s[i + k - 1] = t[k]

(* Before it and behind it stand other texts.                              *)
Within(s, i, t) == \E x, y \in Chars : s = x \o t \o y /\ Len(x) + 1 = i

(* A text that stands somewhere is cut out there, and has a text before    *)
(* and one behind it.                                                      *)
LEMMA CutOut ==
  ASSUME NEW s \in Chars, NEW t \in Chars, NEW i \in Nat, i > 0, Stands(s, i, t)
  PROVE  /\ SubSeq(s, i, i + Len(t) - 1) = t
         /\ Within(s, i, t)
  <1>1. Len(s) \in Nat /\ Len(t) \in Nat /\ i + Len(t) <= Len(s) + 1
    BY Texts DEF Stands
  <1>2. SubSeq(s, i, i + Len(t) - 1) = t
    BY <1>1 DEF Stands, Chars
  <1>3. PICK x \in Chars : Len(x) = i - 1 /\ \A k \in 1 .. i - 1 : x[k] = s[k]
    <2>1. SubSeq(s, 1, i - 1) \in Chars /\ Len(SubSeq(s, 1, i - 1)) = i - 1
          /\ \A k \in 1 .. i - 1 : SubSeq(s, 1, i - 1)[k] = s[k]
      BY <1>1 DEF Chars
    <2> QED BY <2>1
  <1>4. PICK y \in Chars : /\ Len(y) = Len(s) + 1 - (i + Len(t))
                           /\ \A k \in 1 .. Len(y) : y[k] = s[i + Len(t) + k - 1]
    <2>1. PICK z : z = SubSeq(s, i + Len(t), Len(s))
      OBVIOUS
    <2>2. z \in Chars /\ Len(z) = Len(s) + 1 - (i + Len(t))
          /\ \A k \in 1 .. Len(z) : z[k] = s[i + Len(t) + k - 1]
      BY <1>1, <2>1 DEF Chars
    <2> QED BY <2>2
  <1>5. s = (x \o t) \o y
    <2>1. PICK z : z = (x \o t) \o y
      OBVIOUS
    <2>2. /\ x \o t \in Chars /\ Len(x \o t) = (i - 1) + Len(t)
          /\ \A k \in 1 .. i - 1 : (x \o t)[k] = s[k]
          /\ \A k \in 1 .. Len(t) : (x \o t)[(i - 1) + k] = t[k]
      <3>1. /\ Len(x \o t) = Len(x) + Len(t) /\ x \o t \in Chars
            /\ \A k \in 1 .. Len(x) : (x \o t)[k] = x[k]
            /\ \A k \in 1 .. Len(t) : (x \o t)[Len(x) + k] = t[k]
        BY ONLY x \in Chars, t \in Chars, Parts
      <3> QED BY <1>3, <3>1
    <2>3. /\ z \in Chars /\ Len(z) = ((i - 1) + Len(t)) + Len(y)
          /\ \A k \in 1 .. (i - 1) + Len(t) : z[k] = (x \o t)[k]
          /\ \A k \in 1 .. Len(y) : z[((i - 1) + Len(t)) + k] = y[k]
      <3>1. PICK w \in Chars : w = x \o t
        BY <2>2
      <3>2. /\ Len(w \o y) = Len(w) + Len(y) /\ w \o y \in Chars
            /\ \A k \in 1 .. Len(w) : (w \o y)[k] = w[k]
            /\ \A k \in 1 .. Len(y) : (w \o y)[Len(w) + k] = y[k]
        BY ONLY w \in Chars, y \in Chars, Parts
      <3> QED BY <2>1, <2>2, <3>1, <3>2
    <2>4. Len(z) = Len(s)
      BY <1>1, <1>4, <2>3
    <2>5. ASSUME NEW k \in 1 .. Len(s) PROVE z[k] = s[k]
      <3>1. CASE k <= i - 1
        BY <1>1, <2>2, <2>3, <3>1
      <3>2. CASE i <= k /\ k < i + Len(t)
        <4>1. k - i + 1 \in 1 .. Len(t) /\ i + (k - i + 1) - 1 = k
              /\ (i - 1) + (k - i + 1) = k /\ k \in 1 .. (i - 1) + Len(t)
          BY <1>1, <3>2
        <4>2. s[i + (k - i + 1) - 1] = t[k - i + 1]
          BY <4>1 DEF Stands
        <4>3. (x \o t)[(i - 1) + (k - i + 1)] = t[k - i + 1]
          BY <2>2, <4>1
        <4> QED BY <2>3, <4>1, <4>2, <4>3
      <3>3. CASE i + Len(t) <= k
        <4>1. k - (i + Len(t)) + 1 \in 1 .. Len(y)
              /\ i + Len(t) + (k - (i + Len(t)) + 1) - 1 = k
              /\ ((i - 1) + Len(t)) + (k - (i + Len(t)) + 1) = k
          BY <1>1, <1>4, <3>3
        <4>2. y[k - (i + Len(t)) + 1] = s[i + Len(t) + (k - (i + Len(t)) + 1) - 1]
          BY <1>4, <4>1
        <4> QED BY <2>3, <4>1, <4>2
      <3> QED BY <1>1, <3>1, <3>2, <3>3
    <2>6. z = s
      BY ONLY <2>3, <2>4, <2>5, s \in Chars DEF Chars
    <2> QED BY <2>1, <2>6
  <1>6. (x \o t) \o y = x \o t \o y /\ Len(x) + 1 = i
    BY <1>3
  <1>7. Within(s, i, t)
    BY ONLY <1>3, <1>4, <1>5, <1>6 DEF Within
  <1> QED BY ONLY <1>2, <1>7

(* The parts of a text stand where it stands.                              *)
LEMMA StandBoth ==
  ASSUME NEW s \in Chars, NEW a \in Chars, NEW b \in Chars, NEW i \in Nat, i > 0,
         Stands(s, i, a \o b)
  PROVE  /\ Stands(s, i, a) /\ Stands(s, i + Len(a), b)
         /\ i + Len(a \o b) = (i + Len(a)) + Len(b) /\ i + Len(a) \in Nat
  <1>1. /\ Len(s) \in Nat /\ Len(a) \in Nat /\ Len(b) \in Nat
        /\ Len(a \o b) = Len(a) + Len(b)
        /\ \A k \in 1 .. Len(a) : (a \o b)[k] = a[k]
        /\ \A k \in 1 .. Len(b) : (a \o b)[Len(a) + k] = b[k]
    BY Parts, Texts
  <1>2. i + (Len(a) + Len(b)) <= Len(s) + 1
        /\ \A k \in 1 .. Len(a) + Len(b) : s[i + k - 1] = (a \o b)[k]
    BY <1>1 DEF Stands
  <1>3. \A k \in 1 .. Len(a) : s[i + k - 1] = a[k]
    BY <1>1, <1>2
  <1>4. ASSUME NEW k \in 1 .. Len(b) PROVE s[(i + Len(a)) + k - 1] = b[k]
    <2>1. Len(a) + k \in 1 .. Len(a) + Len(b)
      BY <1>1
    <2>2. s[i + (Len(a) + k) - 1] = (a \o b)[Len(a) + k]
      BY <1>2, <2>1
    <2>3. i + (Len(a) + k) - 1 = (i + Len(a)) + k - 1
      BY <1>1
    <2> QED BY <1>1, <2>2, <2>3
  <1>5. i + Len(a) <= Len(s) + 1 /\ (i + Len(a)) + Len(b) <= Len(s) + 1
        /\ i + Len(a \o b) = (i + Len(a)) + Len(b) /\ i + Len(a) \in Nat
    BY <1>1, <1>2
  <1> QED BY <1>3, <1>4, <1>5, Zenon DEF Stands

(* A text that the search for a closing bracket walks over without a       *)
(* trace.                                                                  *)
EndsPlain(t) == t # <<>> => t[Len(t)] # Backslash
Skips(t) ==
  /\ EndsPlain(t)
  /\ \A s \in Chars : \A i \in Nat :
       i > 1 /\ Stands(s, i, t) /\ s[i - 1] # Backslash =>
         ContainerEnd(s)[i] = ContainerEnd(s)[i + Len(t)]

(* The search for a bracket skips two texts after each other,              *)
LEMMA SkipBoth ==
  ASSUME NEW a \in Chars, NEW b \in Chars, Skips(a), Skips(b)
  PROVE  Skips(a \o b)
  <1>0. /\ Len(a) \in Nat /\ Len(b) \in Nat
        /\ Len(a \o b) = Len(a) + Len(b)
        /\ \A k \in 1 .. Len(a) : (a \o b)[k] = a[k]
        /\ \A k \in 1 .. Len(b) : (a \o b)[Len(a) + k] = b[k]
    BY Parts
  <1>1. EndsPlain(a \o b)
    <2>1. CASE b = <<>>
      <3>1. a \o b = a
        BY <2>1 DEF Chars
      <3> QED BY <3>1 DEF Skips
    <2>2. CASE b # <<>>
      <3>1. Len(b) \in 1 .. Len(b)
        BY <1>0, <2>2 DEF Chars
      <3>2. b[Len(b)] # Backslash
        BY <2>2 DEF Skips, EndsPlain
      <3>3. (a \o b)[Len(a) + Len(b)] = b[Len(b)]
        BY <1>0, <3>1
      <3> QED BY <1>0, <3>2, <3>3 DEF EndsPlain
    <2> QED BY <2>1, <2>2
  <1>2. ASSUME NEW s \in Chars, NEW i \in Nat, i > 1, Stands(s, i, a \o b), s[i - 1] # Backslash
        PROVE  ContainerEnd(s)[i] = ContainerEnd(s)[i + Len(a \o b)]
    <2>1. /\ Stands(s, i, a) /\ Stands(s, i + Len(a), b)
          /\ i + Len(a \o b) = (i + Len(a)) + Len(b) /\ i + Len(a) \in Nat
      BY <1>2, StandBoth
    <2>2. ContainerEnd(s)[i] = ContainerEnd(s)[i + Len(a)]
      BY <1>2, <2>1 DEF Skips
    <2>3. i + Len(a) > 1 /\ s[(i + Len(a)) - 1] # Backslash
      <3>1. CASE a = <<>>
        BY <1>2, <3>1, <1>0
      <3>2. CASE a # <<>>
        <4>1. Len(a) \in 1 .. Len(a)
          BY <1>0, <3>2 DEF Chars
        <4>2. s[i + Len(a) - 1] = a[Len(a)]
          BY <2>1, <4>1 DEF Stands
        <4> QED BY <1>0, <1>2, <3>2, <4>2 DEF Skips, EndsPlain
      <3> QED BY <3>1, <3>2
    <2>4. ContainerEnd(s)[i + Len(a)] = ContainerEnd(s)[(i + Len(a)) + Len(b)]
      BY <2>1, <2>3 DEF Skips
    <2> QED BY <2>1, <2>2, <2>4
  <1> QED BY <1>1, <1>2, Zenon DEF Skips

(* Nothing, and a character that is no bracket, quote or backslash.        *)
Mark == Bracket \union {"[", "{", Quote, Backslash}

(* no text,                                                                *)
LEMMA SkipNone == Skips(<<>>)
  <1>1. ASSUME NEW s \in Chars, NEW i \in Nat
        PROVE  ContainerEnd(s)[i] = ContainerEnd(s)[i + Len(<<>>)]
    <2>1. i + Len(<<>>) = i
      OBVIOUS
    <2> QED BY <2>1
  <1> QED BY <1>1, Zenon DEF Skips, EndsPlain

(* and a character that is no mark.                                        *)
LEMMA SkipOne ==
  ASSUME NEW c \in Char, c \notin Mark
  PROVE  Skips(<<c>>)
  <1>1. EndsPlain(<<c>>)
    BY DEF EndsPlain, Mark
  <1>2. ASSUME NEW s \in Chars, NEW i \in Nat, i > 1, Stands(s, i, <<c>>)
        PROVE  ContainerEnd(s)[i] = ContainerEnd(s)[i + Len(<<c>>)]
    <2>1. Len(<<c>>) = 1 /\ s[i] = c /\ i <= Len(s) /\ Len(s) \in Nat
      BY <1>2, Texts DEF Stands
    <2>2. PICK e : e = ContainerEnd(s)
      OBVIOUS
    <2>3. e[i] = Closing(s, i, e) /\ e[i + 1] \in [Bracket -> 0 .. Len(s)]
      BY <2>2, ContainerEndIs
    <2>4. \A close \in Bracket : s[i] # close
      BY <2>1 DEF Mark
    <2>5. s[i] \notin {"[", "{", Quote}
      BY <2>1 DEF Mark
    <2>6. ~(i > Len(s))
      BY <2>1
    <2>7. Closing(s, i, e) = [close \in Bracket |-> e[i + 1][close]]
      BY ONLY <2>4, <2>5, <2>6, Zenon DEF Closing
    <2>8. e[i] = e[i + 1]
      BY <2>3, <2>7
    <2> QED BY <2>1, <2>2, <2>8
  <1> QED BY <1>1, <1>2, Zenon DEF Skips

(* The string that starts at i ends where its text ends.                   *)
LEMMA StringSpan ==
  ASSUME NEW s \in Chars, NEW t \in Chars, NEW i \in Nat, i > 0,
         Stands(s, i, Quoted(Encode(t)))
  PROVE  StringEnd(s, i) = i + Len(Encode(t)) + 1
  <1>1. PICK e \in Chars : e = Encode(t)
    BY EncodePlaces
  <1>2. PICK q \in Chars : q = Quoted(e) /\ Len(q) = Len(e) + 2
    BY QuotedLen
  <1>3. PICK x, y \in Chars : s = x \o q \o y /\ Len(x) + 1 = i
    <2>1. Stands(s, i, q)
      BY <1>1, <1>2
    <2>2. Within(s, i, q)
      BY ONLY s \in Chars, q \in Chars, i \in Nat, i > 0, <2>1, CutOut
    <2> QED BY ONLY <2>2 DEF Within
  <1>4. StringEnd(x \o Quoted(Stored(t, TRUE)) \o y, Len(x) + 1) = Len(x) + Len(Stored(t, TRUE)) + 2
    BY ONLY t \in Chars, x \in Chars, y \in Chars, StoredEndsAtQuote
  <1>5. Stored(t, TRUE) = e
    BY <1>1, StoredIsEncoded
  <1>6. StringEnd(s, Len(x) + 1) = Len(x) + Len(e) + 2
    BY <1>2, <1>3, <1>4, <1>5
  <1>7. Len(x) \in Nat /\ Len(e) \in Nat
    BY Texts
  <1> QED BY <1>1, <1>3, <1>6, <1>7

(* What a token ends with, by its first character.                         *)
LEMMA TokenKinds ==
  ASSUME NEW s, NEW i, NEW c
  PROVE  /\ s[i] = "[" => TokenEnd(s, i, c) = Max({i, c["]"]})
         /\ s[i] = "{" => TokenEnd(s, i, c) = Max({i, c["}"]})
         /\ s[i] = Quote => TokenEnd(s, i, c) = StringEnd(s, i)
         /\ s[i] \in Digit => TokenEnd(s, i, c) = NumberEnd(s, i)
         /\ s[i] \notin Digit \union {"[", "{", Quote} => TokenEnd(s, i, c) = i
  <1>1. /\ "[" # "{" /\ "[" # Quote /\ "{" # Quote
        /\ "[" \notin Digit /\ "{" \notin Digit /\ Quote \notin Digit
    BY DEF Quote, Digit
  <1>2. CASE s[i] = "["
    BY ONLY <1>1, <1>2, Zenon DEF TokenEnd
  <1>3. CASE s[i] = "{"
    BY ONLY <1>1, <1>3, Zenon DEF TokenEnd
  <1>4. CASE s[i] = Quote
    BY ONLY <1>1, <1>4, Zenon DEF TokenEnd
  <1>5. CASE s[i] \in Digit
    BY ONLY <1>1, <1>5, Zenon DEF TokenEnd
  <1>6. CASE s[i] \notin Digit \union {"[", "{", Quote}
    BY ONLY <1>1, <1>6, Zenon DEF TokenEnd
  <1> QED BY <1>1, <1>2, <1>3, <1>4, <1>5, <1>6

Opening == {"[", "{"}

(* Behind a token that has an end, the search goes on.                     *)
LEMMA ClosingBehind ==
  ASSUME NEW s \in Chars, NEW i \in 2 .. Len(s), NEW e \in Nat,
         s[i] \in Opening \union {Quote}, s[i - 1] # Backslash,
         TokenEnd(s, i, ContainerEnd(s)[i + 1]) = e, e # i
  PROVE  ContainerEnd(s)[i] = ContainerEnd(s)[e + 1]
  <1>1. PICK c : c = ContainerEnd(s)
    OBVIOUS
  <1>2. i \in Nat /\ ~(i > Len(s))
    BY ONLY s \in Chars, i \in 2 .. Len(s), Texts
  <1>3. c[i] = Closing(s, i, c) /\ c[e + 1] \in [Bracket -> 0 .. Len(s)]
    BY ONLY <1>1, <1>2, s \in Chars, e \in Nat, ContainerEndIs
  <1>4. \A close \in Bracket : s[i] # close
    BY DEF Bracket, Quote, Opening
  <1>5. TokenEnd(s, i, c[i + 1]) = e
    BY <1>1
  <1>0. s[i] \in {"[", "{", Quote}
    BY DEF Opening
  <1>6. ASSUME NEW close \in Bracket
        PROVE  (IF i > Len(s) THEN 0
                ELSE IF s[i] = close /\ s[i - 1] # Backslash THEN i
                ELSE IF s[i] \in {"[", "{", Quote} /\ s[i - 1] # Backslash
                  THEN LET e1 == TokenEnd(s, i, c[i + 1]) IN
                       IF e1 = i /\ close = "]" THEN 0 ELSE c[e1 + 1][close]
                ELSE c[i + 1][close]) = c[e + 1][close]
    <2>1. s[i] # close
      BY <1>4
    <2> QED BY ONLY <1>2, <2>1, <1>5, e # i, <1>0, s[i - 1] # Backslash, Zenon
  <1>7. Closing(s, i, c) = [close \in Bracket |-> c[e + 1][close]]
    BY ONLY <1>6, Zenon DEF Closing
  <1> QED BY <1>1, <1>3, <1>7

(* A string of this text ends at its own quote, wherever it stands.        *)
Spans(e) ==
  \A s \in Chars : \A i \in Nat :
    i > 0 /\ Stands(s, i, Quoted(e)) => StringEnd(s, i) = i + Len(e) + 1

(* An escaped text is such a text.                                         *)
LEMMA EncodedSpans ==
  ASSUME NEW t \in Chars
  PROVE  Encode(t) \in Chars /\ Spans(Encode(t))
  <1>1. Encode(t) \in Chars
    BY EncodePlaces
  <1>2. Spans(Encode(t))
    BY StringSpan DEF Spans
  <1> QED BY <1>1, <1>2

(* Such a string leaves no trace.                                          *)
LEMMA SkipString ==
  ASSUME NEW e \in Chars, Spans(e)
  PROVE  Quoted(e) \in Chars /\ Skips(Quoted(e))
  <1>2. PICK q \in Chars : q = Quoted(e) /\ Len(q) = Len(e) + 2
    BY QuotedLen
  <1>3. Len(e) \in Nat
    BY Texts
  <1>4. q[1] = Quote /\ q[Len(e) + 2] = Quote
    <2>1. q = <<Quote>> \o e \o <<Quote>>
      BY <1>2 DEF Quoted
    <2> QED BY <2>1, <1>3 DEF Chars
  <1>5. EndsPlain(q)
    BY <1>2, <1>4 DEF EndsPlain, Quote, Backslash
  <1>6. ASSUME NEW s \in Chars, NEW i \in Nat, i > 1, Stands(s, i, q), s[i - 1] # Backslash
        PROVE  ContainerEnd(s)[i] = ContainerEnd(s)[i + Len(q)]
    <2>1. s[i] = Quote /\ i \in 2 .. Len(s)
      <3>1. i + Len(q) <= Len(s) + 1 /\ s[i + 1 - 1] = q[1]
        BY <1>2, <1>3, <1>6 DEF Stands
      <3> QED BY <1>2, <1>3, <1>4, <1>6, <3>1, Texts
    <2>2. StringEnd(s, i) = i + Len(e) + 1
      BY ONLY <1>2, <1>6, s \in Chars, i \in Nat, Spans(e) DEF Spans
    <2>3. TokenEnd(s, i, ContainerEnd(s)[i + 1]) = i + Len(e) + 1
      BY <2>1, <2>2, TokenKinds
    <2>4. i + Len(e) + 1 \in Nat /\ i + Len(e) + 1 # i
      BY <1>3
    <2>5. ContainerEnd(s)[i] = ContainerEnd(s)[(i + Len(e) + 1) + 1]
      <3>1. PICK p \in Nat : p = i + Len(e) + 1
        BY <2>4
      <3>2. s[i] \in Opening \union {Quote}
        BY <2>1
      <3>3. TokenEnd(s, i, ContainerEnd(s)[i + 1]) = p /\ p # i
        BY <2>3, <2>4, <3>1
      <3>4. ContainerEnd(s)[i] = ContainerEnd(s)[p + 1]
        BY ONLY s \in Chars, <2>1, p \in Nat, <3>2, <3>3, <1>6, ClosingBehind
      <3> QED BY <3>1, <3>4
    <2> QED BY <1>2, <1>3, <2>5
  <1>7. Skips(q)
    BY <1>5, <1>6, Zenon DEF Skips
  <1> QED BY <1>2, <1>7

Closes(o) == IF o = "[" THEN "]" ELSE "}"

(* A container ends at the bracket behind what it contains.                *)
LEMMA ContainerSpan ==
  ASSUME NEW s \in Chars, NEW t \in Chars, NEW o \in Opening, NEW i \in Nat, i > 0,
         Skips(t), Stands(s, i, <<o>> \o t \o <<Closes(o)>>)
  PROVE  /\ GetEndChPos(s, i) = i + Len(t) + 1
         /\ s[i] = o /\ i + Len(t) + 1 <= Len(s) /\ Len(t) \in Nat
  <1> DEFINE c == Closes(o)
  <1>1. c \in Bracket /\ c \in Char /\ o \in Char /\ o # Backslash
    BY CharAssumption DEF Closes, Bracket, Backslash, Opening
  <1>2. /\ <<o>> \in Chars /\ <<c>> \in Chars /\ <<o>> \o t \in Chars
        /\ Len(<<o>>) = 1 /\ Len(<<c>>) = 1 /\ Len(<<o>> \o t) = 1 + Len(t)
        /\ Len(t) \in Nat /\ Len(s) \in Nat
    BY <1>1, Texts
  <1> HIDE DEF c
  <1>3. PICK w \in Chars : w = <<o>> \o t
    BY <1>2
  <1>4. Stands(s, i, w) /\ Stands(s, i + Len(w), <<c>>)
    <2>1. Stands(s, i, w \o <<c>>)
      BY <1>3 DEF c
    <2>2. PICK z \in Chars : z = <<c>>
      BY <1>2
    <2>3. Stands(s, i, w) /\ Stands(s, i + Len(w), z)
      BY ONLY s \in Chars, w \in Chars, z \in Chars, i \in Nat, i > 0, <2>1, <2>2, StandBoth
    <2> QED BY <2>2, <2>3
  <1>5. Stands(s, i, <<o>>) /\ Stands(s, i + 1, t)
    <2>1. PICK z \in Chars : z = <<o>>
      BY <1>2
    <2>2. Stands(s, i, z) /\ Stands(s, i + Len(z), t)
      BY ONLY s \in Chars, z \in Chars, t \in Chars, i \in Nat, i > 0, <1>3, <1>4, <2>1, StandBoth
    <2> QED BY <1>2, <2>1, <2>2
  <1>6. PICK p \in Nat : p = i + Len(t) + 1
    BY <1>2
  <1>7. s[i] = o
    BY <1>2, <1>5 DEF Stands
  <1>8. s[p] = c /\ p <= Len(s)
    <2>1. i + Len(w) = p /\ 1 \in 1 .. Len(<<c>>) /\ <<c>>[1] = c
      BY <1>2, <1>3, <1>6
    <2>2. p + Len(<<c>>) <= Len(s) + 1 /\ \A k \in 1 .. Len(<<c>>) : s[p + k - 1] = <<c>>[k]
      BY ONLY <1>4, <2>1 DEF Stands
    <2>3. s[p + 1 - 1] = c
      BY ONLY <2>1, <2>2
    <2> QED BY ONLY <1>2, <2>2, <2>3, p \in Nat
  <1>9. PICK e : e = ContainerEnd(s)
    OBVIOUS
  <1>10. e[i + 1] = e[p]
    <2>1. i + 1 \in Nat /\ i + 1 > 1 /\ s[(i + 1) - 1] # Backslash /\ p = (i + 1) + Len(t)
      BY <1>1, <1>2, <1>6, <1>7
    <2> QED BY ONLY s \in Chars, <2>1, <1>5, <1>9, Skips(t), Zenon DEF Skips
  <1>11. s[p - 1] # Backslash
    <2>1. CASE t = <<>>
      <3>1. p - 1 = i
        BY <1>6, <2>1
      <3> QED BY <1>1, <1>7, <3>1
    <2>2. CASE t # <<>>
      <3>1. Len(t) \in 1 .. Len(t)
        BY <1>2, <2>2 DEF Chars
      <3>2. s[(i + 1) + Len(t) - 1] = t[Len(t)] /\ t[Len(t)] # Backslash
        BY <1>5, <2>2, <3>1 DEF Stands, Skips, EndsPlain
      <3>3. (i + 1) + Len(t) - 1 = p - 1
        BY <1>2, <1>6
      <3> QED BY <3>2, <3>3
    <2> QED BY <2>1, <2>2
  <1>12. e[p][c] = p
    <2>1. ~(p > Len(s))
      BY <1>2, <1>8
    <2>2. Closing(s, p, e)[c] = p
      BY ONLY <1>1, <1>8, <1>11, <2>1, Zenon DEF Closing
    <2>3. e[p] = Closing(s, p, e)
      BY <1>9, ContainerEndIs
    <2> QED BY <2>2, <2>3
  <1>16. /\ "[" # "{" /\ "[" # Quote /\ "{" # Quote
         /\ "[" \notin Digit /\ "{" \notin Digit
    BY DEF Quote, Digit
  <1>15. PICK b : b = e[p]
    OBVIOUS
  <1>13. TokenEnd(s, i, e[i + 1]) = Max({i, p})
    <2>1. CASE o = "["
      <3>1. c = "]"
        BY <2>1 DEF c, Closes
      <3> QED
        <4>1. b["]"] = p /\ s[i] = "["
          BY ONLY <1>7, <1>12, <1>15, <2>1, <3>1
        <4>2. TokenEnd(s, i, b) = Max({i, b["]"]})
          BY ONLY <4>1, <1>16, Zenon DEF TokenEnd
        <4> QED BY ONLY <1>10, <1>15, <4>1, <4>2, Zenon
    <2>2. CASE o # "["
      <3>1. c = "}" /\ o = "{"
        BY <2>2 DEF c, Closes, Opening
      <3> QED
        <4>1. b["}"] = p /\ s[i] = "{"
          BY ONLY <1>7, <1>12, <1>15, <3>1
        <4>2. TokenEnd(s, i, b) = Max({i, b["}"]})
          BY ONLY <4>1, <1>16, Zenon DEF TokenEnd
        <4> QED BY ONLY <1>10, <1>15, <4>1, <4>2, Zenon
    <2> QED BY <2>1, <2>2
  <1>14. Max({i, p}) = p
    <2>1. PICK S : S = {i, p}
      OBVIOUS
    <2>2. S \in SUBSET (0 .. p) /\ S # {}
      BY <1>2, <1>6, <2>1
    <2>3. Max(S) \in S /\ \A y \in S : y <= Max(S)
      BY ONLY p \in Nat, <2>2, MaxIn
    <2> QED BY <1>2, <1>6, <2>1, <2>3
  <1> QED BY <1>2, <1>6, <1>7, <1>8, <1>9, <1>13, <1>14 DEF GetEndChPos

(* So it leaves no trace either.                                           *)
LEMMA SkipContainer ==
  ASSUME NEW t \in Chars, NEW o \in Opening, Skips(t)
  PROVE  <<o>> \o t \o <<Closes(o)>> \in Chars /\ Skips(<<o>> \o t \o <<Closes(o)>>)
  <1>1. Closes(o) \in Bracket /\ Closes(o) \in Char /\ o \in Char /\ Closes(o) # Backslash
    BY CharAssumption DEF Closes, Bracket, Backslash, Opening
  <1>2. PICK w \in Chars : w = <<o>> \o t \o <<Closes(o)>> /\ Len(w) = Len(t) + 2
    BY <1>1, Bracketed
  <1>3. Len(t) \in Nat /\ w[Len(t) + 2] = Closes(o)
    BY <1>1, <1>2, Texts DEF Chars
  <1>4. EndsPlain(w)
    BY <1>1, <1>2, <1>3 DEF EndsPlain
  <1>5. ASSUME NEW s \in Chars, NEW i \in Nat, i > 1, Stands(s, i, w), s[i - 1] # Backslash
        PROVE  ContainerEnd(s)[i] = ContainerEnd(s)[i + Len(w)]
    <2>1. PICK p \in Nat : p = i + Len(t) + 1
      BY <1>3
    <2>2. GetEndChPos(s, i) = p /\ s[i] = o /\ p <= Len(s)
      BY <1>2, <1>5, <2>1, ContainerSpan
    <2>3. TokenEnd(s, i, ContainerEnd(s)[i + 1]) = p
      BY <2>2 DEF GetEndChPos
    <2>4. i \in 2 .. Len(s) /\ p # i /\ s[i] \in Opening \union {Quote}
      BY <1>3, <1>5, <2>1, <2>2, Texts
    <2>5. ContainerEnd(s)[i] = ContainerEnd(s)[p + 1]
      BY ONLY s \in Chars, <2>4, p \in Nat, <2>3, <1>5, ClosingBehind
    <2>6. p + 1 = i + Len(w)
      BY <1>2, <1>3, <2>1
    <2> QED BY <2>5, <2>6
  <1>6. Skips(w)
    BY <1>4, <1>5, Zenon DEF Skips
  <1> QED BY <1>2, <1>6

-----------------------------------------------------------------------------
(* Removing blanks.                                                        *)

(* What Trim has after each character.                                     *)
TrimState == [text : Chars, quoted : BOOLEAN, escaped : BOOLEAN]
Untrimmed == [text |-> <<>>, quoted |-> FALSE, escaped |-> FALSE]
(* Trim obeys its recursive definition.                                    *)
LEMMA TrimIs ==
  ASSUME NEW s \in Chars
  PROVE  \E u \in [0 .. Len(s) -> TrimState] :
           /\ u[0] = Untrimmed
           /\ \A i \in 1 .. Len(s) : u[i] = TrimChar(u[i - 1], s[i])
           /\ Trim(s) = u[Len(s)].text
  <1> DEFINE Step(i, x) == TrimChar(x, s[i])
             D(u) == [i \in 0 .. Len(s) |-> IF i = 0 THEN Untrimmed ELSE Step(i, u[i - 1])]
             f == CHOOSE u : u = D(u)
  <1>1. PICK n \in Nat : n = Len(s)
    BY DEF Chars
  <1>2. Untrimmed \in TrimState
    BY DEF Chars, Untrimmed, TrimState
  <1>3. \A i \in 1 .. n : \A x \in TrimState : Step(i, x) \in TrimState
    <2>1. \A i \in 1 .. n : s[i] \in Char
      BY <1>1, ElementOfSeq DEF Chars
    <2> QED
      <3> SUFFICES ASSUME NEW i \in 1 .. n, NEW x \in TrimState
                   PROVE  TrimChar(x, s[i]) \in TrimState
        OBVIOUS
      <3>1. x.text \in Chars /\ x.quoted \in BOOLEAN /\ x.escaped \in BOOLEAN
        BY DEF TrimState
      <3>2. Append(x.text, s[i]) \in Chars
        BY <2>1, <3>1 DEF Chars
      <3>3. PICK c : c = s[i]
        OBVIOUS
      <3>4. /\ (IF c \in Space /\ ~x.quoted THEN x.text ELSE Append(x.text, c)) \in Chars
            /\ (IF c = Quote /\ ~x.escaped THEN ~x.quoted ELSE x.quoted) \in BOOLEAN
            /\ (IF c \in Space THEN x.escaped ELSE c = Backslash /\ ~x.escaped) \in BOOLEAN
        BY ONLY <3>1, <3>2, <3>3, Zenon
      <3> QED BY ONLY <3>3, <3>4, Zenon DEF TrimChar, TrimState
  <1>4. Trim(s) = f[n].text
    BY <1>1 DEF Trim, Untrimmed
  <1> HIDE DEF f, Step
  <1>5. PICK g \in [1 .. n -> [TrimState -> TrimState]] :
          \A i \in 1 .. n : \A x \in TrimState : g[i][x] = Step(i, x)
    <2> DEFINE h == [i \in 1 .. n |-> [x \in TrimState |-> Step(i, x)]]
    <2>1. h \in [1 .. n -> [TrimState -> TrimState]]
      BY <1>3
    <2> QED BY <2>1
  <1>6. PICK w \in [0 .. n -> TrimState] : w[0] = Untrimmed /\ \A i \in 1 .. n : w[i] = g[i][w[i - 1]]
    <2>1. \E u : IsLeftFold(TrimState, Untrimmed, n, g, u)
      BY <1>2, FromTheLeft
    <2> QED BY <2>1 DEF IsLeftFold
  <1>7. ASSUME NEW i \in 1 .. n PROVE w[i] = Step(i, w[i - 1])
    <2>1. w[i - 1] \in TrimState
      OBVIOUS
    <2> QED BY <1>5, <1>6, <2>1
  <1>8. w = D(w)
    BY <1>1, <1>6, <1>7
  <1>9. f = D(f)
    BY <1>8 DEF f
  <1>10. f[0] = Untrimmed /\ \A i \in 1 .. n : f[i] = Step(i, f[i - 1])
    <2>1. D(f)[0] = Untrimmed /\ \A i \in 1 .. n : D(f)[i] = Step(i, f[i - 1])
      BY <1>1
    <2> HIDE DEF D
    <2> QED BY <1>9, <2>1
  <1>11. f[n] = w[n]
    <2>1. ASSUME NEW i \in 1 .. n, f[i - 1] = w[i - 1] PROVE f[i] = w[i]
      BY <1>7, <1>10, <2>1
    <2>2. f[0] = w[0] /\ \A i \in 1 .. n : f[i - 1] = w[i - 1] => f[i] = w[i]
      BY <1>6, <1>10, <2>1
    <2> HIDE DEF D
    <2> QED BY ONLY n \in Nat, <2>2, SameFromTheLeft
  <1> QED BY <1>1, <1>4, <1>6, <1>7, <1>11 DEF Step


Trimming(s, u) ==
  /\ u \in [0 .. Len(s) -> TrimState]
  /\ \A i \in 1 .. Len(s) : u[i] = TrimChar(u[i - 1], s[i])

(* A text of which Trim takes nothing, from inside (q) a string or outside *)
(* of one.                                                                 *)
Keeps(t, q, r) ==
  \A s \in Chars : \A u : \A i \in Nat :
    i > 0 /\ Stands(s, i, t) /\ Trimming(s, u)
    /\ u[i - 1].quoted = q /\ u[i - 1].escaped = FALSE =>
      u[i + Len(t) - 1] = [text |-> u[i - 1].text \o t, quoted |-> r, escaped |-> FALSE]

(* Trim keeps two texts after each other,                                  *)
LEMMA KeepBoth ==
  ASSUME NEW a \in Chars, NEW b \in Chars, NEW p \in BOOLEAN, NEW q \in BOOLEAN,
         NEW r \in BOOLEAN, Keeps(a, p, q), Keeps(b, q, r)
  PROVE  Keeps(a \o b, p, r)
  <1> SUFFICES ASSUME NEW s \in Chars, NEW u, NEW i \in Nat, i > 0, Stands(s, i, a \o b),
                      Trimming(s, u), u[i - 1].quoted = p, u[i - 1].escaped = FALSE
               PROVE  u[i + Len(a \o b) - 1] =
                        [text |-> u[i - 1].text \o (a \o b), quoted |-> r, escaped |-> FALSE]
    BY Zenon DEF Keeps
  <1>1. /\ Stands(s, i, a) /\ Stands(s, i + Len(a), b)
        /\ i + Len(a \o b) = (i + Len(a)) + Len(b) /\ i + Len(a) \in Nat
    BY StandBoth
  <1>2. PICK j \in Nat : j = i + Len(a)
    BY <1>1
  <1>3. Len(a) \in Nat /\ Len(s) \in Nat /\ j > 0 /\ j - 1 \in Nat /\ i - 1 \in 0 .. Len(s)
    BY ONLY <1>1, <1>2, a \in Chars, s \in Chars, i \in Nat, i > 0, Texts DEF Stands
  <1>4. u[i + Len(a) - 1] = [text |-> u[i - 1].text \o a, quoted |-> q, escaped |-> FALSE]
    BY <1>1, Zenon DEF Keeps
  <1>5. i + Len(a) - 1 = j - 1
    BY ONLY <1>2, <1>3, i \in Nat
  <1>6. u[j - 1].quoted = q /\ u[j - 1].escaped = FALSE /\ u[j - 1].text = u[i - 1].text \o a
    <2>1. PICK x : x = u[i - 1].text \o a
      OBVIOUS
    <2>2. u[j - 1] = [text |-> x, quoted |-> q, escaped |-> FALSE]
      BY ONLY <1>4, <1>5, <2>1
    <2>3. u[j - 1].text = x
      BY ONLY <2>2
    <2>4. u[j - 1].quoted = q
      BY ONLY <2>2
    <2>5. u[j - 1].escaped = FALSE
      BY ONLY <2>2
    <2> QED BY ONLY <2>1, <2>3, <2>4, <2>5
  <1>7. Stands(s, j, b)
    BY <1>1, <1>2
  <1>8. u[j + Len(b) - 1] = [text |-> u[j - 1].text \o b, quoted |-> r, escaped |-> FALSE]
    BY ONLY <1>3, <1>6, <1>7, Trimming(s, u), Keeps(b, q, r), s \in Chars, j \in Nat, Zenon DEF Keeps
  <1>9. j + Len(b) - 1 = i + Len(a \o b) - 1
    BY ONLY <1>1, <1>2
  <1>10. (u[i - 1].text \o a) \o b = u[i - 1].text \o (a \o b)
    <2>1. u[i - 1].text \in Chars
      BY <1>3 DEF Trimming, TrimState
    <2> QED
      <3>1. PICK x \in Chars : x = u[i - 1].text
        BY <2>1
      <3>2. (x \o a) \o b = x \o (a \o b)
        BY ONLY x \in Chars, a \in Chars, b \in Chars DEF Chars
      <3> QED BY ONLY <3>1, <3>2
  <1> QED BY ONLY <1>6, <1>8, <1>9, <1>10

(* one character, when TrimChar does,                                      *)
LEMMA KeepOne ==
  ASSUME NEW c \in Char, NEW q \in BOOLEAN, NEW r \in BOOLEAN,
         \A x \in TrimState :
           x.quoted = q /\ x.escaped = FALSE =>
             TrimChar(x, c) = [text |-> Append(x.text, c), quoted |-> r, escaped |-> FALSE]
  PROVE  Keeps(<<c>>, q, r)
  <1> SUFFICES ASSUME NEW s \in Chars, NEW u, NEW i \in Nat, i > 0, Stands(s, i, <<c>>),
                      Trimming(s, u), u[i - 1].quoted = q, u[i - 1].escaped = FALSE
               PROVE  u[i + Len(<<c>>) - 1] =
                        [text |-> u[i - 1].text \o <<c>>, quoted |-> r, escaped |-> FALSE]
    BY Zenon DEF Keeps
  <1>1. Len(<<c>>) = 1 /\ s[i] = c /\ i \in 1 .. Len(s) /\ i - 1 \in 0 .. Len(s)
        /\ i + Len(<<c>>) - 1 = i
    BY Texts DEF Stands
  <1>2. u[i] = TrimChar(u[i - 1], c) /\ u[i - 1] \in TrimState
    BY <1>1 DEF Trimming
  <1>3. u[i] = [text |-> Append(u[i - 1].text, c), quoted |-> r, escaped |-> FALSE]
    BY <1>2
  <1>4. Append(u[i - 1].text, c) = u[i - 1].text \o <<c>>
    <2>1. u[i - 1].text \in Chars
      BY <1>2 DEF TrimState
    <2> QED
      <3>1. PICK x \in Chars : x = u[i - 1].text
        BY <2>1
      <3>2. Append(x, c) = x \o <<c>>
        BY ONLY x \in Chars, c \in Char DEF Chars
      <3> QED BY ONLY <3>1, <3>2
  <1> QED BY ONLY <1>1, <1>3, <1>4

(* What is trimmed from beginning to end.                                  *)
LEMMA KeptWhole ==
  ASSUME NEW s \in Chars, Keeps(s, FALSE, FALSE)
  PROVE  Trim(s) = s
  <1>1. PICK u \in [0 .. Len(s) -> TrimState] :
           /\ u[0] = Untrimmed
           /\ \A i \in 1 .. Len(s) : u[i] = TrimChar(u[i - 1], s[i])
           /\ Trim(s) = u[Len(s)].text
    BY TrimIs
  <1>2. Trimming(s, u)
    BY <1>1 DEF Trimming
  <1>3. Len(s) \in Nat /\ 1 - 1 = 0 /\ 1 + Len(s) - 1 = Len(s)
    BY Texts
  <1>4. Stands(s, 1, s)
    BY <1>3 DEF Stands
  <1>5. u[1 - 1].quoted = FALSE /\ u[1 - 1].escaped = FALSE /\ u[1 - 1].text = <<>>
    BY ONLY <1>1, <1>3 DEF Untrimmed
  <1>6. u[1 + Len(s) - 1] = [text |-> u[1 - 1].text \o s, quoted |-> FALSE, escaped |-> FALSE]
    <2>1. 1 \in Nat /\ 1 > 0
      OBVIOUS
    <2> QED BY ONLY <1>2, <1>4, <1>5, <2>1, Keeps(s, FALSE, FALSE), s \in Chars, Zenon DEF Keeps
  <1>7. <<>> \o s = s
    BY DEF Chars
  <1> QED BY ONLY <1>1, <1>3, <1>5, <1>6, <1>7

(* An escaped character is kept in a string, blanks included.              *)
LEMMA KeepPair ==
  ASSUME NEW x \in Char, x \notin Space
  PROVE  <<Backslash, x>> \in Chars /\ Keeps(<<Backslash, x>>, TRUE, TRUE)
  <1>0. Backslash \in Char /\ Backslash \notin Space /\ Backslash # Quote
    BY CharAssumption DEF Backslash, Space, Quote
  <1>1. PICK w \in Chars : w = <<Backslash, x>> /\ Len(w) = 2 /\ w[1] = Backslash /\ w[2] = x
    <2>1. <<Backslash, x>> \in Seq(Char)
      BY ONLY <1>0, x \in Char
    <2> QED BY ONLY <2>1 DEF Chars
  <1>2. ASSUME NEW s \in Chars, NEW u, NEW i \in Nat, i > 0, Stands(s, i, w),
               Trimming(s, u), u[i - 1].quoted = TRUE, u[i - 1].escaped = FALSE
        PROVE  u[i + Len(w) - 1] =
                 [text |-> u[i - 1].text \o w, quoted |-> TRUE, escaped |-> FALSE]
    <2>1. /\ s[i] = Backslash /\ s[i + 1] = x /\ i \in 1 .. Len(s) /\ i + 1 \in 1 .. Len(s)
          /\ i - 1 \in 0 .. Len(s) /\ i + Len(w) - 1 = i + 1 /\ (i + 1) - 1 = i
      <3>1. i + 2 <= Len(s) + 1 /\ s[i + 1 - 1] = Backslash /\ s[i + 2 - 1] = x
        BY <1>1, <1>2 DEF Stands
      <3> QED BY <1>1, <1>2, <3>1, Texts
    <2>2. PICK r \in TrimState : r = u[i - 1]
      BY <1>2, <2>1 DEF Trimming
    <2>3. u[i] = TrimChar(r, Backslash) /\ u[i + 1] = TrimChar(u[i], x)
      BY <1>2, <2>1, <2>2 DEF Trimming
    <2>4. u[i] = [text |-> Append(r.text, Backslash), quoted |-> TRUE, escaped |-> TRUE]
      BY <1>0, <1>2, <2>2, <2>3 DEF TrimChar
    <2>5. u[i + 1] = [text |-> Append(Append(r.text, Backslash), x), quoted |-> TRUE, escaped |-> FALSE]
      <3>1. PICK v : v = u[i]
        OBVIOUS
      <3>2. v.text = Append(r.text, Backslash) /\ v.quoted = TRUE /\ v.escaped = TRUE
        BY ONLY <2>4, <3>1
      <3>3. u[i + 1] = TrimChar(v, x)
        BY ONLY <2>3, <3>1
      <3> QED BY ONLY <3>2, <3>3, x \notin Space DEF TrimChar
    <2>6. Append(Append(r.text, Backslash), x) = r.text \o w
      <3>1. PICK y \in Chars : y = r.text
        BY DEF TrimState
      <3>2. Append(Append(y, Backslash), x) = y \o w
        BY ONLY <1>0, <1>1, y \in Chars, x \in Char DEF Chars
      <3> QED BY ONLY <3>1, <3>2
    <2> QED BY ONLY <2>1, <2>2, <2>5, <2>6
  <1>3. Keeps(w, TRUE, TRUE)
    BY <1>2, Zenon DEF Keeps
  <1> QED BY <1>1, <1>3

(* a character of a string as it is escaped,                               *)
LEMMA KeepEncodedChar ==
  ASSUME NEW c \in Char
  PROVE  Keeps(EncodeChar(c), TRUE, TRUE)
  <1>1. /\ Quote \in Char /\ Backslash \in Char /\ "n" \in Char
        /\ Quote \notin Space /\ Backslash \notin Space /\ "n" \notin Space
        /\ Quote # Backslash /\ "\n" # Quote /\ "\n" # Backslash
    BY CharAssumption DEF Quote, Backslash, Space
  <1>2. CASE c = Quote
    <2>1. EncodeChar(c) = <<Backslash, Quote>>
      BY <1>1, <1>2 DEF EncodeChar
    <2> QED BY <1>1, <2>1, KeepPair
  <1>3. CASE c = Backslash
    <2>1. EncodeChar(c) = <<Backslash, Backslash>>
      BY <1>1, <1>3 DEF EncodeChar
    <2> QED BY <1>1, <2>1, KeepPair
  <1>4. CASE c = "\n"
    <2>1. EncodeChar(c) = <<Backslash, "n">>
      BY <1>1, <1>4 DEF EncodeChar
    <2> QED BY <1>1, <2>1, KeepPair
  <1>5. CASE c \notin {Quote, Backslash, "\n"}
    <2>1. EncodeChar(c) = <<c>>
      BY <1>5 DEF EncodeChar
    <2>2. ASSUME NEW x \in TrimState, x.quoted = TRUE, x.escaped = FALSE
          PROVE  TrimChar(x, c) = [text |-> Append(x.text, c), quoted |-> TRUE, escaped |-> FALSE]
      BY <1>5, <2>2 DEF TrimChar
    <2>3. Keeps(<<c>>, TRUE, TRUE)
      BY <2>2, KeepOne
    <2> QED BY <2>1, <2>3
  <1> QED BY <1>2, <1>3, <1>4, <1>5

(* no text,                                                                *)
LEMMA KeepNone == ASSUME NEW q \in BOOLEAN PROVE Keeps(<<>>, q, q)
  <1> SUFFICES ASSUME NEW s \in Chars, NEW u, NEW i \in Nat, i > 0, Stands(s, i, <<>>),
                      Trimming(s, u), u[i - 1].quoted = q, u[i - 1].escaped = FALSE
               PROVE  u[i + Len(<<>>) - 1] =
                        [text |-> u[i - 1].text \o <<>>, quoted |-> q, escaped |-> FALSE]
    BY Zenon DEF Keeps
  <1>1. i - 1 \in 0 .. Len(s) /\ i + Len(<<>>) - 1 = i - 1
    BY Texts DEF Stands
  <1>2. PICK r \in TrimState : r = u[i - 1]
    BY <1>1 DEF Trimming
  <1>3. PICK y \in Chars : y = r.text
    BY DEF TrimState
  <1>4. y \o <<>> = y
    BY DEF Chars
  <1>5. r = [text |-> y, quoted |-> r.quoted, escaped |-> r.escaped]
    BY <1>3 DEF TrimState
  <1>6. r = [text |-> y, quoted |-> q, escaped |-> FALSE]
    BY <1>2, <1>5
  <1> QED BY ONLY <1>1, <1>2, <1>3, <1>4, <1>6

(* and the whole of an escaped string.                                     *)
LEMMA KeepEncoded ==
  ASSUME NEW t \in Chars
  PROVE  Keeps(Encode(t), TRUE, TRUE)
  <1>1. PICK u \in [0 .. Len(t) -> Chars] :
           /\ u[0] = <<>>
           /\ \A i \in 1 .. Len(t) : u[i] = u[i - 1] \o EncodeChar(t[i])
           /\ Encode(t) = u[Len(t)]
    BY EncodeIs
  <1>2. PICK n \in Nat : n = Len(t)
    BY Texts
  <1> DEFINE P == {i \in Nat : i <= n => Keeps(u[i], TRUE, TRUE)}
  <1>3. 0 \in P
    BY <1>1, KeepNone
  <1>4. ASSUME NEW i \in Nat, i < n, i \in P PROVE i + 1 \in P
    <2>1. i + 1 \in 1 .. n /\ (i + 1) - 1 = i /\ i \in 0 .. n /\ Keeps(u[i], TRUE, TRUE)
      BY <1>4
    <2>2. PICK a \in Chars : a = u[i]
      BY <1>1, <1>2, <2>1
    <2>3. PICK c \in Char : c = t[i + 1]
      BY <1>2, <2>1 DEF Chars
    <2>4. PICK b \in Chars : b = EncodeChar(c)
      BY EncodedChar
    <2>5. u[i + 1] = a \o b
      BY <1>1, <1>2, <2>1, <2>2, <2>3, <2>4
    <2>6. Keeps(a, TRUE, TRUE) /\ Keeps(b, TRUE, TRUE)
      BY <2>1, <2>2, <2>4, KeepEncodedChar
    <2>7. Keeps(a \o b, TRUE, TRUE)
      BY <2>6, KeepBoth
    <2>8. Keeps(u[i + 1], TRUE, TRUE)
      BY ONLY <2>5, <2>7
    <2>9. i + 1 \in Nat
      OBVIOUS
    <2> QED BY ONLY <2>8, <2>9, Zenon DEF P
  <1> HIDE DEF P
  <1>5. 0 .. n \subseteq P
    BY ONLY n \in Nat, <1>3, <1>4, UpTo
  <1>6. n \in P
    BY <1>5
  <1> QED BY <1>1, <1>2, <1>6 DEF P

(* What may stand between quotes: its string ends at its own quote, and    *)
(* Trim keeps it.                                                          *)
Token == {e \in Chars : Spans(e) /\ Keeps(e, TRUE, TRUE)}

(* Every escaped text may.                                                 *)
LEMMA EncodedIsToken == ASSUME NEW t \in Chars PROVE Encode(t) \in Token
  <1>1. Encode(t) \in Chars /\ Spans(Encode(t))
    BY EncodedSpans
  <1>2. Keeps(Encode(t), TRUE, TRUE)
    BY KeepEncoded
  <1> QED BY <1>1, <1>2 DEF Token

(* The texts that are skipped and kept.                                    *)
Neat == {t \in Chars : Skips(t) /\ Keeps(t, FALSE, FALSE)}

(* Trim and the search pass neatly over no text,                           *)
LEMMA NeatNone == <<>> \in Neat
  BY SkipNone, KeepNone, Texts DEF Neat

(* over two texts after each other,                                        *)
LEMMA NeatBoth == ASSUME NEW a \in Neat, NEW b \in Neat PROVE a \o b \in Neat
  <1>1. a \in Chars /\ b \in Chars /\ Skips(a) /\ Skips(b)
        /\ Keeps(a, FALSE, FALSE) /\ Keeps(b, FALSE, FALSE)
    BY DEF Neat
  <1>2. Skips(a \o b) /\ a \o b \in Chars
    BY <1>1, SkipBoth, Texts
  <1>3. Keeps(a \o b, FALSE, FALSE)
    BY <1>1, KeepBoth
  <1> QED BY <1>2, <1>3 DEF Neat

(* (a character outside strings is kept)                                   *)
LEMMA KeepOutside ==
  ASSUME NEW c \in Char, c \notin Space \union {Quote, Backslash}
  PROVE  Keeps(<<c>>, FALSE, FALSE)
  <1>1. ASSUME NEW x \in TrimState, x.quoted = FALSE, x.escaped = FALSE
        PROVE  TrimChar(x, c) = [text |-> Append(x.text, c), quoted |-> FALSE, escaped |-> FALSE]
    BY <1>1 DEF TrimChar
  <1> QED BY <1>1, KeepOne

(* over a character that is neither mark nor blank,                        *)
LEMMA NeatOne == ASSUME NEW c \in Char, c \notin Mark \union Space PROVE <<c>> \in Neat
  <1>1. Keeps(<<c>>, FALSE, FALSE)
    BY KeepOutside DEF Mark
  <1>2. Skips(<<c>>) /\ <<c>> \in Chars
    BY SkipOne, Texts
  <1> QED BY <1>1, <1>2 DEF Neat

(* over a string,                                                          *)
LEMMA NeatString == ASSUME NEW e \in Token PROVE Quoted(e) \in Neat
  <1>1. Quote \in Char /\ Quote \notin Space /\ Quote # Backslash
    BY CharAssumption DEF Quote, Space, Backslash
  <1>2. ASSUME NEW q \in BOOLEAN, NEW x \in TrimState, x.quoted = q, x.escaped = FALSE
        PROVE  TrimChar(x, Quote) = [text |-> Append(x.text, Quote), quoted |-> ~q, escaped |-> FALSE]
    BY <1>1, <1>2 DEF TrimChar
  <1>3. Keeps(<<Quote>>, FALSE, TRUE)
    BY <1>1, <1>2, KeepOne
  <1>4. Keeps(<<Quote>>, TRUE, FALSE)
    BY <1>1, <1>2, KeepOne
  <1>5. e \in Chars /\ Spans(e)
    BY DEF Token
  <1>6. PICK z \in Chars : z = <<Quote>>
    BY <1>1, Texts
  <1>7. Keeps(e, TRUE, TRUE)
    BY DEF Token
  <1>8. z \o e \in Chars
    BY <1>5, Texts
  <1>9. Keeps(z \o e, FALSE, TRUE)
    BY <1>3, <1>6, <1>5, <1>7, KeepBoth
  <1>10. Keeps((z \o e) \o z, FALSE, FALSE)
    BY <1>4, <1>6, <1>8, <1>9, KeepBoth
  <1>11. Quoted(e) = (z \o e) \o z
    BY <1>6 DEF Quoted
  <1>12. Quoted(e) \in Chars /\ Skips(Quoted(e))
    BY ONLY <1>5, SkipString
  <1> QED BY <1>10, <1>11, <1>12 DEF Neat

(* over a container of such a text,                                        *)
LEMMA NeatContainer ==
  ASSUME NEW t \in Neat, NEW o \in Opening
  PROVE  <<o>> \o t \o <<Closes(o)>> \in Neat
  <1>1. PICK c \in Char : c = Closes(o) /\ c \notin Space \union {Quote, Backslash}
    BY CharAssumption DEF Closes, Space, Quote, Backslash
  <1>2. o \in Char /\ o \notin Space \union {Quote, Backslash}
    BY CharAssumption DEF Opening, Space, Quote, Backslash
  <1>3. PICK x \in Chars : x = <<o>>
    BY <1>2, Texts
  <1>4. PICK y \in Chars : y = <<c>>
    BY Texts
  <1>5. Keeps(x, FALSE, FALSE) /\ Keeps(y, FALSE, FALSE)
    BY <1>1, <1>2, <1>3, <1>4, KeepOutside
  <1>6. t \in Chars /\ Keeps(t, FALSE, FALSE) /\ Skips(t)
    BY DEF Neat
  <1>7. x \o t \in Chars
    BY <1>6, Texts
  <1>8. Keeps(x \o t, FALSE, FALSE)
    BY <1>5, <1>6, KeepBoth
  <1>9. Keeps((x \o t) \o y, FALSE, FALSE)
    BY <1>5, <1>7, <1>8, KeepBoth
  <1>10. <<o>> \o t \o <<Closes(o)>> \in Chars /\ Skips(<<o>> \o t \o <<Closes(o)>>)
    BY <1>6, SkipContainer
  <1>11. <<o>> \o t \o <<Closes(o)>> = (x \o t) \o y
    BY <1>1, <1>3, <1>4
  <1> QED BY <1>9, <1>10, <1>11 DEF Neat

(* over a number,                                                          *)
LEMMA NeatDigits == ASSUME NEW t \in Seq(Digit) PROVE t \in Neat
  <1>1. Digit \subseteq Char
    BY CharAssumption
  <1>2. t \in Chars
    BY <1>1 DEF Chars
  <1>3. PICK n \in Nat : n = Len(t)
    BY <1>2, Texts
  <1> DEFINE P == {i \in Nat : i <= n => SubSeq(t, 1, i) \in Neat}
  <1>4. 0 \in P
    <2>1. SubSeq(t, 1, 0) = <<>>
      BY SubSeqEmpty
    <2> QED BY <2>1, NeatNone
  <1>5. ASSUME NEW i \in Nat, i < n, i \in P PROVE i + 1 \in P
    <2>1. SubSeq(t, 1, i) \in Neat /\ i + 1 \in 1 .. n
      BY <1>5
    <2>2. SubSeq(t, 1, i + 1) = SubSeq(t, 1, i) \o <<t[i + 1]>>
      BY <1>2, <1>3, <1>5, OneMore
    <2>3. t[i + 1] \in Digit
      BY <1>3, <2>1
    <2>4. t[i + 1] \in Char /\ t[i + 1] \notin Mark \union Space
      BY <1>1, <2>3 DEF Digit, Mark, Bracket, Space, Quote, Backslash
    <2>5. <<t[i + 1]>> \in Neat
      BY <2>4, NeatOne
    <2>6. SubSeq(t, 1, i + 1) \in Neat
      BY ONLY <2>1, <2>2, <2>5, NeatBoth
    <2>7. i + 1 \in Nat
      OBVIOUS
    <2> QED BY ONLY <2>6, <2>7, Zenon DEF P
  <1> HIDE DEF P
  <1>6. 0 .. n \subseteq P
    BY ONLY n \in Nat, <1>4, <1>5, UpTo
  <1>7. n \in P
    BY <1>6
  <1>8. SubSeq(t, 1, n) = t
    BY <1>2, <1>3, SubSeqFull DEF Chars
  <1>9. n <= n
    OBVIOUS
  <1>10. SubSeq(t, 1, n) \in Neat
    BY ONLY <1>7, <1>9, Zenon DEF P
  <1> QED BY ONLY <1>8, <1>10

(* and over such texts with commas between them.                           *)
LEMMA NeatJoined ==
  ASSUME NEW texts \in Seq(Chars), \A i \in 1 .. Len(texts) : texts[i] \in Neat
  PROVE  Joined(texts) \in Neat
  <1>1. PICK u \in [0 .. Len(texts) -> Chars] :
           /\ u[0] = <<>>
           /\ \A i \in 1 .. Len(texts) : u[i] = u[i - 1] \o (IF i > 1 THEN <<",">> ELSE <<>>) \o texts[i]
           /\ Joined(texts) = u[Len(texts)]
    BY JoinedIs
  <1>2. PICK n \in Nat : n = Len(texts)
    OBVIOUS
  <1>3. <<",">> \in Neat
    <2>1. "," \in Char /\ "," \notin Mark \union Space
      BY CharAssumption DEF Mark, Bracket, Space, Quote, Backslash
    <2> QED BY <2>1, NeatOne
  <1> DEFINE P == {i \in Nat : i <= n => u[i] \in Neat}
  <1>4. 0 \in P
    BY <1>1, NeatNone
  <1>5. ASSUME NEW i \in Nat, i < n, i \in P PROVE i + 1 \in P
    <2>1. i + 1 \in 1 .. n /\ (i + 1) - 1 = i /\ u[i] \in Neat
      BY <1>5
    <2>2. PICK c \in Neat : c = (IF i + 1 > 1 THEN <<",">> ELSE <<>>)
      BY <1>3, NeatNone
    <2>3. PICK t \in Neat : t = texts[i + 1]
      BY <1>2, <2>1
    <2>4. u[i + 1] = (u[i] \o c) \o t
      BY <1>1, <1>2, <2>1, <2>2, <2>3
    <2>5. PICK a \in Neat : a = u[i]
      BY <2>1
    <2>6. a \o c \in Neat
      BY NeatBoth
    <2>7. (a \o c) \o t \in Neat
      BY <2>6, NeatBoth
    <2>8. u[i + 1] \in Neat
      BY ONLY <2>4, <2>5, <2>7
    <2>9. i + 1 \in Nat
      OBVIOUS
    <2> QED BY ONLY <2>8, <2>9, Zenon DEF P
  <1> HIDE DEF P
  <1>6. 0 .. n \subseteq P
    BY ONLY n \in Nat, <1>4, <1>5, UpTo
  <1>7. n \in P
    BY <1>6
  <1>8. n <= n
    OBVIOUS
  <1>9. u[n] \in Neat
    BY ONLY <1>7, <1>8, Zenon DEF P
  <1> QED BY ONLY <1>1, <1>2, <1>9

-----------------------------------------------------------------------------
(* What is written is found again as one token.                            *)

(* A text whose end is found, unless a digit follows.                      *)
Found(t) ==
  \A s \in Chars : \A i \in Nat :
    i > 0 /\ Stands(s, i, t) /\ (i + Len(t) <= Len(s) => s[i + Len(t)] \notin Digit) =>
      GetEndChPos(s, i) = i + Len(t) - 1

(* The end of a string is found, whatever is behind it,                    *)
LEMMA FoundString == ASSUME NEW e \in Token PROVE Found(Quoted(e))
  <1>1. e \in Chars /\ Spans(e)
    BY DEF Token
  <1>2. PICK q \in Chars : q = Quoted(e) /\ Len(q) = Len(e) + 2
    BY <1>1, QuotedLen
  <1>3. Len(e) \in Nat
    BY <1>1, Texts
  <1>4. q[1] = Quote
    <2>1. q = <<Quote>> \o e \o <<Quote>>
      BY <1>2 DEF Quoted
    <2> QED BY <2>1, <1>1, <1>3 DEF Chars
  <1>5. ASSUME NEW s \in Chars, NEW i \in Nat, i > 0, Stands(s, i, q)
        PROVE  GetEndChPos(s, i) = i + Len(q) - 1
    <2>1. s[i] = Quote
      <3>1. s[i + 1 - 1] = q[1]
        BY <1>2, <1>3, <1>5 DEF Stands
      <3> QED BY <1>4, <3>1
    <2>2. StringEnd(s, i) = i + Len(e) + 1
      BY ONLY <1>1, <1>2, <1>5, s \in Chars, i \in Nat DEF Spans
    <2>3. GetEndChPos(s, i) = StringEnd(s, i)
      BY <2>1, TokenKinds DEF GetEndChPos
    <2> QED BY <1>2, <1>3, <2>2, <2>3
  <1>6. Found(q)
    BY <1>5, Zenon DEF Found
  <1> QED BY <1>2, <1>6

(* that of a container,                                                    *)
LEMMA FoundContainer ==
  ASSUME NEW t \in Chars, NEW o \in Opening, Skips(t)
  PROVE  Found(<<o>> \o t \o <<Closes(o)>>)
  <1>1. Closes(o) \in Char /\ o \in Char
    BY CharAssumption DEF Closes, Opening
  <1>2. PICK w \in Chars : w = <<o>> \o t \o <<Closes(o)>> /\ Len(w) = Len(t) + 2
    BY <1>1, Bracketed
  <1>3. ASSUME NEW s \in Chars, NEW i \in Nat, i > 0, Stands(s, i, w)
        PROVE  GetEndChPos(s, i) = i + Len(w) - 1
    <2>1. GetEndChPos(s, i) = i + Len(t) + 1 /\ Len(t) \in Nat
      BY <1>2, <1>3, ContainerSpan
    <2> QED BY <1>2, <2>1
  <1>4. Found(w)
    BY <1>3, Zenon DEF Found
  <1> QED BY <1>2, <1>4

(* that of a word,                                                         *)
LEMMA FoundWord ==
  ASSUME NEW c \in Char, c \notin Digit \union Opening \union {Quote}
  PROVE  Found(<<c>>)
  <1>1. ASSUME NEW s \in Chars, NEW i \in Nat, i > 0, Stands(s, i, <<c>>)
        PROVE  GetEndChPos(s, i) = i + Len(<<c>>) - 1
    <2>1. Len(<<c>>) = 1 /\ s[i] = c /\ i + Len(<<c>>) - 1 = i
      BY <1>1, Texts DEF Stands
    <2>2. s[i] \notin Digit \union {"[", "{", Quote}
      BY <2>1 DEF Opening
    <2>3. GetEndChPos(s, i) = i
      BY <2>2, TokenKinds DEF GetEndChPos
    <2> QED BY <2>1, <2>3
  <1> QED BY <1>1, Zenon DEF Found

(* and that of a number.                                                   *)
LEMMA FoundNumber ==
  ASSUME NEW t \in Seq(Digit), t # <<>>
  PROVE  Found(t)
  <1>1. t \in Chars
    <2>1. Digit \subseteq Char
      BY CharAssumption
    <2> QED BY ONLY <2>1, t \in Seq(Digit) DEF Chars
  <1>2. PICK n \in Nat : n = Len(t) /\ n > 0 /\ \A k \in 1 .. n : t[k] \in Digit
    BY <1>1, Texts DEF Chars
  <1>3. ASSUME NEW s \in Chars, NEW i \in Nat, i > 0, Stands(s, i, t),
               i + Len(t) <= Len(s) => s[i + Len(t)] \notin Digit
        PROVE  GetEndChPos(s, i) = i + Len(t) - 1
    <2>1. PICK m \in Nat : m = Len(s) /\ i + n <= m + 1 /\ \A k \in 1 .. n : s[i + k - 1] = t[k]
      BY <1>2, <1>3, Texts DEF Stands
    <2>2. s[i] \in Digit
      <3>1. s[i + 1 - 1] = t[1] /\ t[1] \in Digit
        BY <1>2, <2>1
      <3> QED BY <3>1
    <2> DEFINE D == {j \in i .. m : \A k \in i + 1 .. j : s[k] \in Digit}
    <2>3. GetEndChPos(s, i) = Max(D)
      BY <2>1, <2>2, TokenKinds DEF GetEndChPos, NumberEnd
    <2>4. i + n - 1 \in D
      <3>1. ASSUME NEW k \in i + 1 .. i + n - 1 PROVE s[k] \in Digit
        <4>1. k - i + 1 \in 1 .. n /\ i + (k - i + 1) - 1 = k
          BY <1>2, <1>3
        <4> QED BY <1>2, <2>1, <4>1
      <3>2. i + n - 1 \in i .. m
        BY <1>2, <2>1
      <3> QED BY <3>1, <3>2
    <2>5. ASSUME NEW j \in D PROVE j <= i + n - 1
      <3>1. j \in i .. m /\ \A k \in i + 1 .. j : s[k] \in Digit
        OBVIOUS
      <3>2. SUFFICES ASSUME j > i + n - 1 PROVE FALSE
        BY <1>2, <3>1
      <3>3. i + n \in i + 1 .. j /\ i + n <= m
        BY <1>2, <3>1, <3>2
      <3>4. s[i + n] \in Digit
        BY <3>1, <3>3
      <3> QED BY <1>2, <1>3, <2>1, <3>3, <3>4
    <2>6. D \in SUBSET (0 .. m)
      OBVIOUS
    <2> HIDE DEF D
    <2>7. Max(D) \in D /\ \A y \in D : y <= Max(D)
      BY <2>4, <2>6, MaxIn
    <2>8. Max(D) = i + n - 1
      <3>1. PICK x : x = Max(D)
        OBVIOUS
      <3>2. x \in 0 .. m /\ x <= i + n - 1 /\ i + n - 1 <= x
        BY ONLY <2>4, <2>5, <2>6, <2>7, <3>1
      <3> QED BY ONLY <3>1, <3>2, n \in Nat, i \in Nat, m \in Nat
    <2> QED BY <1>2, <2>3, <2>8
  <1> QED BY <1>3, Zenon DEF Found

(* Three texts are found in the whole.                                     *)
LEMMA ThreeParts ==
  ASSUME NEW a \in Chars, NEW c \in Chars, NEW t \in Chars
  PROVE  /\ Len(a) \in Nat /\ Len(c) \in Nat /\ Len(t) \in Nat
         /\ (a \o c) \o t \in Chars
         /\ Len((a \o c) \o t) = Len(a) + Len(c) + Len(t)
         /\ \A k \in 1 .. Len(a) : ((a \o c) \o t)[k] = a[k]
         /\ \A k \in 1 .. Len(c) : ((a \o c) \o t)[Len(a) + k] = c[k]
         /\ \A k \in 1 .. Len(t) : ((a \o c) \o t)[Len(a) + Len(c) + k] = t[k]
  <1>1. Len(a) \in Nat /\ Len(c) \in Nat /\ Len(t) \in Nat
    BY Texts
  <1>2. PICK b \in Chars : b = a \o c
    BY Texts
  <1>3. /\ Len(a \o c) = Len(a) + Len(c)
        /\ \A k \in 1 .. Len(a) : (a \o c)[k] = a[k]
        /\ \A k \in 1 .. Len(c) : (a \o c)[Len(a) + k] = c[k]
    BY ONLY a \in Chars, c \in Chars, Parts
  <1>4. /\ b \o t \in Chars
        /\ Len(b \o t) = Len(b) + Len(t)
        /\ \A k \in 1 .. Len(b) : (b \o t)[k] = b[k]
        /\ \A k \in 1 .. Len(t) : (b \o t)[Len(b) + k] = t[k]
    BY ONLY b \in Chars, t \in Chars, Parts
  <1>5. PICK w : w = b \o t
    OBVIOUS
  <1>6. /\ w \in Chars /\ Len(w) = Len(a) + Len(c) + Len(t)
        /\ \A k \in 1 .. Len(a) : w[k] = a[k]
        /\ \A k \in 1 .. Len(c) : w[Len(a) + k] = c[k]
        /\ \A k \in 1 .. Len(t) : w[Len(a) + Len(c) + k] = t[k]
    BY ONLY <1>1, <1>2, <1>3, <1>4, <1>5
  <1> QED BY ONLY <1>1, <1>2, <1>5, <1>6

(* Where the texts of a list stand.                                        *)
Places(s, texts, p) ==
  \A k \in 1 .. Len(texts) :
    /\ Stands(s, p[k], texts[k])
    /\ p[k + 1] = p[k] + Len(texts[k]) + 1

(* Where the texts are in a text that joins them.                          *)
LEMMA JoinedPlaces ==
  ASSUME NEW texts \in Seq(Chars), Len(texts) > 0
  PROVE  \E p \in [1 .. Len(texts) + 1 -> Nat \ {0}] :
           /\ p[1] = 1 /\ p[Len(texts) + 1] = Len(Joined(texts)) + 2
           /\ Places(Joined(texts), texts, p)
           /\ \A k \in 2 .. Len(texts) : Joined(texts)[p[k] - 1] = ","
           /\ Joined(texts) \in Chars
  <1>1. PICK u \in [0 .. Len(texts) -> Chars] :
           /\ u[0] = <<>>
           /\ \A i \in 1 .. Len(texts) : u[i] = u[i - 1] \o (IF i > 1 THEN <<",">> ELSE <<>>) \o texts[i]
           /\ Joined(texts) = u[Len(texts)]
    BY JoinedIs
  <1>2. PICK n \in Nat : n = Len(texts) /\ n > 0
    OBVIOUS
  <1>3. <<",">> \in Chars /\ Len(<<",">>) = 1 /\ <<>> \in Chars /\ Len(<<>>) = 0
    BY CharAssumption, Texts
  <1>4. \A i \in 1 .. n : texts[i] \in Chars /\ Len(texts[i]) \in Nat
    BY <1>2, Texts
  <1>5. PICK l \in [0 .. n -> Nat] : \A i \in 0 .. n : l[i] = Len(u[i])
    <2>1. \A i \in 0 .. n : Len(u[i]) \in Nat
      BY <1>2, Texts
    <2> QED
      <3>1. [i \in 0 .. n |-> Len(u[i])] \in [0 .. n -> Nat]
        BY <2>1
      <3> QED BY <3>1
  <1> DEFINE gap == [i \in 1 .. n |-> IF i > 1 THEN 1 ELSE 0]
  <1>18. \A i \in 1 .. n : gap[i] \in Nat /\ gap[i] = IF i > 1 THEN 1 ELSE 0
    OBVIOUS
  <1> HIDE DEF gap
  <1>6. ASSUME NEW i \in 1 .. n
        PROVE  /\ l[i] = l[i - 1] + gap[i] + Len(texts[i])
               /\ \A j \in 1 .. l[i - 1] : u[i][j] = u[i - 1][j]
               /\ i > 1 => u[i][l[i - 1] + 1] = ","
               /\ \A j \in 1 .. Len(texts[i]) : u[i][l[i - 1] + gap[i] + j] = texts[i][j]
    <2>1. PICK a \in Chars : a = u[i - 1] /\ Len(a) = l[i - 1]
      BY <1>2, <1>5
    <2>2. PICK t \in Chars : t = texts[i]
      BY <1>4
    <2>3. PICK c \in Chars : c = (IF i > 1 THEN <<",">> ELSE <<>>)
      BY <1>3
    <2>4. Len(c) = gap[i] /\ (i > 1 => c[1] = ",")
      <3>1. CASE i > 1
        <4>1. c = <<",">>
          BY ONLY <2>3, <3>1
        <4> QED BY ONLY <1>3, <1>18, i \in 1 .. n, <3>1, <4>1
      <3>2. CASE ~(i > 1)
        <4>1. c = <<>>
          BY ONLY <2>3, <3>2
        <4> QED BY ONLY <1>3, <1>18, i \in 1 .. n, <3>2, <4>1
      <3> QED BY <3>1, <3>2
    <2>5. u[i] = (a \o c) \o t
      BY <1>1, <1>2, <2>1, <2>2, <2>3
    <2>6. /\ Len((a \o c) \o t) = Len(a) + Len(c) + Len(t)
          /\ \A k \in 1 .. Len(a) : ((a \o c) \o t)[k] = a[k]
          /\ \A k \in 1 .. Len(c) : ((a \o c) \o t)[Len(a) + k] = c[k]
          /\ \A k \in 1 .. Len(t) : ((a \o c) \o t)[Len(a) + Len(c) + k] = t[k]
      BY ONLY a \in Chars, c \in Chars, t \in Chars, ThreeParts
    <2>7. l[i] = Len(u[i])
      BY <1>5
    <2>8. l[i] = l[i - 1] + gap[i] + Len(texts[i])
      BY ONLY <2>1, <2>2, <2>4, <2>5, <2>6, <2>7
    <2>9. \A j \in 1 .. l[i - 1] : u[i][j] = u[i - 1][j]
      BY ONLY <2>1, <2>5, <2>6
    <2>10. i > 1 => u[i][l[i - 1] + 1] = ","
      <3>1. ASSUME i > 1 PROVE 1 \in 1 .. Len(c)
        <4>1. Len(c) = 1
          BY ONLY <1>18, <2>4, i \in 1 .. n, <3>1
        <4>2. 1 \in 1 .. 1
          OBVIOUS
        <4> QED BY ONLY <4>1, <4>2
      <3> QED BY ONLY <2>1, <2>4, <2>5, <2>6, <3>1
    <2>11. \A j \in 1 .. Len(texts[i]) : u[i][l[i - 1] + gap[i] + j] = texts[i][j]
      BY ONLY <2>1, <2>2, <2>4, <2>5, <2>6
    <2> QED BY <2>8, <2>9, <2>10, <2>11
  <1> DEFINE P == {m \in Nat : m <= n => \A k \in 0 .. m : l[k] <= l[m] /\ \A j \in 1 .. l[k] : u[m][j] = u[k][j]}
  <1>7. 0 \in P
    BY <1>5
  <1>8. ASSUME NEW m \in Nat, m < n, m \in P PROVE m + 1 \in P
    <2>1. \A k \in 0 .. m : l[k] <= l[m] /\ \A j \in 1 .. l[k] : u[m][j] = u[k][j]
      BY <1>8
    <2>2. m + 1 \in 1 .. n /\ (m + 1) - 1 = m /\ m \in 0 .. n
      BY <1>8
    <2>3. l[m] <= l[m + 1] /\ \A j \in 1 .. l[m] : u[m + 1][j] = u[m][j]
      <3>1. PICK i \in 1 .. n : i = m + 1
        BY <2>2
      <3>2. l[i] = l[i - 1] + gap[i] + Len(texts[i]) /\ \A j \in 1 .. l[i - 1] : u[i][j] = u[i - 1][j]
        BY ONLY <1>6, i \in 1 .. n
      <3>3. l[i - 1] \in Nat /\ gap[i] \in Nat /\ Len(texts[i]) \in Nat /\ i - 1 = m
        BY <1>4, <1>5, <1>18, <2>2, <3>1
      <3> QED BY ONLY <3>1, <3>2, <3>3
    <2>4. ASSUME NEW k \in 0 .. m + 1
          PROVE  l[k] <= l[m + 1] /\ \A j \in 1 .. l[k] : u[m + 1][j] = u[k][j]
      <3>1. CASE k = m + 1
        BY <2>2, <3>1
      <3>2. CASE k # m + 1
        <4>1. k \in 0 .. m /\ k \in 0 .. n
          BY <2>2, <3>2
        <4>2. l[k] \in Nat /\ l[m] \in Nat /\ l[m + 1] \in Nat
          BY <1>5, <2>2, <4>1
        <4> QED BY <2>1, <2>3, <4>1, <4>2
      <3> QED BY <3>1, <3>2
    <2> QED BY <2>4
  <1> HIDE DEF P
  <1>9. 0 .. n \subseteq P
    BY ONLY n \in Nat, <1>7, <1>8, UpTo
  <1>10. \A k \in 0 .. n : l[k] <= l[n] /\ \A j \in 1 .. l[k] : u[n][j] = u[k][j]
    <2>1. n \in P
      BY <1>9
    <2> QED BY <2>1 DEF P
  <1> DEFINE p == [k \in 1 .. n + 1 |-> l[k - 1] + (IF k > 1 THEN 2 ELSE 1)]
  <1>11. p \in [1 .. n + 1 -> Nat \ {0}]
    BY <1>5
  <1>12. p[1] = 1 /\ p[n + 1] = Len(u[n]) + 2
    <2>1. u[0] = <<>>
      BY <1>1
    <2>2. l[0] = 0
      <3>1. 0 \in 0 .. n
        OBVIOUS
      <3>2. l[0] = Len(u[0])
        BY ONLY <1>5, <3>1
      <3> QED BY ONLY <1>3, <2>1, <3>2
    <2> QED BY <1>2, <1>5, <2>2
  <1>13. \A k \in 1 .. n + 1 : p[k] = l[k - 1] + (IF k > 1 THEN 2 ELSE 1)
    OBVIOUS
  <1> HIDE DEF p
  <1>14. ASSUME NEW k \in 1 .. n
         PROVE  Stands(u[n], p[k], texts[k]) /\ p[k + 1] = p[k] + Len(texts[k]) + 1
    <2>1. k - 1 \in 0 .. n /\ k \in 0 .. n /\ n \in 0 .. n /\ k \in 1 .. n + 1
          /\ k + 1 \in 1 .. n + 1 /\ k + 1 > 1 /\ (k + 1) - 1 = k
      OBVIOUS
    <2>2. PICK x \in Nat, y \in Nat, z \in Nat, g \in Nat, t \in Nat :
            x = l[k - 1] /\ y = l[k] /\ z = l[n] /\ g = gap[k] /\ t = Len(texts[k])
      BY ONLY <1>4, <1>5, <1>18, <2>1, k \in 1 .. n
    <2>3. p[k] = x + g + 1
      <3>1. p[k] = x + (IF k > 1 THEN 2 ELSE 1)
        BY ONLY <1>13, <2>1, <2>2
      <3>2. g = IF k > 1 THEN 1 ELSE 0
        BY ONLY <1>18, <2>2, k \in 1 .. n
      <3> QED BY ONLY <3>1, <3>2, x \in Nat
    <2>4. p[k + 1] = y + 2
      <3>1. p[k + 1] = l[(k + 1) - 1] + (IF k + 1 > 1 THEN 2 ELSE 1)
        BY ONLY <1>13, <2>1
      <3> QED BY ONLY <2>1, <2>2, <3>1
    <2>5. y = x + g + t /\ \A j \in 1 .. t : u[k][x + g + j] = texts[k][j]
      <3>1. /\ l[k] = l[k - 1] + gap[k] + Len(texts[k])
            /\ \A j \in 1 .. Len(texts[k]) : u[k][l[k - 1] + gap[k] + j] = texts[k][j]
        BY ONLY <1>6, k \in 1 .. n
      <3> QED BY ONLY <2>2, <3>1
    <2>11. PICK w : w = p[k]
      OBVIOUS
    <2>12. w = x + g + 1 /\ w + t + 1 = y + 2
      BY ONLY <2>3, <2>5, <2>11, x \in Nat, g \in Nat, t \in Nat
    <2>6. p[k + 1] = p[k] + Len(texts[k]) + 1
      BY ONLY <2>2, <2>4, <2>11, <2>12
    <2>7. y <= z /\ \A j \in 1 .. y : u[n][j] = u[k][j]
      BY ONLY <1>10, <2>1, <2>2
    <2>8. Len(u[n]) = z
      BY ONLY <1>5, <2>1, <2>2
    <2>13. w + t <= z + 1
      BY ONLY <2>12, <2>5, <2>7, x \in Nat, g \in Nat, t \in Nat, z \in Nat
    <2>9. p[k] + Len(texts[k]) <= Len(u[n]) + 1
      BY ONLY <2>2, <2>8, <2>11, <2>13
    <2>10. ASSUME NEW j \in 1 .. Len(texts[k]) PROVE u[n][p[k] + j - 1] = texts[k][j]
      <3>1. j \in 1 .. t
        BY ONLY <2>2, j \in 1 .. Len(texts[k])
      <3>2. PICK h \in Nat : h = x + g + j
        BY ONLY <3>1, x \in Nat, g \in Nat
      <3>3. h \in 1 .. y /\ p[k] + j - 1 = h
        BY ONLY <2>3, <2>5, <3>1, <3>2, x \in Nat, g \in Nat, t \in Nat
      <3>4. u[n][h] = u[k][h]
        BY ONLY <2>7, <3>3
      <3>5. u[k][h] = texts[k][j]
        BY ONLY <2>5, <3>1, <3>2
      <3> QED BY ONLY <3>3, <3>4, <3>5
    <2> QED BY ONLY <2>6, <2>9, <2>10 DEF Stands
  <1>15. ASSUME NEW k \in 2 .. n PROVE u[n][p[k] - 1] = ","
    <2>1. k - 1 \in 0 .. n /\ k \in 0 .. n /\ k \in 1 .. n /\ k \in 1 .. n + 1 /\ k > 1
      OBVIOUS
    <2>2. PICK x \in Nat, y \in Nat, t \in Nat :
            x = l[k - 1] /\ y = l[k] /\ t = Len(texts[k])
      BY ONLY <1>4, <1>5, <2>1
    <2>3. p[k] = x + 2
      BY ONLY <1>13, <2>1, <2>2
    <2>4. u[k][x + 1] = "," /\ y = x + gap[k] + t
      BY ONLY <1>6, <2>1, <2>2
    <2>5. gap[k] = 1
      BY ONLY <1>18, <2>1
    <2>9. PICK w : w = p[k]
      OBVIOUS
    <2>10. y = x + 1 + t
      BY ONLY <2>4, <2>5
    <2>11. x + 1 \in 1 .. y /\ w - 1 = x + 1
      BY ONLY <2>3, <2>9, <2>10, x \in Nat, t \in Nat
    <2>6. x + 1 \in 1 .. y /\ p[k] - 1 = x + 1
      BY ONLY <2>9, <2>11
    <2>7. \A j \in 1 .. y : u[n][j] = u[k][j]
      BY ONLY <1>10, <2>1, <2>2
    <2>8. u[n][x + 1] = u[k][x + 1]
      BY ONLY <2>6, <2>7
    <2> QED BY ONLY <2>4, <2>6, <2>8
  <1>16. u[n] = Joined(texts) /\ u[n] \in Chars
    <2>1. n \in 0 .. Len(texts)
      BY <1>2
    <2>2. u[n] \in Chars
      BY ONLY <2>1, u \in [0 .. Len(texts) -> Chars]
    <2> QED BY ONLY <1>1, <1>2, <2>2
  <1>17. Places(u[n], texts, p)
    BY <1>2, <1>14 DEF Places
  <1> QED BY <1>2, <1>11, <1>12, <1>15, <1>16, <1>17

(* Where the texts of a list stand when it is in brackets.                 *)
LEMMA ListPlaces ==
  ASSUME NEW texts \in Seq(Chars), Len(texts) > 0, NEW a \in Char, NEW b \in Char,
         NEW s, s = <<a>> \o Joined(texts) \o <<b>>
  PROVE  /\ s \in Chars /\ Len(texts[1]) + 2 <= Len(s)
         /\ \E p \in [1 .. Len(texts) + 1 -> Nat \ {0}] :
           /\ p[1] = 2 /\ p[Len(texts) + 1] = Len(s) + 1
           /\ Places(s, texts, p)
           /\ \A k \in 1 .. Len(texts) : s[p[k + 1] - 1] \in {",", b}
  <1>1. PICK n \in Nat : n = Len(texts) /\ n > 0
    OBVIOUS
  <1>2. PICK q \in [1 .. n + 1 -> Nat \ {0}] :
           /\ q[1] = 1 /\ q[n + 1] = Len(Joined(texts)) + 2
           /\ Places(Joined(texts), texts, q)
           /\ \A k \in 2 .. n : Joined(texts)[q[k] - 1] = ","
           /\ Joined(texts) \in Chars
    BY <1>1, JoinedPlaces
  <1>3. PICK j \in Chars : j = Joined(texts)
    BY <1>2
  <1>4. PICK m \in Nat : m = Len(j)
    BY Texts
  <1>5. PICK x \in Chars : x = <<a>> /\ Len(x) = 1
    BY Texts
  <1>6. PICK y \in Chars : y = <<b>> /\ Len(y) = 1
    BY Texts
  <1>7. /\ (x \o j) \o y \in Chars
        /\ Len((x \o j) \o y) = Len(x) + Len(j) + Len(y)
        /\ \A k \in 1 .. Len(j) : ((x \o j) \o y)[Len(x) + k] = j[k]
        /\ \A k \in 1 .. Len(y) : ((x \o j) \o y)[Len(x) + Len(j) + k] = y[k]
    BY ONLY x \in Chars, j \in Chars, y \in Chars, ThreeParts
  <1>8. s = (x \o j) \o y
    BY <1>3, <1>5, <1>6
  <1>9. s \in Chars /\ Len(s) = m + 2 /\ \A k \in 1 .. m : s[1 + k] = j[k]
    BY ONLY <1>4, <1>5, <1>6, <1>7, <1>8, m \in Nat
  <1>10. s[m + 2] = b
    <2>1. 1 \in 1 .. Len(y) /\ y[1] = b
      BY <1>6
    <2>2. ((x \o j) \o y)[Len(x) + Len(j) + 1] = b
      BY ONLY <1>7, <2>1
    <2>3. Len(x) + Len(j) + 1 = m + 2
      BY ONLY <1>4, <1>5, m \in Nat
    <2> QED BY ONLY <1>8, <2>2, <2>3
  <1> DEFINE p == [k \in 1 .. n + 1 |-> q[k] + 1]
  <1>11. p \in [1 .. n + 1 -> Nat \ {0}]
    OBVIOUS
  <1>12. \A k \in 1 .. n + 1 : p[k] = q[k] + 1
    OBVIOUS
  <1> HIDE DEF p
  <1>13. p[1] = 2 /\ p[n + 1] = Len(s) + 1
    <2>1. 1 \in 1 .. n + 1 /\ n + 1 \in 1 .. n + 1
      BY <1>1
    <2>2. p[1] = 1 + 1 /\ p[n + 1] = (m + 2) + 1
      BY ONLY <1>2, <1>3, <1>4, <1>12, <2>1
    <2> QED BY ONLY <1>9, <2>2, m \in Nat
  <1>14. ASSUME NEW k \in 1 .. n
         PROVE  Stands(s, p[k], texts[k]) /\ p[k + 1] = p[k] + Len(texts[k]) + 1
    <2>1. k \in 1 .. n + 1 /\ k + 1 \in 1 .. n + 1
      OBVIOUS
    <2>2. Stands(j, q[k], texts[k]) /\ q[k + 1] = q[k] + Len(texts[k]) + 1
      BY ONLY <1>1, <1>2, <1>3, k \in 1 .. n DEF Places
    <2>3. PICK z \in Nat, w \in Nat, l \in Nat : z = q[k] /\ w = q[k + 1] /\ l = Len(texts[k]) /\ z > 0
      <3>1. texts[k] \in Chars
        BY <1>1
      <3>2. Len(texts[k]) \in Nat
        BY <3>1, Texts
      <3> QED BY ONLY <2>1, <3>2, q \in [1 .. n + 1 -> Nat \ {0}]
    <2>4. z + l <= m + 1 /\ \A i \in 1 .. l : j[z + i - 1] = texts[k][i]
      BY ONLY <2>2, <2>3, <1>4 DEF Stands
    <2>5. ASSUME NEW i \in 1 .. l PROVE s[(z + 1) + i - 1] = texts[k][i]
      <3>1. z + i - 1 \in 1 .. m /\ 1 + (z + i - 1) = (z + 1) + i - 1
        <4>1. z + l <= m + 1 /\ z > 0
          BY ONLY <2>3, <2>4
        <4> QED BY ONLY <4>1, i \in 1 .. l, z \in Nat, l \in Nat, m \in Nat
      <3>2. s[1 + (z + i - 1)] = j[z + i - 1]
        BY ONLY <1>9, <3>1
      <3> QED BY ONLY <2>4, <3>1, <3>2, i \in 1 .. l
    <2>6. (z + 1) + l <= Len(s) + 1
      BY ONLY <1>9, <2>4, z \in Nat, l \in Nat, m \in Nat
    <2>7. p[k] = z + 1 /\ p[k + 1] = w + 1
      BY ONLY <1>12, <2>1, <2>3
    <2>8. Stands(s, z + 1, texts[k])
      BY ONLY <2>3, <2>5, <2>6 DEF Stands
    <2>9. w = z + l + 1
      BY ONLY <2>2, <2>3
    <2>10. w + 1 = (z + 1) + l + 1
      BY ONLY <2>9, z \in Nat, l \in Nat
    <2> QED BY ONLY <2>3, <2>7, <2>8, <2>10
  <1>15. ASSUME NEW k \in 1 .. n PROVE s[p[k + 1] - 1] \in {",", b}
    <2>1. k + 1 \in 1 .. n + 1 /\ k + 1 \in Nat
      OBVIOUS
    <2>2. PICK w \in Nat : w = q[k + 1]
      BY ONLY <2>1, q \in [1 .. n + 1 -> Nat \ {0}]
    <2>3. p[k + 1] = w + 1 /\ (w + 1) - 1 = w
      BY ONLY <1>12, <2>1, <2>2
    <2>4. CASE k = n
      <3>1. w = m + 2
        BY ONLY <1>2, <1>3, <1>4, <2>2, <2>4
      <3> QED BY ONLY <1>10, <2>3, <3>1
    <2>5. CASE k # n
      <3>1. k + 1 \in 2 .. n
        BY ONLY <2>5, k \in 1 .. n, n \in Nat
      <3>2. j[w - 1] = ","
        BY ONLY <1>2, <1>3, <2>2, <3>1
      <3>3. w - 1 \in 1 .. m /\ 1 + (w - 1) = w
        <4>1. Stands(j, q[k], texts[k]) /\ w = q[k] + Len(texts[k]) + 1
          BY ONLY <1>1, <1>2, <1>3, <2>2, k \in 1 .. n DEF Places
        <4>2. Stands(j, q[k + 1], texts[k + 1])
          <5>1. k + 1 \in 1 .. Len(texts)
            BY ONLY <1>1, k \in 1 .. n, <3>1, n \in Nat
          <5>2. PICK i \in 1 .. Len(texts) : i = k + 1
            BY ONLY <5>1
          <5>3. Stands(j, q[i], texts[i])
            BY ONLY <1>2, <1>3, i \in 1 .. Len(texts) DEF Places
          <5> QED BY ONLY <5>2, <5>3
        <4>3. PICK z \in Nat, l \in Nat, v \in Nat : z = q[k] /\ l = Len(texts[k]) /\ v = Len(texts[k + 1]) /\ z > 0
          <5>1. texts[k] \in Chars /\ texts[k + 1] \in Chars
            BY <1>1, <3>1
          <5>2. Len(texts[k]) \in Nat /\ Len(texts[k + 1]) \in Nat
            BY <5>1, Texts
          <5>3. q[k] \in Nat /\ q[k] > 0
            BY <1>1
          <5> QED BY ONLY <5>2, <5>3
        <4>4. w = z + l + 1
          BY ONLY <4>1, <4>3
        <4>5. w + v <= m + 1
          BY ONLY <1>4, <2>2, <4>2, <4>3 DEF Stands
        <4>6. w - 1 \in 1 .. m + 1
          <5>1. z > 0
            BY ONLY <4>3
          <5> QED BY ONLY <5>1, <4>4, <4>5, z \in Nat, l \in Nat, v \in Nat, m \in Nat
        <4>7. w - 1 <= m
          BY ONLY <4>5, v \in Nat, m \in Nat, w \in Nat
        <4> QED BY ONLY <4>6, <4>7, m \in Nat, w \in Nat
      <3>4. s[1 + (w - 1)] = j[w - 1]
        BY ONLY <1>9, <3>3
      <3> QED BY ONLY <2>3, <3>2, <3>3, <3>4
    <2> QED BY <2>4, <2>5
  <1>16. Places(s, texts, p)
    BY ONLY <1>1, <1>14 DEF Places
  <1>17. Len(texts[1]) + 2 <= Len(s)
    <2>1. 1 \in 1 .. Len(texts) /\ Len(texts[1]) \in Nat
      <3>1. texts[1] \in Chars
        BY <1>1
      <3> QED BY <1>1, <3>1, Texts
    <2>2. Stands(j, 1, texts[1])
      BY ONLY <1>2, <1>3, <2>1 DEF Places
    <2>3. 1 + Len(texts[1]) <= m + 1
      BY ONLY <1>4, <2>2 DEF Stands
    <2> QED BY ONLY <1>9, <2>1, <2>3, m \in Nat
  <1> QED BY ONLY <1>1, <1>9, <1>11, <1>13, <1>15, <1>16, <1>17

-----------------------------------------------------------------------------
(* Elements and members, one after the other.                              *)

(* The end of a token is not before its start.                             *)
LEMMA EndBound ==
  ASSUME NEW s \in Chars, NEW i \in 0 .. Len(s)
  PROVE  GetEndChPos(s, i) \in i .. Len(s)
  <1>1. i + 1 \in Nat
    OBVIOUS
  <1>2. ContainerEnd(s)[i + 1] \in [Bracket -> 0 .. Len(s)]
    <2>1. ContainerEnd(s) \in [Nat -> [Bracket -> 0 .. Len(s)]]
      BY ContainerEndIs
    <2> QED BY ONLY <1>1, <2>1
  <1>3. PICK c \in [Bracket -> 0 .. Len(s)] : c = ContainerEnd(s)[i + 1]
    BY <1>2
  <1>4. TokenEnd(s, i, c) \in i .. Len(s)
    BY TokenEndBound
  <1> QED BY ONLY <1>3, <1>4 DEF GetEndChPos

(* What is read from position i of an array's text.                        *)
ElementsAt(s, parsed, i, f) ==
  IF i > Len(s) THEN <<>>
  ELSE LET e == GetEndChPos(s, i)
       IN  <<parsed[SubSeq(s, i, e)]>> \o f[e + 2]

(* Elements obeys its recursive definition.                                *)
LEMMA ElementsIs ==
  ASSUME NEW s \in Chars, NEW parsed
  PROVE  \E f : /\ Elements(s, parsed) = f[2]
                /\ \A i \in Nat : f[i] = ElementsAt(s, parsed, i, f)
  <1> DEFINE D(f) == [i \in Nat |-> ElementsAt(s, parsed, i, f)]
             c == CHOOSE f : f = D(f)
  <1>1. Elements(s, parsed) = c[2]
    BY DEF Elements, ElementsAt
  <1>2. PICK n \in Nat : n = Len(s)
    BY Texts
  <1>3. PICK R : \A i \in Nat : \A e \in Nat : parsed[SubSeq(s, i, e)] \in R
    <2> DEFINE Q == {parsed[SubSeq(s, i, e)] : i \in Nat, e \in Nat}
    <2>1. \A i \in Nat : \A e \in Nat : parsed[SubSeq(s, i, e)] \in Q
      OBVIOUS
    <2> HIDE DEF Q
    <2> QED BY ONLY <2>1, Zenon
  <1>4. PICK S : S = Seq(R)
    OBVIOUS
  <1>5. ASSUME NEW i \in Nat, NEW f \in [Nat -> S] PROVE ElementsAt(s, parsed, i, f) \in S
    <2>1. <<>> \in S
      BY ONLY <1>4
    <2>2. CASE i > Len(s)
      BY ONLY <2>1, <2>2, Zenon DEF ElementsAt
    <2>3. CASE ~(i > Len(s))
      <3>1. i \in 0 .. Len(s)
        BY <1>2, <2>3
      <3>2. PICK e \in Nat : e = GetEndChPos(s, i)
        BY <1>2, <3>1, EndBound
      <3>3. e + 2 \in Nat
        OBVIOUS
      <3>4. PICK t \in Seq(R) : t = f[e + 2]
        BY ONLY <1>4, <3>3, f \in [Nat -> S]
      <3>5. PICK x \in R : x = parsed[SubSeq(s, i, e)]
        BY ONLY <1>3, e \in Nat, i \in Nat
      <3>6. <<x>> \o t \in Seq(R)
        OBVIOUS
      <3>7. ElementsAt(s, parsed, i, f) = <<x>> \o t
        BY ONLY <2>3, <3>2, <3>4, <3>5, Zenon DEF ElementsAt
      <3> QED BY ONLY <1>4, <3>6, <3>7
    <2> QED BY <2>2, <2>3
  <1>6. ASSUME NEW i \in Nat, NEW f, NEW h, i > n \/ \A j \in Nat : j > i => f[j] = h[j]
        PROVE  ElementsAt(s, parsed, i, f) = ElementsAt(s, parsed, i, h)
    <2>1. CASE i > Len(s)
      BY ONLY <2>1, Zenon DEF ElementsAt
    <2>2. CASE ~(i > Len(s))
      <3>1. i \in 0 .. Len(s) /\ ~(i > n)
        BY <1>2, <2>2
      <3>2. PICK e \in Nat : e = GetEndChPos(s, i) /\ e >= i
        BY <1>2, <3>1, EndBound
      <3>3. f[e + 2] = h[e + 2]
        <4>1. e + 2 \in Nat /\ e + 2 > i
          BY ONLY <3>2, i \in Nat, e \in Nat
        <4> QED BY ONLY <1>6, <3>1, <4>1
      <3> QED BY ONLY <3>2, <3>3, Zenon DEF ElementsAt
    <2> QED BY <2>1, <2>2
  <1> DEFINE G == [i \in Nat |-> [f \in [Nat -> S] |-> ElementsAt(s, parsed, i, f)]]
  <1>7. \A i \in Nat : \A f \in [Nat -> S] : G[i][f] = ElementsAt(s, parsed, i, f)
    OBVIOUS
  <1>8. G \in [Nat -> [[Nat -> S] -> S]]
    BY <1>5
  <1>9. PICK f0 \in [Nat -> S] : TRUE
    <2>1. [i \in Nat |-> <<>>] \in [Nat -> S]
      BY <1>4
    <2> QED BY <2>1
  <1> HIDE DEF G, c
  <1>10. LooksBehind(S, n, G)
    BY <1>6, <1>7 DEF LooksBehind
  <1>11. PICK f \in [Nat -> S] : \A i \in Nat : f[i] = G[i][f]
    <2> HIDE DEF D
    <2>1. PICK g : g = G
      OBVIOUS
    <2>2. \E f : IsRightFold(S, g, f)
      BY ONLY <1>8, f0 \in [Nat -> S], <1>10, n \in Nat, <2>1, FromTheRight
    <2> QED BY <2>1, <2>2 DEF IsRightFold
  <1>12. \A i \in Nat : f[i] = ElementsAt(s, parsed, i, f)
    BY <1>7, <1>11
  <1>13. c = D(c)
    <2>1. f = D(f)
      BY <1>12
    <2> QED BY <2>1 DEF c
  <1>14. \A i \in Nat : c[i] = ElementsAt(s, parsed, i, c)
    BY <1>13
  <1> QED BY ONLY <1>1, <1>14

(* What is read from position i of an object's text.                       *)
NoMembers(complete) == [complete |-> complete, keys |-> <<>>, kids |-> <<>>]
MembersAt(s, parsed, i, f) ==
  IF i > Len(s) THEN NoMembers(TRUE)
  ELSE LET e    == GetEndChPos(s, i)
           g    == GetEndChPos(s, e + 2)
           rest == f[g + 2]
       IN  IF e + 1 > Len(s) \/ s[e + 1] # ":"
             THEN NoMembers(FALSE)
             ELSE [complete |-> rest.complete,
                   keys |-> <<SubSeq(s, i + 1, e - 1)>> \o rest.keys,
                   kids |-> <<parsed[SubSeq(s, e + 2, g)]>> \o rest.kids]

(* So does Members.                                                        *)
LEMMA MembersIs ==
  ASSUME NEW s \in Chars, NEW parsed, s # <<>>, s[Len(s)] # ":"
  PROVE  \E f : /\ Members(s, parsed) = f[2]
                /\ \A i \in Nat : f[i] = MembersAt(s, parsed, i, f)
  <1> DEFINE D(f) == [i \in Nat |-> MembersAt(s, parsed, i, f)]
             c == CHOOSE f : f = D(f)
  <1>1. Members(s, parsed) = c[2]
    BY DEF Members, ReadMember, MembersAt, NoMembers
  <1>2. PICK n \in Nat : n = Len(s)
    BY Texts
  <1>3. PICK R : \A i \in Nat : \A e \in Nat : parsed[SubSeq(s, i, e)] \in R
    <2> DEFINE Q == {parsed[SubSeq(s, i, e)] : i \in Nat, e \in Nat}
    <2>1. \A i \in Nat : \A e \in Nat : parsed[SubSeq(s, i, e)] \in Q
      OBVIOUS
    <2> HIDE DEF Q
    <2> QED BY ONLY <2>1, Zenon
  <1>4. PICK K : \A i \in Nat : \A e \in Nat : SubSeq(s, i + 1, e - 1) \in K
    <2> DEFINE CutOff(i, e) == SubSeq(s, i + 1, e - 1)
               Q == {CutOff(i, e) : i \in Nat, e \in Nat}
    <2> HIDE DEF CutOff
    <2>1. \A i \in Nat : \A e \in Nat : CutOff(i, e) \in Q
      OBVIOUS
    <2> USE DEF CutOff
    <2> HIDE DEF Q
    <2> QED BY ONLY <2>1, Zenon
  <1>5. PICK S : S = [complete : BOOLEAN, keys : Seq(K), kids : Seq(R)]
    OBVIOUS
  <1>6. NoMembers(TRUE) \in S /\ NoMembers(FALSE) \in S
    BY <1>5 DEF NoMembers
  <1>7. ASSUME NEW i \in 0 .. Len(s)
        PROVE  \E e \in Nat :
                 /\ e = GetEndChPos(s, i) /\ e >= i
                 /\ e + 1 > Len(s) \/ s[e + 1] # ":" \/
                      \E g \in Nat : g = GetEndChPos(s, e + 2) /\ g >= e + 2
    <2>1. PICK e \in Nat : e = GetEndChPos(s, i) /\ e >= i
      BY <1>2, EndBound
    <2>2. ASSUME ~(e + 1 > Len(s)), s[e + 1] = ":"
          PROVE  \E g \in Nat : g = GetEndChPos(s, e + 2) /\ g >= e + 2
      <3>1. e + 1 # n
        BY <1>2, <2>2
      <3>2. e + 2 \in 0 .. Len(s)
        BY ONLY <1>2, <2>2, <3>1, e \in Nat, n \in Nat
      <3>3. PICK k \in 0 .. Len(s) : k = e + 2
        BY <3>2
      <3>4. GetEndChPos(s, k) \in k .. Len(s)
        BY EndBound
      <3> QED BY <1>2, <3>3, <3>4
    <2> QED BY <2>1, <2>2
  <1>8. ASSUME NEW i \in Nat, NEW f \in [Nat -> S] PROVE MembersAt(s, parsed, i, f) \in S
    <2>1. CASE i > Len(s)
      BY ONLY <1>6, <2>1, Zenon DEF MembersAt
    <2>2. CASE ~(i > Len(s))
      <3>1. i \in 0 .. Len(s)
        BY <1>2, <2>2
      <3>2. PICK e \in Nat :
                 /\ e = GetEndChPos(s, i) /\ e >= i
                 /\ e + 1 > Len(s) \/ s[e + 1] # ":" \/
                      \E g \in Nat : g = GetEndChPos(s, e + 2) /\ g >= e + 2
        BY <1>7, <3>1
      <3>3. CASE e + 1 > Len(s) \/ s[e + 1] # ":"
        <4>1. MembersAt(s, parsed, i, f) = NoMembers(FALSE)
          BY ONLY <2>2, <3>2, <3>3, Zenon DEF MembersAt
        <4> QED BY ONLY <1>6, <4>1
      <3>4. CASE ~(e + 1 > Len(s) \/ s[e + 1] # ":")
        <4>1. PICK g \in Nat : g = GetEndChPos(s, e + 2)
          BY <3>2, <3>4
        <4>2. g + 2 \in Nat
          OBVIOUS
        <4>3. PICK rest \in S : rest = f[g + 2]
          BY ONLY <4>2, f \in [Nat -> S]
        <4>4. rest.complete \in BOOLEAN /\ rest.keys \in Seq(K) /\ rest.kids \in Seq(R)
          BY ONLY <1>5, rest \in S
        <4>5. PICK k \in K : k = SubSeq(s, i + 1, e - 1)
          BY ONLY <1>4, i \in Nat, e \in Nat
        <4>6. PICK x \in R : x = parsed[SubSeq(s, e + 2, g)]
          <5>1. e + 2 \in Nat
            OBVIOUS
          <5> QED BY ONLY <1>3, <5>1, g \in Nat
        <4>7. MembersAt(s, parsed, i, f) =
                [complete |-> rest.complete, keys |-> <<k>> \o rest.keys, kids |-> <<x>> \o rest.kids]
          BY ONLY <2>2, <3>2, <3>4, <4>1, <4>3, <4>5, <4>6, Zenon DEF MembersAt
        <4>8. PICK y \in Seq(K) : y = <<k>> \o rest.keys
          <5>1. PICK ks \in Seq(K) : ks = rest.keys
            BY ONLY <4>4
          <5>2. <<k>> \o ks \in Seq(K)
            OBVIOUS
          <5> QED BY ONLY <5>1, <5>2
        <4>9. PICK z \in Seq(R) : z = <<x>> \o rest.kids
          <5>1. PICK ks \in Seq(R) : ks = rest.kids
            BY ONLY <4>4
          <5>2. <<x>> \o ks \in Seq(R)
            OBVIOUS
          <5> QED BY ONLY <5>1, <5>2
        <4> QED BY ONLY <1>5, <4>4, <4>7, <4>8, <4>9
      <3> QED BY <3>3, <3>4
    <2> QED BY <2>1, <2>2
  <1>9. ASSUME NEW i \in Nat, NEW f, NEW h, i > n \/ \A j \in Nat : j > i => f[j] = h[j]
        PROVE  MembersAt(s, parsed, i, f) = MembersAt(s, parsed, i, h)
    <2>1. CASE i > Len(s)
      BY ONLY <2>1, Zenon DEF MembersAt
    <2>2. CASE ~(i > Len(s))
      <3>1. i \in 0 .. Len(s) /\ ~(i > n)
        BY <1>2, <2>2
      <3>2. PICK e \in Nat :
                 /\ e = GetEndChPos(s, i) /\ e >= i
                 /\ e + 1 > Len(s) \/ s[e + 1] # ":" \/
                      \E g \in Nat : g = GetEndChPos(s, e + 2) /\ g >= e + 2
        BY <1>7, <3>1
      <3>3. CASE e + 1 > Len(s) \/ s[e + 1] # ":"
        BY ONLY <2>2, <3>2, <3>3, Zenon DEF MembersAt
      <3>4. CASE ~(e + 1 > Len(s) \/ s[e + 1] # ":")
        <4>1. PICK g \in Nat : g = GetEndChPos(s, e + 2) /\ g >= e + 2
          BY <3>2, <3>4
        <4>2. f[g + 2] = h[g + 2]
          <5>1. g + 2 \in Nat /\ g + 2 > i
            BY ONLY <3>2, <4>1, i \in Nat, e \in Nat, g \in Nat
          <5> QED BY ONLY <1>9, <3>1, <5>1
        <4> QED BY ONLY <2>2, <3>2, <4>1, <4>2, Zenon DEF MembersAt
      <3> QED BY <3>3, <3>4
    <2> QED BY <2>1, <2>2
  <1> DEFINE G == [i \in Nat |-> [f \in [Nat -> S] |-> MembersAt(s, parsed, i, f)]]
  <1>10. \A i \in Nat : \A f \in [Nat -> S] : G[i][f] = MembersAt(s, parsed, i, f)
    OBVIOUS
  <1>11. G \in [Nat -> [[Nat -> S] -> S]]
    BY <1>8
  <1>12. PICK f0 \in [Nat -> S] : TRUE
    <2>1. [i \in Nat |-> NoMembers(TRUE)] \in [Nat -> S]
      BY <1>6
    <2> QED BY <2>1
  <1> HIDE DEF G, c
  <1>13. LooksBehind(S, n, G)
    BY <1>9, <1>10 DEF LooksBehind
  <1>14. PICK f \in [Nat -> S] : \A i \in Nat : f[i] = G[i][f]
    <2> HIDE DEF D
    <2>1. PICK g : g = G
      OBVIOUS
    <2>2. \E f : IsRightFold(S, g, f)
      BY ONLY <1>11, f0 \in [Nat -> S], <1>13, n \in Nat, <2>1, FromTheRight
    <2> QED BY <2>1, <2>2 DEF IsRightFold
  <1>15. \A i \in Nat : f[i] = MembersAt(s, parsed, i, f)
    BY <1>10, <1>14
  <1>16. c = D(c)
    <2>1. f = D(f)
      BY <1>15
    <2> QED BY <2>1 DEF c
  <1>17. \A i \in Nat : c[i] = MembersAt(s, parsed, i, c)
    BY <1>16
  <1> QED BY ONLY <1>1, <1>17

(* What is behind the entries of a sequence.                               *)
LEMMA FromHere ==
  ASSUME NEW S, NEW q \in Seq(S), NEW n \in Nat, n = Len(q)
  PROVE  /\ SubSeq(q, 1, n) = q /\ SubSeq(q, n + 1, n) = <<>>
         /\ \A m \in 1 .. n : <<q[m]>> \o SubSeq(q, m + 1, n) = SubSeq(q, m, n)
  <1>1. SubSeq(q, 1, n) = q
    OBVIOUS
  <1>2. SubSeq(q, n + 1, n) = <<>>
    OBVIOUS
  <1>3. ASSUME NEW m \in 1 .. n PROVE <<q[m]>> \o SubSeq(q, m + 1, n) = SubSeq(q, m, n)
    <2>0. q[m] \in S /\ SubSeq(q, m + 1, n) \in Seq(S) /\ SubSeq(q, m, n) \in Seq(S)
      <3>1. q[m] \in S
        OBVIOUS
      <3>2. SubSeq(q, m + 1, n) \in Seq(S)
        OBVIOUS
      <3>3. SubSeq(q, m, n) \in Seq(S)
        OBVIOUS
      <3> QED BY <3>1, <3>2, <3>3
    <2>1. PICK a \in Seq(S) : a = <<q[m]>> /\ Len(a) = 1 /\ a[1] = q[m]
      <3>1. <<q[m]>> \in Seq(S) /\ Len(<<q[m]>>) = 1 /\ <<q[m]>>[1] = q[m]
        BY <2>0
      <3> QED BY ONLY <3>1
    <2>2. PICK b \in Seq(S) : b = SubSeq(q, m + 1, n)
      BY ONLY <2>0
    <2>3. Len(b) = n - m /\ \A k \in 1 .. n - m : b[k] = q[m + k]
      BY <2>2
    <2>4. PICK c \in Seq(S) : c = SubSeq(q, m, n)
      BY ONLY <2>0
    <2>5. Len(c) = n - m + 1 /\ \A k \in 1 .. n - m + 1 : c[k] = q[m + k - 1]
      BY <2>4
    <2>6. Len(a \o b) = n - m + 1 /\ a \o b \in Seq(S)
      <3>1. a \o b \in Seq(S) /\ Len(a \o b) = Len(a) + Len(b)
        OBVIOUS
      <3>2. Len(a) = 1 /\ Len(b) = n - m
        BY ONLY <2>1, <2>3
      <3> QED BY ONLY <3>1, <3>2, n \in Nat, m \in 1 .. n
    <2>7. ASSUME NEW k \in 1 .. n - m + 1 PROVE (a \o b)[k] = c[k]
      <3>1. CASE k = 1
        BY <2>1, <2>3, <2>5, <3>1
      <3>2. CASE k # 1
        <4>1. k - 1 \in 1 .. n - m /\ m + (k - 1) = m + k - 1
          BY <3>2
        <4>2. b[k - 1] = q[m + k - 1]
          BY ONLY <2>3, <4>1
        <4>3. (a \o b)[k] = b[k - 1]
          BY <2>1, <2>3, <4>1
        <4> QED BY ONLY <2>5, <4>2, <4>3, k \in 1 .. n - m + 1
      <3> QED BY <3>1, <3>2
    <2>8. a \o b = c
      BY <2>5, <2>6, <2>7
    <2> QED BY ONLY <2>1, <2>2, <2>4, <2>8
  <1> QED BY <1>1, <1>2, <1>3

(* One text of a list: it stands at i, the next one at j, and between them *)
(* is a comma, or the bracket b.                                           *)
ItemAt(s, t, i, j, b) ==
  /\ i > 0 /\ i <= Len(s) /\ j = i + Len(t) + 1
  /\ Stands(s, i, t) /\ s[i + Len(t)] \in {",", b}

(* Where the elements are in a container's text.                           *)
LEMMA Items ==
  ASSUME NEW texts \in Seq(Chars), Len(texts) > 0, NEW a \in Char, NEW b \in Char,
         NEW s, s = <<a>> \o Joined(texts) \o <<b>>
  PROVE  /\ s \in Chars /\ Len(texts[1]) + 2 <= Len(s)
         /\ \E p \in [1 .. Len(texts) + 1 -> Nat] :
              /\ p[1] = 2 /\ p[Len(texts) + 1] = Len(s) + 1
              /\ \A k \in 1 .. Len(texts) : ItemAt(s, texts[k], p[k], p[k + 1], b)
  <1>1. s \in Chars /\ Len(texts[1]) + 2 <= Len(s)
    BY ListPlaces
  <1>2. PICK p \in [1 .. Len(texts) + 1 -> Nat \ {0}] :
           /\ p[1] = 2 /\ p[Len(texts) + 1] = Len(s) + 1
           /\ Places(s, texts, p)
           /\ \A k \in 1 .. Len(texts) : s[p[k + 1] - 1] \in {",", b}
    BY ListPlaces
  <1>3. PICK n \in Nat : n = Len(texts)
    OBVIOUS
  <1>4. PICK m \in Nat : m = Len(s)
    BY <1>1, Texts
  <1>5. ASSUME NEW k \in 1 .. n PROVE ItemAt(s, texts[k], p[k], p[k + 1], b)
    <2>1. k \in 1 .. n + 1 /\ k + 1 \in 1 .. n + 1
      OBVIOUS
    <2>2. PICK i \in Nat \ {0} : i = p[k]
      BY ONLY <1>3, <2>1, p \in [1 .. Len(texts) + 1 -> Nat \ {0}]
    <2>3. PICK j \in Nat \ {0} : j = p[k + 1]
      BY ONLY <1>3, <2>1, p \in [1 .. Len(texts) + 1 -> Nat \ {0}]
    <2>4. PICK l \in Nat : l = Len(texts[k])
      <3>1. texts[k] \in Chars
        BY <1>3
      <3> QED BY <3>1, Texts
    <2>5. Stands(s, i, texts[k]) /\ j = i + l + 1
      BY ONLY <1>2, <1>3, <2>2, <2>3, <2>4, k \in 1 .. n DEF Places
    <2>6. j <= m + 1
      <3>1. CASE k = n
        <4>1. j = m + 1
          BY ONLY <1>2, <1>3, <1>4, <2>3, <3>1
        <4> QED BY ONLY <4>1, m \in Nat
      <3>2. CASE k # n
        <4>1. PICK h \in 1 .. n : h = k + 1
          BY <3>2
        <4>2. Stands(s, p[h], texts[h])
          BY ONLY <1>2, <1>3, h \in 1 .. n DEF Places
        <4>3. PICK v \in Nat : v = Len(texts[h])
          <5>1. texts[h] \in Chars
            BY <1>3
          <5> QED BY <5>1, Texts
        <4>4. j + v <= m + 1
          BY ONLY <1>4, <2>3, <4>1, <4>2, <4>3 DEF Stands
        <4> QED BY ONLY <4>4, j \in Nat \ {0}, v \in Nat, m \in Nat
      <3> QED BY <3>1, <3>2
    <2>7. i <= m /\ i > 0
      BY ONLY <2>5, <2>6, i \in Nat \ {0}, l \in Nat, m \in Nat
    <2>8. s[j - 1] \in {",", b}
      BY ONLY <1>2, <1>3, <2>3, k \in 1 .. n
    <2>9. j - 1 = i + l
      BY ONLY <2>5, i \in Nat \ {0}, l \in Nat
    <2> QED BY ONLY <1>4, <2>2, <2>3, <2>4, <2>5, <2>7, <2>8, <2>9 DEF ItemAt
  <1> QED
    <2>1. \A k \in 1 .. Len(texts) : ItemAt(s, texts[k], p[k], p[k + 1], b)
      BY ONLY <1>3, <1>5
    <2>2. p \in [1 .. Len(texts) + 1 -> Nat]
      BY <1>3
    <2> QED BY ONLY <1>1, <1>2, <2>1, <2>2

(* The search for the end of a token that stands at i.                     *)
LEMMA EndOf ==
  ASSUME NEW s \in Chars, NEW t \in Chars, NEW i \in Nat, i > 0,
         Found(t), Stands(s, i, t), s[i + Len(t)] \notin Digit
  PROVE  GetEndChPos(s, i) = i + Len(t) - 1 /\ SubSeq(s, i, GetEndChPos(s, i)) = t
  <1>1. GetEndChPos(s, i) = i + Len(t) - 1
    BY Zenon DEF Found
  <1>2. SubSeq(s, i, i + Len(t) - 1) = t
    BY CutOut
  <1> QED BY ONLY <1>1, <1>2

(* The elements of an array are read one after the other.                  *)
LEMMA ArrayRead ==
  ASSUME NEW S, NEW kids \in Seq(S), NEW texts \in Seq(Chars), NEW parsed,
         Len(texts) = Len(kids), Len(texts) > 0,
         \A k \in 1 .. Len(texts) : Found(texts[k]) /\ parsed[texts[k]] = kids[k],
         NEW s, s = <<"[">> \o Joined(texts) \o <<"]">>
  PROVE  Elements(s, parsed) = kids
  <1>1. "[" \in Char /\ "]" \in Char /\ "," \notin Digit /\ "]" \notin Digit
    BY CharAssumption DEF Digit
  <1>2. PICK n \in Nat : n = Len(texts) /\ n > 0
    OBVIOUS
  <1>3. s \in Chars
    BY <1>1, Items
  <1>4. PICK p \in [1 .. n + 1 -> Nat] :
              /\ p[1] = 2 /\ p[n + 1] = Len(s) + 1
              /\ \A k \in 1 .. n : ItemAt(s, texts[k], p[k], p[k + 1], "]")
    BY <1>1, <1>2, Items
  <1>5. PICK f : /\ Elements(s, parsed) = f[2]
                 /\ \A i \in Nat : f[i] = ElementsAt(s, parsed, i, f)
    BY <1>3, ElementsIs
  <1>6. PICK m \in Nat : m = Len(s)
    BY <1>3, Texts
  <1>7. ASSUME NEW k \in 1 .. n
        PROVE  f[p[k]] = <<kids[k]>> \o f[p[k + 1]]
    <2>1. k \in 1 .. n + 1 /\ k + 1 \in 1 .. n + 1
      OBVIOUS
    <2>2. PICK i \in Nat, j \in Nat : i = p[k] /\ j = p[k + 1]
      BY ONLY <1>4, <2>1
    <2>3. PICK t \in Chars : t = texts[k] /\ Found(t) /\ parsed[t] = kids[k]
      BY <1>2
    <2>4. ItemAt(s, t, i, j, "]")
      BY ONLY <1>4, <2>2, <2>3, k \in 1 .. n
    <2>5. i > 0 /\ i <= m /\ j = i + Len(t) + 1 /\ Stands(s, i, t) /\ s[i + Len(t)] \notin Digit
      BY ONLY <1>1, <1>6, <2>4 DEF ItemAt
    <2>6. GetEndChPos(s, i) = i + Len(t) - 1 /\ SubSeq(s, i, GetEndChPos(s, i)) = t
      BY ONLY <1>3, t \in Chars, i \in Nat, <2>3, <2>5, EndOf
    <2>7. PICK e \in Int : e = GetEndChPos(s, i) /\ e + 2 = j
      <3>1. PICK l \in Nat : l = Len(t)
        BY Texts
      <3>2. i + l - 1 \in Int /\ (i + l - 1) + 2 = i + l + 1
        OBVIOUS
      <3> QED BY ONLY <2>5, <2>6, <3>1, <3>2
    <2>8. ~(i > Len(s))
      BY <1>6, <2>5
    <2>9. ElementsAt(s, parsed, i, f) = <<parsed[t]>> \o f[j]
      BY ONLY <2>6, <2>7, <2>8, Zenon DEF ElementsAt
    <2> QED BY ONLY <1>5, <2>2, <2>3, <2>9, i \in Nat
  <1>8. /\ SubSeq(kids, 1, n) = kids /\ SubSeq(kids, n + 1, n) = <<>>
        /\ \A k \in 1 .. n : <<kids[k]>> \o SubSeq(kids, k + 1, n) = SubSeq(kids, k, n)
    BY <1>2, FromHere
  <1> DEFINE P == {x \in Nat : x <= n => f[p[n + 1 - x]] = SubSeq(kids, n + 1 - x, n)}
  <1>9. 0 \in P
    <2>1. PICK i \in Nat : i = p[n + 1] /\ i = m + 1
      BY ONLY <1>4, <1>6, m \in Nat
    <2>2. i > Len(s)
      BY ONLY <1>6, <2>1, m \in Nat
    <2>3. f[i] = <<>>
      BY ONLY <1>5, <2>2, i \in Nat, Zenon DEF ElementsAt
    <2>4. n + 1 - 0 = n + 1
      OBVIOUS
    <2> QED BY <1>8, <2>1, <2>3, <2>4
  <1>10. ASSUME NEW x \in Nat, x < n, x \in P PROVE x + 1 \in P
    <2>1. PICK k \in 1 .. n : k = n - x /\ n + 1 - x = k + 1 /\ n + 1 - (x + 1) = k
      BY <1>10
    <2>2. f[p[k + 1]] = SubSeq(kids, k + 1, n)
      BY <1>10, <2>1
    <2>3. f[p[k]] = SubSeq(kids, k, n)
      BY ONLY <1>7, <1>8, <2>2, k \in 1 .. n
    <2>4. f[p[n + 1 - (x + 1)]] = SubSeq(kids, n + 1 - (x + 1), n)
      BY ONLY <2>1, <2>3
    <2>5. x + 1 \in Nat
      OBVIOUS
    <2> QED BY ONLY <2>4, <2>5, Zenon DEF P
  <1> HIDE DEF P
  <1>11. 0 .. n \subseteq P
    <2>1. PICK q : q = P
      OBVIOUS
    <2>2. 0 \in q /\ \A x \in Nat : x < n /\ x \in q => x + 1 \in q
      BY ONLY <1>9, <1>10, <2>1
    <2>3. 0 .. n \subseteq q
      BY ONLY n \in Nat, <2>2, UpTo
    <2> QED BY ONLY <2>1, <2>3
  <1>12. n \in P
    BY ONLY <1>11, n \in Nat
  <1>13. n <= n /\ n + 1 - n = 1
    OBVIOUS
  <1>14. f[p[1]] = SubSeq(kids, 1, n)
    BY ONLY <1>12, <1>13 DEF P
  <1> QED BY ONLY <1>4, <1>5, <1>8, <1>14

(* A property of an object's text.                                         *)
Member(raw, w) == Quoted(raw) \o <<":">> \o w

(* Where its parts stand.                                                  *)
MemberStands(s, i, raw, w, r, l) ==
  /\ Len(Member(raw, w)) = r + l + 3
  /\ Member(raw, w) \in Chars
  /\ Stands(s, i, Quoted(raw)) /\ Len(Quoted(raw)) = r + 2
  /\ s[i + r + 2] = ":" /\ i + r + 2 <= Len(s)
  /\ Stands(s, i + r + 3, w)
  /\ SubSeq(s, i + 1, i + r) = raw

(* Where the key, the colon and the value of a property are.               *)
LEMMA MemberParts ==
  ASSUME NEW raw \in Chars, NEW w \in Chars, NEW s \in Chars, NEW i \in Nat, i > 0,
         NEW r \in Nat, NEW l \in Nat, r = Len(raw), l = Len(w), Stands(s, i, Member(raw, w))
  PROVE  MemberStands(s, i, raw, w, r, l)
  <1>1. r = Len(raw) /\ l = Len(w)
    OBVIOUS
  <1>2. PICK q \in Chars : q = Quoted(raw) /\ Len(q) = r + 2
    BY <1>1, QuotedLen
  <1>3. PICK c \in Chars : c = <<":">> /\ Len(c) = 1
    BY CharAssumption, Texts
  <1>4. PICK a \in Chars : a = q \o c /\ Len(a) = r + 3
    <2>1. Len(q \o c) = Len(q) + Len(c) /\ q \o c \in Chars
      BY Texts
    <2>2. Len(q \o c) = r + 3
      BY ONLY <1>2, <1>3, <2>1, r \in Nat
    <2> QED BY ONLY <2>1, <2>2
  <1>5. a \o w \in Chars /\ Len(a \o w) = r + l + 3
    <2>1. Len(a \o w) = Len(a) + Len(w) /\ a \o w \in Chars
      BY Texts
    <2> QED BY <1>1, <1>4, <2>1
  <1>6. Member(raw, w) = a \o w
    BY <1>2, <1>3, <1>4 DEF Member
  <1>7. Stands(s, i, a) /\ Stands(s, i + Len(a), w)
    BY <1>6, StandBoth
  <1>8. Stands(s, i, q \o c)
    BY ONLY <1>4, <1>7
  <1>9. Stands(s, i, q) /\ Stands(s, i + Len(q), c)
    BY ONLY <1>8, s \in Chars, q \in Chars, c \in Chars, i \in Nat, i > 0, StandBoth
  <1>10. PICK n \in Nat : n = Len(s)
    BY Texts
  <1>11. s[i + r + 2] = ":" /\ i + r + 2 <= n
    <2>1. i + Len(q) = i + r + 2 /\ (i + r + 2) + 1 - 1 = i + r + 2
      BY ONLY <1>2, i \in Nat, r \in Nat
    <2>2. Stands(s, i + r + 2, c)
      BY ONLY <1>9, <2>1
    <2>3. (i + r + 2) + 1 <= n + 1 /\ s[(i + r + 2) + 1 - 1] = c[1]
      BY ONLY <1>3, <1>10, <2>2 DEF Stands
    <2>4. c[1] = ":"
      BY ONLY <1>3
    <2> QED BY ONLY <2>1, <2>3, <2>4, i \in Nat, r \in Nat, n \in Nat
  <1>12. Stands(s, i + r + 3, w)
    <2>1. i + Len(a) = i + r + 3
      BY ONLY <1>4, i \in Nat, r \in Nat
    <2> QED BY ONLY <1>7, <2>1
  <1>13. SubSeq(s, i + 1, i + r) = raw
    <2>1. PICK x \in Chars : x = <<Quote>> /\ Len(x) = 1
      BY CharAssumption, Texts
    <2>2. PICK b \in Chars : b = x \o raw
      BY Texts
    <2>3. q = b \o x
      BY ONLY <1>2, <2>1, <2>2 DEF Quoted
    <2>4. Stands(s, i, b \o x)
      BY ONLY <1>9, <2>3
    <2>5. Stands(s, i, b)
      BY ONLY <2>4, s \in Chars, b \in Chars, x \in Chars, i \in Nat, i > 0, StandBoth
    <2>6. Stands(s, i, x \o raw)
      BY ONLY <2>2, <2>5
    <2>7. Stands(s, i + Len(x), raw)
      BY ONLY <2>6, s \in Chars, raw \in Chars, x \in Chars, i \in Nat, i > 0, StandBoth
    <2>8. PICK j \in Nat : j = i + 1 /\ j > 0 /\ j + r - 1 = i + r
      OBVIOUS
    <2>9. Stands(s, j, raw)
      BY ONLY <2>1, <2>7, <2>8
    <2>10. SubSeq(s, j, j + Len(raw) - 1) = raw
      BY ONLY <2>8, <2>9, s \in Chars, raw \in Chars, j \in Nat, CutOut
    <2> QED BY ONLY <1>1, <2>8, <2>10
  <1> QED BY ONLY <1>2, <1>5, <1>6, <1>9, <1>10, <1>11, <1>12, <1>13 DEF MemberStands

WithMember(raw, v, rest) ==
  [complete |-> rest.complete, keys |-> <<raw>> \o rest.keys, kids |-> <<v>> \o rest.kids]

MemberItem(s, raw, w, i, j) ==
  Found(Quoted(raw)) /\ Found(w) /\ ItemAt(s, Member(raw, w), i, j, "}")
MemberAt(s, raw, w, i, j) ==
  \A parsed, f : MembersAt(s, parsed, i, f) = WithMember(raw, parsed[w], f[j])

(* Both ends of a property are found.                                      *)
LEMMA MemberRead ==
  ASSUME NEW raw \in Chars, NEW w \in Chars, NEW s \in Chars, NEW i \in Nat, NEW j \in Nat,
         MemberItem(s, raw, w, i, j)
  PROVE  MemberAt(s, raw, w, i, j)
  <1>1. /\ i > 0 /\ i <= Len(s) /\ j = i + Len(Member(raw, w)) + 1
        /\ Stands(s, i, Member(raw, w)) /\ s[i + Len(Member(raw, w))] \in {",", "}"}
    BY DEF ItemAt, MemberItem
  <1>18. Found(Quoted(raw)) /\ Found(w)
    BY DEF MemberItem
  <1>0. PICK r \in Nat, l \in Nat : r = Len(raw) /\ l = Len(w)
    BY ONLY raw \in Chars, w \in Chars, Texts
  <1>2. /\ Len(Member(raw, w)) = r + l + 3
        /\ Member(raw, w) \in Chars
        /\ Stands(s, i, Quoted(raw)) /\ Len(Quoted(raw)) = r + 2
        /\ s[i + r + 2] = ":" /\ i + r + 2 <= Len(s)
        /\ Stands(s, i + r + 3, w)
        /\ SubSeq(s, i + 1, i + r) = raw
    <2>1. i > 0 /\ Stands(s, i, Member(raw, w))
      BY ONLY <1>1
    <2>2. MemberStands(s, i, raw, w, r, l)
      BY ONLY <1>0, <2>1, raw \in Chars, w \in Chars, s \in Chars, i \in Nat, r \in Nat, l \in Nat,
              MemberParts
    <2> QED BY ONLY <2>2 DEF MemberStands
  <1>3. ":" \notin Digit /\ "," \notin Digit /\ "}" \notin Digit
    BY DEF Digit
  <1>4. PICK n \in Nat : n = Len(s)
    BY Texts
  <1>5. PICK e \in Nat : e = i + r + 1
    BY ONLY i \in Nat, r \in Nat
  <1>6. PICK x \in Nat : x = i + r + 3
    BY ONLY i \in Nat, r \in Nat
  <1>7. PICK g \in Nat : g = i + r + l + 2
    BY ONLY i \in Nat, r \in Nat, l \in Nat
  <1>8. /\ i + Len(Quoted(raw)) = i + r + 2 /\ i + Len(Quoted(raw)) - 1 = e
    BY ONLY <1>2, <1>5, i \in Nat, r \in Nat
  <1>9. e + 1 = i + r + 2 /\ e + 2 = x /\ e - 1 = i + r
    BY ONLY <1>5, <1>6, i \in Nat, r \in Nat
  <1>10. x + Len(w) = g + 1 /\ x + Len(w) - 1 = g /\ x > 0
    BY ONLY <1>0, <1>6, <1>7, i \in Nat, r \in Nat, l \in Nat
  <1>11. g + 2 = j /\ i + Len(Member(raw, w)) = g + 1
    <2>1. i + Len(Member(raw, w)) = i + (r + l + 3)
      BY ONLY <1>2
    <2>2. j = i + (r + l + 3) + 1
      BY ONLY <1>1, <1>2
    <2> QED BY ONLY <1>7, <2>1, <2>2, i \in Nat, r \in Nat, l \in Nat
  <1>12. GetEndChPos(s, i) = e
    <2>1. PICK q \in Chars : q = Quoted(raw)
      BY QuotedLen
    <2>2. Found(q) /\ Stands(s, i, q) /\ s[i + Len(q)] \notin Digit
      BY ONLY <1>2, <1>3, <1>8, <2>1, <1>18
    <2>3. GetEndChPos(s, i) = i + Len(q) - 1
      BY ONLY <1>1, <2>2, s \in Chars, q \in Chars, i \in Nat, EndOf
    <2> QED BY ONLY <1>8, <2>1, <2>3
  <1>13. GetEndChPos(s, x) = g /\ SubSeq(s, x, g) = w
    <2>1. Stands(s, x, w)
      BY ONLY <1>2, <1>6
    <2>2. s[x + Len(w)] \notin Digit
      BY ONLY <1>1, <1>3, <1>10, <1>11
    <2>3. GetEndChPos(s, x) = x + Len(w) - 1 /\ SubSeq(s, x, GetEndChPos(s, x)) = w
      BY ONLY <1>10, <2>1, <2>2, <1>18, s \in Chars, w \in Chars, x \in Nat, EndOf
    <2> QED BY ONLY <1>10, <2>3
  <1>14. ~(i > Len(s)) /\ ~(e + 1 > Len(s)) /\ s[e + 1] = ":"
    <2>1. i <= n /\ i + r + 2 <= n
      BY ONLY <1>1, <1>2, <1>4
    <2>2. ~(i > n) /\ ~(i + r + 2 > n)
      BY ONLY <2>1, i \in Nat, r \in Nat, n \in Nat
    <2> QED BY ONLY <1>2, <1>4, <1>9, <2>2
  <1>15. SubSeq(s, i + 1, e - 1) = raw
    BY ONLY <1>2, <1>9
  <1>16. ~(e + 1 > Len(s) \/ s[e + 1] # ":")
    BY ONLY <1>14
  <1>17. ASSUME NEW parsed, NEW f
         PROVE  MembersAt(s, parsed, i, f) = WithMember(raw, parsed[w], f[j])
    BY ONLY <1>9, <1>11, <1>12, <1>13, <1>14, <1>15, <1>16, Zenon DEF MembersAt, WithMember
  <1> QED BY ONLY <1>17 DEF MemberAt

(* Properties of an object, of which "parsed" reads the values.            *)
Properties(members, keys, texts, parsed, kids) ==
  /\ Len(texts) = Len(kids) /\ Len(keys) = Len(kids) /\ Len(members) = Len(kids)
  /\ \A k \in 1 .. Len(texts) :
       /\ Found(texts[k]) /\ parsed[texts[k]] = kids[k] /\ Found(Quoted(keys[k]))
       /\ members[k] = Member(keys[k], texts[k])
AllMembers(keys, kids) == [complete |-> TRUE, keys |-> keys, kids |-> kids]

(* The properties of an object are read one after the other.               *)
LEMMA ObjectRead ==
  ASSUME NEW S, NEW kids \in Seq(S), NEW keys \in Seq(Chars), NEW texts \in Seq(Chars),
         NEW parsed, NEW members \in Seq(Chars), Len(texts) > 0,
         Properties(members, keys, texts, parsed, kids),
         NEW s, s = <<"{">> \o Joined(members) \o <<"}">>
  PROVE  Members(s, parsed) = AllMembers(keys, kids)
  <1>1. "{" \in Char /\ "}" \in Char
    BY CharAssumption
  <1>2. PICK n \in Nat : n = Len(texts) /\ n = Len(members) /\ n = Len(kids) /\ n = Len(keys) /\ n > 0
    BY ONLY texts \in Seq(Chars), Len(texts) > 0, Properties(members, keys, texts, parsed, kids)
       DEF Properties
  <1>3. s \in Chars
    <2>1. Len(members) > 0
      BY ONLY <1>2
    <2>2. PICK a \in Char, b \in Char : a = "{" /\ b = "}"
      BY ONLY <1>1
    <2>3. s = <<a>> \o Joined(members) \o <<b>>
      BY ONLY <2>2, s = <<"{">> \o Joined(members) \o <<"}">>
    <2> QED BY ONLY members \in Seq(Chars), a \in Char, b \in Char, <2>1, <2>3, Items
  <1>4. PICK p \in [1 .. n + 1 -> Nat] :
              /\ p[1] = 2 /\ p[n + 1] = Len(s) + 1
              /\ \A k \in 1 .. n : ItemAt(s, members[k], p[k], p[k + 1], "}")
    <2>1. PICK a \in Char, b \in Char : a = "{" /\ b = "}"
      BY ONLY <1>1
    <2>2. Len(members) > 0 /\ s = <<a>> \o Joined(members) \o <<b>>
      BY ONLY <1>2, <2>1, s = <<"{">> \o Joined(members) \o <<"}">>
    <2>3. \E p \in [1 .. Len(members) + 1 -> Nat] :
              /\ p[1] = 2 /\ p[Len(members) + 1] = Len(s) + 1
              /\ \A k \in 1 .. Len(members) : ItemAt(s, members[k], p[k], p[k + 1], b)
      BY ONLY members \in Seq(Chars), a \in Char, b \in Char, <2>2, Items
    <2> QED BY ONLY <1>2, <2>1, <2>3
  <1>5. s # <<>> /\ s[Len(s)] # ":"
    <2>1. PICK j \in Chars : j = Joined(members)
      BY <1>2, JoinedPlaces
    <2>2. s = <<"{">> \o j \o <<"}">>
      BY ONLY <2>1, s = <<"{">> \o Joined(members) \o <<"}">>
    <2>3. Len(s) = Len(j) + 2
      BY ONLY <1>1, <2>2, j \in Chars, Bracketed
    <2>4. Len(j) \in Nat
      BY ONLY j \in Chars, Texts
    <2>5. s[Len(j) + 2] = "}"
      <3>1. PICK a \in Char, b \in Char : a = "{" /\ b = "}"
        BY ONLY <1>1
      <3>2. (<<a>> \o j \o <<b>>)[Len(j) + 2] = b
        BY ONLY <2>4, a \in Char, b \in Char, j \in Chars DEF Chars
      <3> QED BY ONLY <2>2, <3>1, <3>2
    <2>6. s # <<>>
      BY ONLY <2>3, <2>4
    <2> QED BY ONLY <2>3, <2>5, <2>6
  <1>6. PICK f : /\ Members(s, parsed) = f[2]
                 /\ \A i \in Nat : f[i] = MembersAt(s, parsed, i, f)
    BY <1>3, <1>5, MembersIs
  <1>7. PICK m \in Nat : m = Len(s)
    BY <1>3, Texts
  <1>8. ASSUME NEW k \in 1 .. n
        PROVE  f[p[k]] = [complete |-> f[p[k + 1]].complete,
                          keys |-> <<keys[k]>> \o f[p[k + 1]].keys,
                          kids |-> <<kids[k]>> \o f[p[k + 1]].kids]
    <2>1. k \in 1 .. n + 1 /\ k + 1 \in 1 .. n + 1
      BY ONLY n \in Nat, k \in 1 .. n
    <2>2. PICK i \in Nat, j \in Nat : i = p[k] /\ j = p[k + 1]
      BY ONLY <1>4, <2>1
    <2>3. PICK w \in Chars : w = texts[k]
      <3>1. k \in 1 .. Len(texts)
        BY ONLY <1>2, k \in 1 .. n
      <3> QED BY ONLY <3>1, texts \in Seq(Chars)
    <2>4. PICK raw \in Chars : raw = keys[k]
      <3>1. k \in 1 .. Len(keys)
        BY ONLY <1>2, k \in 1 .. n
      <3> QED BY ONLY <3>1, keys \in Seq(Chars)
    <2>5. Found(w) /\ parsed[w] = kids[k] /\ Found(Quoted(raw)) /\ members[k] = Member(raw, w)
      <3>1. k \in 1 .. Len(texts)
        BY ONLY <1>2, k \in 1 .. n
      <3> QED
        BY ONLY <2>3, <2>4, <3>1, Properties(members, keys, texts, parsed, kids) DEF Properties
    <2>11. s \in Chars /\ Found(Quoted(raw)) /\ Found(w)
      BY ONLY <1>3, <2>5
    <2>6. ItemAt(s, Member(raw, w), i, j, "}")
      BY ONLY <1>4, <2>2, <2>5, k \in 1 .. n
    <2>7. MembersAt(s, parsed, i, f) = WithMember(raw, parsed[w], f[j])
      <3>1. s \in Chars
        BY ONLY <2>11
      <3>2. MemberItem(s, raw, w, i, j)
        BY ONLY <2>6, <2>11 DEF MemberItem
      <3>3. MemberAt(s, raw, w, i, j)
        BY ONLY <3>1, <3>2, raw \in Chars, w \in Chars, i \in Nat, j \in Nat, MemberRead
      <3> QED BY ONLY <3>3 DEF MemberAt
    <2>8. f[i] = MembersAt(s, parsed, i, f)
      BY ONLY <1>6, i \in Nat
    <2> QED BY ONLY <2>2, <2>4, <2>5, <2>7, <2>8 DEF WithMember
  <1>9. /\ SubSeq(kids, 1, n) = kids /\ SubSeq(kids, n + 1, n) = <<>>
        /\ \A k \in 1 .. n : <<kids[k]>> \o SubSeq(kids, k + 1, n) = SubSeq(kids, k, n)
    BY <1>2, FromHere
  <1>10. /\ SubSeq(keys, 1, n) = keys /\ SubSeq(keys, n + 1, n) = <<>>
         /\ \A k \in 1 .. n : <<keys[k]>> \o SubSeq(keys, k + 1, n) = SubSeq(keys, k, n)
    <2>1. PICK T : T = Chars
      OBVIOUS
    <2>2. keys \in Seq(T)
      BY ONLY <2>1, keys \in Seq(Chars)
    <2> QED BY ONLY <1>2, <2>2, n \in Nat, FromHere
  <1> DEFINE Rest(k) == [complete |-> TRUE, keys |-> SubSeq(keys, k, n), kids |-> SubSeq(kids, k, n)]
             P == {x \in Nat : x <= n => f[p[n + 1 - x]] = Rest(n + 1 - x)}
  <1>11. 0 \in P
    <2>0. p[n + 1] = m + 1
      BY ONLY <1>4, <1>7
    <2>1. PICK i \in Nat : i = p[n + 1] /\ i = m + 1
      BY ONLY <2>0, m \in Nat
    <2>2. i > Len(s)
      BY ONLY <1>7, <2>1, m \in Nat
    <2>3. f[i] = NoMembers(TRUE)
      BY ONLY <1>6, <2>2, i \in Nat, Zenon DEF MembersAt
    <2>4. n + 1 - 0 = n + 1 /\ 0 \in Nat
      BY ONLY n \in Nat
    <2>5. Rest(n + 1) = NoMembers(TRUE)
      BY ONLY <1>9, <1>10 DEF NoMembers
    <2>6. f[p[n + 1]] = Rest(n + 1)
      BY ONLY <2>1, <2>3, <2>5
    <2> HIDE DEF Rest
    <2>7. f[p[n + 1 - 0]] = Rest(n + 1 - 0)
      BY ONLY <2>4, <2>6
    <2> QED BY ONLY <2>4, <2>7
  <1>12. ASSUME NEW k \in 1 .. n, f[p[k + 1]] = Rest(k + 1) PROVE f[p[k]] = Rest(k)
    <2>1. PICK z : z = f[p[k + 1]]
      OBVIOUS
    <2>2. z.complete = TRUE /\ z.keys = SubSeq(keys, k + 1, n) /\ z.kids = SubSeq(kids, k + 1, n)
      BY ONLY <1>12, <2>1
    <2>3. f[p[k]] = [complete |-> z.complete, keys |-> <<keys[k]>> \o z.keys, kids |-> <<kids[k]>> \o z.kids]
      BY ONLY <1>8, <2>1, k \in 1 .. n
    <2>4. <<keys[k]>> \o z.keys = SubSeq(keys, k, n) /\ <<kids[k]>> \o z.kids = SubSeq(kids, k, n)
      BY ONLY <1>9, <1>10, <2>2, k \in 1 .. n
    <2> QED BY ONLY <2>2, <2>3, <2>4
  <1> HIDE DEF Rest
  <1>13. ASSUME NEW x \in Nat, x < n, x \in P PROVE x + 1 \in P
    <2>0. x < n
      BY ONLY <1>13
    <2>1. PICK k \in 1 .. n : k = n - x /\ n + 1 - x = k + 1 /\ n + 1 - (x + 1) = k
      BY ONLY <2>0, x \in Nat, n \in Nat
    <2>2. f[p[k + 1]] = Rest(k + 1)
      <3>0. x <= n => f[p[n + 1 - x]] = Rest(n + 1 - x)
        BY ONLY <1>13, Zenon DEF P
      <3>2. x <= n
        BY ONLY <2>0, x \in Nat, n \in Nat
      <3>1. x <= n /\ (x <= n => f[p[n + 1 - x]] = Rest(n + 1 - x))
        BY ONLY <3>0, <3>2
      <3> QED BY ONLY <2>1, <3>1
    <2>3. f[p[k]] = Rest(k)
      BY ONLY <1>12, <2>2, k \in 1 .. n
    <2>4. f[p[n + 1 - (x + 1)]] = Rest(n + 1 - (x + 1))
      BY ONLY <2>1, <2>3
    <2>5. x + 1 \in Nat
      BY ONLY x \in Nat
    <2> QED BY ONLY <2>4, <2>5, Zenon DEF P
  <1> HIDE DEF P
  <1>14. 0 .. n \subseteq P
    <2>1. PICK q : q = P
      OBVIOUS
    <2>2. 0 \in q /\ \A x \in Nat : x < n /\ x \in q => x + 1 \in q
      BY ONLY <1>11, <1>13, <2>1
    <2>3. 0 .. n \subseteq q
      BY ONLY n \in Nat, <2>2, UpTo
    <2> QED BY ONLY <2>1, <2>3
  <1>15. n \in P
    BY ONLY <1>14, n \in Nat
  <1>16. n <= n /\ n + 1 - n = 1
    BY ONLY n \in Nat
  <1>17. f[p[1]] = Rest(1)
    BY ONLY <1>15, <1>16 DEF P
  <1> QED BY ONLY <1>4, <1>6, <1>9, <1>10, <1>17 DEF Rest, AllMembers

-----------------------------------------------------------------------------
(* Values are read as they were written.                                   *)

(* What a text is parsed to when its parts are parsed to x.                *)
ParsedAt(s, x) ==
  IF s # <<>> /\ s[1] = "[" /\ s[Len(s)] = "]"
    THEN IF Len(s) = 2 THEN Array(<<>>) ELSE ParseArray(s, x)
  ELSE IF s # <<>> /\ s[1] = "{" /\ s[Len(s)] = "}"
    THEN IF Len(s) = 2 THEN Object(<<>>, <<>>) ELSE ParseObject(s, x)
  ELSE ParseValue(s)

(* What the texts of each level are parsed to.                           *)
LEMMA ParsedIs ==
  /\ Parsed[0] = <<>>
  /\ \A d \in 1 .. MaxDepth : Parsed[d] = [s \in Chars |-> ParsedAt(s, Parsed[d - 1])]
  <1> DEFINE Step(d, x) == [s \in Chars |-> ParsedAt(s, x)]
             Is(m, f) == f = [d \in 0 .. m |-> IF d = 0 THEN <<>> ELSE Step(d, f[d - 1])]
             P == {m \in Nat : m <= MaxDepth => \E f : Is(m, f)}
  <1>1. Parsed = CHOOSE f : Is(MaxDepth, f)
    BY DEF Parsed, ParsedAt
  <1> HIDE DEF Step
  <1>2. 0 \in P
    <2>1. Is(0, [d \in 0 .. 0 |-> <<>>])
      OBVIOUS
    <2> QED BY <2>1
  <1>3. ASSUME NEW m \in Nat, m < MaxDepth, m \in P PROVE m + 1 \in P
    <2>1. PICK f : Is(m, f)
      BY <1>3, DepthAssumption
    <2> DEFINE h == [d \in 0 .. m + 1 |-> IF d = m + 1 THEN Step(m + 1, f[m]) ELSE f[d]]
    <2>2. h[m + 1] = Step(m + 1, f[m]) /\ \A d \in 0 .. m : h[d] = f[d]
      OBVIOUS
    <2>3. ASSUME NEW d \in 0 .. m + 1
          PROVE  h[d] = IF d = 0 THEN <<>> ELSE Step(d, h[d - 1])
      <3> HIDE DEF h
      <3>1. CASE d = m + 1
        <4>1. d # 0 /\ d - 1 = m /\ h[m] = f[m]
          BY <2>2, <3>1
        <4> QED BY <2>2, <3>1, <4>1
      <3>2. CASE d \in 0 .. m
        <4>1. f[d] = IF d = 0 THEN <<>> ELSE Step(d, f[d - 1])
          BY <2>1, <3>2
        <4>2. h[d] = f[d] /\ (d # 0 => h[d - 1] = f[d - 1])
          BY <2>2, <3>2
        <4> QED BY <4>1, <4>2
      <3> QED BY <3>1, <3>2
    <2>4. h = [d \in 0 .. m + 1 |-> h[d]]
      OBVIOUS
    <2> HIDE DEF h
    <2>5. Is(m + 1, h)
      BY <2>3, <2>4
    <2> QED BY <2>5
  <1>4. \E f : Is(MaxDepth, f)
    <2> HIDE DEF P
    <2>1. 0 .. MaxDepth \subseteq P
      BY ONLY DepthAssumption, <1>2, <1>3, UpTo
    <2>2. MaxDepth \in P
      BY <2>1, DepthAssumption
    <2> QED BY <2>2, DepthAssumption DEF P
  <1>5. Is(MaxDepth, Parsed)
    BY <1>1, <1>4
  <1>6. Parsed[0] = <<>> /\ \A d \in 1 .. MaxDepth : Parsed[d] = Step(d, Parsed[d - 1])
    BY <1>5, DepthAssumption
  <1> QED BY <1>6 DEF Step

(* The well-formed values of each level.                                 *)
LEMMA WellFormedDocIs ==
  /\ WellFormedDoc[0] = {}
  /\ \A d \in 1 .. MaxDepth : WellFormedDoc[d] = Formed(Doc[d], WellFormedDoc[d - 1])
  <1> DEFINE Step(d, x) == Formed(Doc[d], x)
             Is(m, f) == f = [d \in 0 .. m |-> IF d = 0 THEN {} ELSE Step(d, f[d - 1])]
             P == {m \in Nat : m <= MaxDepth => \E f : Is(m, f)}
  <1>1. WellFormedDoc = CHOOSE f : Is(MaxDepth, f)
    BY DEF WellFormedDoc
  <1> HIDE DEF Step
  <1>2. 0 \in P
    <2>1. Is(0, [d \in 0 .. 0 |-> {}])
      OBVIOUS
    <2> QED BY <2>1
  <1>3. ASSUME NEW m \in Nat, m < MaxDepth, m \in P PROVE m + 1 \in P
    <2>1. PICK f : Is(m, f)
      BY <1>3, DepthAssumption
    <2> DEFINE h == [d \in 0 .. m + 1 |-> IF d = m + 1 THEN Step(m + 1, f[m]) ELSE f[d]]
    <2>2. h[m + 1] = Step(m + 1, f[m]) /\ \A d \in 0 .. m : h[d] = f[d]
      OBVIOUS
    <2>3. ASSUME NEW d \in 0 .. m + 1
          PROVE  h[d] = IF d = 0 THEN {} ELSE Step(d, h[d - 1])
      <3> HIDE DEF h
      <3>1. CASE d = m + 1
        <4>1. d # 0 /\ d - 1 = m /\ h[m] = f[m]
          BY <2>2, <3>1
        <4> QED BY <2>2, <3>1, <4>1
      <3>2. CASE d \in 0 .. m
        <4>1. f[d] = IF d = 0 THEN {} ELSE Step(d, f[d - 1])
          BY <2>1, <3>2
        <4>2. h[d] = f[d] /\ (d # 0 => h[d - 1] = f[d - 1])
          BY <2>2, <3>2
        <4> QED BY <4>1, <4>2
      <3> QED BY <3>1, <3>2
    <2>4. h = [d \in 0 .. m + 1 |-> h[d]]
      OBVIOUS
    <2> HIDE DEF h
    <2>5. Is(m + 1, h)
      BY <2>3, <2>4
    <2> QED BY <2>5
  <1>4. \E f : Is(MaxDepth, f)
    <2> HIDE DEF P
    <2>1. 0 .. MaxDepth \subseteq P
      BY ONLY DepthAssumption, <1>2, <1>3, UpTo
    <2>2. MaxDepth \in P
      BY <2>1, DepthAssumption
    <2> QED BY <2>2, DepthAssumption DEF P
  <1>5. Is(MaxDepth, WellFormedDoc)
    BY <1>1, <1>4
  <1>6. WellFormedDoc[0] = {} /\ \A d \in 1 .. MaxDepth : WellFormedDoc[d] = Step(d, WellFormedDoc[d - 1])
    <2>1. \A d \in 0 .. MaxDepth : WellFormedDoc[d] = IF d = 0 THEN {} ELSE Step(d, WellFormedDoc[d - 1])
      BY <1>5
    <2>2. 0 \in 0 .. MaxDepth /\ \A d \in 1 .. MaxDepth : d \in 0 .. MaxDepth /\ d # 0
      BY DepthAssumption
    <2> QED BY ONLY <2>1, <2>2
  <1> QED BY <1>6 DEF Step

(* A text is found, kept by Trim, and read as v when its parts are read by *)
(* x.                                                                      *)
Starter == {Quote, "[", "{", "null"} \union Bool \union Digit
ReadsAs(s, x, v) ==
  /\ s \in Neat /\ Found(s) /\ s # <<>> /\ s[1] \in Starter
  /\ ParsedAt(s, x) = v

(* A text that is one token ends where the token ends.                     *)
LEMMA WholeToken ==
  ASSUME NEW s \in Chars, s # <<>>, Found(s)
  PROVE  GetEndChPos(s, 1) = Len(s)
  <1>1. PICK n \in Nat : n = Len(s)
    BY Texts
  <1>2. Stands(s, 1, s)
    <2>1. ASSUME NEW k \in 1 .. n PROVE s[1 + k - 1] = s[k]
      <3>1. 1 + k - 1 = k
        BY ONLY k \in 1 .. n, n \in Nat
      <3> QED BY ONLY <3>1
    <2>2. 1 + n <= n + 1
      BY ONLY n \in Nat
    <2> QED BY ONLY <1>1, <2>1, <2>2 DEF Stands
  <1>3. ~(1 + Len(s) <= Len(s)) /\ 1 + Len(s) - 1 = Len(s)
    BY ONLY <1>1, n \in Nat
  <1>4. 1 \in Nat /\ 1 > 0
    OBVIOUS
  <1>5. GetEndChPos(s, 1) = 1 + Len(s) - 1
    BY ONLY <1>2, <1>3, <1>4, Found(s), s \in Chars, Zenon DEF Found
  <1> QED BY ONLY <1>3, <1>5

(* A text that is no container.                                            *)
LEMMA NoContainer ==
  ASSUME NEW s, NEW x, s[1] # "[", s[1] # "{"
  PROVE  ParsedAt(s, x) = ParseValue(s)
  BY ONLY s[1] # "[", s[1] # "{", Zenon DEF ParsedAt

(* The word null is read,                                                  *)
LEMMA ReadNull == ASSUME NEW x PROVE ReadsAs(<<"null">>, x, Null)
  <1>1. /\ "null" # Quote /\ "null" # "[" /\ "null" # "{" /\ "null" \notin Digit
        /\ "null" \notin Mark \union Space /\ "null" \notin Digit \union Opening \union {Quote}
    BY DEF Quote, Digit, Mark, Space, Opening, Bracket, Backslash
  <1>2. PICK c \in Char : c = "null"
    BY CharAssumption
  <1>3. <<c>> \in Neat
    BY ONLY <1>1, <1>2, NeatOne
  <1>4. Found(<<c>>)
    BY ONLY <1>1, <1>2, FoundWord
  <1>5. PICK s \in Chars : s = <<c>>
    BY Texts
  <1>6. s # <<>> /\ s[1] = "null" /\ s = <<"null">>
    BY ONLY <1>2, <1>5
  <1>7. ParsedAt(s, x) = ParseValue(s)
    BY ONLY <1>1, <1>6, NoContainer
  <1>8. ParseValue(s) = Null
    <2>1. s[1] \notin Bool /\ s[1] # Quote /\ s[1] \notin Digit
      BY ONLY <1>1, <1>6 DEF Bool
    <2> QED BY ONLY <1>6, <2>1, Zenon DEF ParseValue
  <1>9. s[1] \in Starter
    BY ONLY <1>6 DEF Starter
  <1> QED BY ONLY <1>3, <1>4, <1>5, <1>6, <1>7, <1>8, <1>9 DEF ReadsAs

(* and true and false,                                                     *)
LEMMA ReadBool ==
  ASSUME NEW b \in Bool, NEW x
  PROVE  ReadsAs(<<b>>, x, Value("BOOL", <<b>>, <<>>, <<>>))
  <1>1. /\ b # Quote /\ b # "[" /\ b # "{" /\ b # "null"
        /\ b \notin Mark \union Space /\ b \notin Digit \union Opening \union {Quote}
    BY DEF Bool, Quote, Digit, Mark, Space, Opening, Bracket, Backslash
  <1>2. PICK c \in Char : c = b
    BY CharAssumption
  <1>3. <<c>> \in Neat
    BY ONLY <1>1, <1>2, NeatOne
  <1>4. Found(<<c>>)
    BY ONLY <1>1, <1>2, FoundWord
  <1>5. PICK s \in Chars : s = <<c>> /\ Len(s) = 1
    BY Texts
  <1>6. s # <<>> /\ s[1] = b /\ s # <<"null">> /\ s = <<b>>
    BY ONLY <1>1, <1>2, <1>5
  <1>7. ParsedAt(s, x) = ParseValue(s)
    BY ONLY <1>1, <1>6, NoContainer
  <1>8. s[1] \notin Digit /\ s[1] # Quote /\ s[1] \in Bool /\ Len(s) = 1
    BY ONLY <1>1, <1>5, <1>6, b \in Bool
  <1>10. ParseValue(s) = Value("BOOL", s, <<>>, <<>>)
    BY ONLY <1>6, <1>8, Zenon DEF ParseValue
  <1>9. s[1] \in Starter
    BY ONLY <1>8 DEF Starter
  <1> QED BY ONLY <1>2, <1>3, <1>4, <1>5, <1>6, <1>7, <1>10, <1>9 DEF ReadsAs

(* a number,                                                               *)
LEMMA ReadNumber ==
  ASSUME NEW t \in Seq(Digit), t # <<>>, NEW x
  PROVE  ReadsAs(t, x, Value("DIGITAL", t, <<>>, <<>>))
  <1>1. "[" \notin Digit /\ "{" \notin Digit /\ Quote \notin Digit
    BY DEF Digit, Quote
  <1>2. t \in Neat
    BY NeatDigits
  <1>3. Found(t)
    BY FoundNumber
  <1>4. PICK s \in Chars : s = t
    BY <1>2 DEF Neat
  <1>5. s[1] \in Digit
    BY ONLY <1>4, t \in Seq(Digit), t # <<>>
  <1>6. GetEndChPos(s, 1) = Len(s)
    BY <1>3, <1>4, WholeToken
  <1>7. s[1] # "[" /\ s[1] # "{" /\ s[1] # Quote /\ s # <<>>
    BY ONLY <1>1, <1>4, <1>5, t # <<>>
  <1>8. ParsedAt(s, x) = ParseValue(s)
    BY ONLY <1>7, NoContainer
  <1>9. ParseValue(s) = Value("DIGITAL", s, <<>>, <<>>)
    <2>1. "null" \notin Digit /\ Bool \intersect Digit = {}
      BY ONLY DEF Digit, Bool
    <2>2. s # <<"null">> /\ s[1] \notin Bool
      BY ONLY <1>5, <2>1
    <2> QED BY ONLY <1>5, <1>6, <1>7, <2>2, Zenon DEF ParseValue
  <1>10. s[1] \in Starter
    BY ONLY <1>5 DEF Starter
  <1> QED BY ONLY <1>2, <1>3, <1>4, <1>7, <1>8, <1>9, <1>10 DEF ReadsAs

(* a string,                                                               *)
LEMMA ReadString ==
  ASSUME NEW e \in Token, NEW x
  PROVE  ReadsAs(Quoted(e), x, Str(e))
  <1>1. e \in Chars
    BY DEF Token
  <1>2. PICK s \in Chars : s = Quoted(e) /\ Len(s) = Len(e) + 2
    BY <1>1, QuotedLen
  <1>3. PICK n \in Nat : n = Len(e)
    BY <1>1, Texts
  <1>4. s \in Neat
    BY <1>2, NeatString
  <1>5. Found(s)
    BY <1>2, FoundString
  <1>6. s = <<Quote>> \o e \o <<Quote>>
    BY <1>2 DEF Quoted
  <1>7. s[1] = Quote
    BY ONLY <1>3, <1>1, <1>6 DEF Chars
  <1>8. Stands(s, 2, e)
    <2>1. s[1 + 1] = s[2]
      OBVIOUS
    <2>2. \A k \in 1 .. n : s[2 + k - 1] = e[k]
      BY ONLY <1>3, <1>1, <1>6 DEF Chars
    <2>3. 2 + n <= Len(s) + 1
      BY ONLY <1>2, <1>3, n \in Nat
    <2> QED BY ONLY <1>3, <2>2, <2>3 DEF Stands
  <1>9. SubSeq(s, 2, Len(s) - 1) = e
    <2>1. SubSeq(s, 2, 2 + Len(e) - 1) = e
      BY <1>1, <1>8, CutOut
    <2>2. 2 + Len(e) - 1 = Len(s) - 1
      BY ONLY <1>2, <1>3, n \in Nat
    <2> QED BY ONLY <2>1, <2>2
  <1>10. s # <<>>
    BY ONLY <1>2, <1>3
  <1>11. GetEndChPos(s, 1) = Len(s)
    BY <1>5, <1>10, WholeToken
  <1>12. s[1] # "[" /\ s[1] # "{"
    BY ONLY <1>7 DEF Quote
  <1>13. ParsedAt(s, x) = ParseValue(s)
    BY ONLY <1>12, NoContainer
  <1>14. ParseValue(s) = Str(e)
    <2>1. Quote # "null" /\ Quote \notin Digit /\ Quote \notin Bool
      BY ONLY DEF Quote, Digit, Bool
    <2>2. s # <<"null">> /\ s[1] \notin Bool /\ s[1] \notin Digit
      BY ONLY <1>7, <2>1
    <2> QED BY ONLY <1>7, <1>9, <1>10, <1>11, <2>2, Zenon DEF ParseValue
  <1>15. s[1] \in Starter
    BY ONLY <1>7 DEF Starter
  <1> QED BY ONLY <1>2, <1>4, <1>5, <1>10, <1>13, <1>14, <1>15 DEF ReadsAs

(* The text of a container.                                                *)
Container(s, o, texts) ==
  /\ s \in Neat /\ Found(s) /\ s # <<>> /\ s[1] = o /\ s[Len(s)] = Closes(o)
  /\ Len(texts) = 0 => Len(s) = 2
  /\ Len(texts) > 0 /\ texts[1] # <<>> => Len(s) # 2 /\ s[2] = texts[1][1]

(* (the text of a container starts and ends with its brackets)             *)
LEMMA ContainerText ==
  ASSUME NEW texts \in Seq(Chars), \A i \in 1 .. Len(texts) : texts[i] \in Neat,
         NEW o \in Opening, NEW s, s = <<o>> \o Joined(texts) \o <<Closes(o)>>
  PROVE  Container(s, o, texts)
  <1>1. PICK j \in Neat : j = Joined(texts)
    BY NeatJoined
  <1>2. j \in Chars /\ Skips(j)
    BY ONLY j \in Neat DEF Neat
  <1>3. PICK c : c = Closes(o)
    OBVIOUS
  <1>4. o \in Char /\ c \in Char
    BY <1>3, CharAssumption DEF Closes, Opening
  <1>5. s = <<o>> \o j \o <<c>>
    BY <1>1, <1>3
  <1>6. s \in Neat
    <2>1. <<o>> \o j \o <<Closes(o)>> \in Neat
      BY ONLY j \in Neat, o \in Opening, NeatContainer
    <2> QED BY ONLY <1>3, <1>5, <2>1
  <1>7. Found(s)
    <2>1. Found(<<o>> \o j \o <<Closes(o)>>)
      BY ONLY <1>2, o \in Opening, FoundContainer
    <2> QED BY ONLY <1>3, <1>5, <2>1
  <1>8. PICK n \in Nat : n = Len(j)
    BY <1>2, Texts
  <1>9. Len(s) = n + 2
    BY ONLY <1>2, <1>4, <1>5, <1>8, Bracketed
  <1>10. s[1] = o /\ s[n + 2] = c
    BY ONLY <1>2, <1>4, <1>5, <1>8 DEF Chars
  <1>11. s # <<>>
    BY ONLY <1>9, n \in Nat
  <1>12. ASSUME Len(texts) = 0 PROVE Len(s) = 2
    <2>1. PICK u \in [0 .. Len(texts) -> Chars] : u[0] = <<>> /\ Joined(texts) = u[Len(texts)]
      BY JoinedIs
    <2>2. j = <<>>
      BY ONLY <1>1, <1>12, <2>1
    <2> QED BY ONLY <1>8, <1>9, <2>2
  <1>13. ASSUME Len(texts) > 0, texts[1] # <<>> PROVE Len(s) # 2 /\ s[2] = texts[1][1]
    <2>1. Len(texts[1]) + 2 <= Len(s)
      BY ONLY <1>1, <1>4, <1>5, <1>13, texts \in Seq(Chars), Items
    <2>2. PICK p \in [1 .. Len(texts) + 1 -> Nat] :
              /\ p[1] = 2 /\ p[Len(texts) + 1] = Len(s) + 1
              /\ \A k \in 1 .. Len(texts) : ItemAt(s, texts[k], p[k], p[k + 1], c)
      BY ONLY <1>1, <1>4, <1>5, <1>13, texts \in Seq(Chars), Items
    <2>3. 1 \in 1 .. Len(texts)
      BY ONLY <1>13, texts \in Seq(Chars)
    <2>4. PICK t \in Chars : t = texts[1] /\ t # <<>>
      BY ONLY <1>13, <2>3, texts \in Seq(Chars)
    <2>5. PICK l \in Nat : l = Len(t) /\ l > 0
      BY ONLY <2>4, t \in Chars DEF Chars
    <2>6. Stands(s, 2, t)
      BY ONLY <2>2, <2>3, <2>4 DEF ItemAt
    <2>7. s[2 + 1 - 1] = t[1]
      <3>1. 1 \in 1 .. l
        BY ONLY <2>5, l \in Nat
      <3> QED BY ONLY <2>5, <2>6, <3>1 DEF Stands
    <2>8. 2 + 1 - 1 = 2
      OBVIOUS
    <2>9. Len(s) # 2
      BY ONLY <1>9, <2>1, <2>4, <2>5, l \in Nat, n \in Nat
    <2> QED BY ONLY <2>4, <2>7, <2>8, <2>9
  <1> QED BY ONLY <1>3, <1>6, <1>7, <1>9, <1>10, <1>11, <1>12, <1>13 DEF Container

(* Texts that x reads as the values kids.                                  *)
ReadKids(texts, x, kids) ==
  /\ Len(texts) = Len(kids)
  /\ \A k \in 1 .. Len(texts) :
       /\ texts[k] \in Neat /\ Found(texts[k]) /\ texts[k] # <<>> /\ texts[k][1] \in Starter
       /\ x[texts[k]] = kids[k]

(* an array, when its values are,                                          *)
LEMMA ReadArray ==
  ASSUME NEW S, NEW kids \in Seq(S), NEW texts \in Seq(Chars), NEW x, ReadKids(texts, x, kids),
         NEW s, s = <<"[">> \o Joined(texts) \o <<"]">>
  PROVE  ReadsAs(s, x, Array(kids))
  <1>1. PICK o \in Opening : o = "[" /\ Closes(o) = "]"
    BY DEF Opening, Closes
  <1>2. \A i \in 1 .. Len(texts) : texts[i] \in Neat
    BY ONLY ReadKids(texts, x, kids) DEF ReadKids
  <1>3. s = <<o>> \o Joined(texts) \o <<Closes(o)>>
    BY ONLY <1>1, s = <<"[">> \o Joined(texts) \o <<"]">>
  <1>4. Container(s, o, texts)
    BY ONLY <1>2, <1>3, texts \in Seq(Chars), o \in Opening, ContainerText
  <1>5. /\ s \in Neat /\ Found(s) /\ s # <<>> /\ s[1] = "[" /\ s[Len(s)] = "]"
        /\ Len(texts) = 0 => Len(s) = 2
        /\ Len(texts) > 0 /\ texts[1] # <<>> => Len(s) # 2 /\ s[2] = texts[1][1]
    BY ONLY <1>1, <1>4 DEF Container
  <1>6. s[1] \in Starter
    BY ONLY <1>5 DEF Starter
  <1>7. ParsedAt(s, x) = Array(kids)
    <2>1. CASE Len(texts) = 0
      <3>1. kids = <<>>
        BY ONLY <2>1, ReadKids(texts, x, kids), kids \in Seq(S) DEF ReadKids
      <3>2. Len(s) = 2
        BY ONLY <1>5, <2>1
      <3> QED BY ONLY <1>5, <3>1, <3>2, Zenon DEF ParsedAt
    <2>2. CASE Len(texts) # 0
      <3>1. Len(texts) > 0 /\ 1 \in 1 .. Len(texts)
        BY ONLY <2>2, texts \in Seq(Chars)
      <3>2. texts[1] # <<>> /\ texts[1][1] \in Starter
        BY ONLY <3>1, ReadKids(texts, x, kids) DEF ReadKids
      <3>3. Len(s) # 2 /\ s[2] \in Starter
        BY ONLY <1>5, <3>1, <3>2
      <3>4. s[2] \in {Quote, "[", "{", "null"} \union Bool \union Digit
        BY ONLY <3>3 DEF Starter
      <3>5. Elements(s, x) = kids
        <4>1. Len(texts) = Len(kids) /\ \A k \in 1 .. Len(texts) : Found(texts[k]) /\ x[texts[k]] = kids[k]
          BY ONLY ReadKids(texts, x, kids) DEF ReadKids
        <4> QED
          BY ONLY <3>1, <4>1, kids \in Seq(S), texts \in Seq(Chars),
                  s = <<"[">> \o Joined(texts) \o <<"]">>, ArrayRead
      <3>6. ParseArray(s, x) = Array(kids)
        BY ONLY <3>4, <3>5, Zenon DEF ParseArray
      <3> QED BY ONLY <1>5, <3>3, <3>6, Zenon DEF ParsedAt
    <2> QED BY <2>1, <2>2
  <1> QED BY ONLY <1>5, <1>6, <1>7 DEF ReadsAs

(* Keys in quotes, a colon behind each, and their values' texts.           *)
ReadMembers(members, keys, texts) ==
  /\ Len(members) = Len(texts) /\ Len(keys) = Len(texts)
  /\ \A k \in 1 .. Len(texts) :
       /\ members[k] = Member(keys[k], texts[k])
       /\ \E t \in Chars : keys[k] = Encode(t)

(* (a property is passed over neatly)                                      *)
LEMMA MemberNeat ==
  ASSUME NEW t \in Chars, NEW w \in Neat, NEW m, m = Member(Encode(t), w)
  PROVE  m \in Neat /\ m \in Chars /\ m # <<>> /\ m[1] = Quote
  <1>1. PICK q \in Neat : q = Quoted(Encode(t))
    BY EncodedIsToken, NeatString
  <1>2. ":" \in Char /\ ":" \notin Mark \union Space
    BY CharAssumption DEF Mark, Space, Bracket, Quote, Backslash
  <1>3. PICK c \in Char : c = ":" /\ c \notin Mark \union Space
    BY <1>2
  <1>4. PICK y \in Neat : y = <<c>>
    BY ONLY <1>3, c \in Char, NeatOne
  <1>5. PICK a \in Neat : a = q \o y
    BY ONLY q \in Neat, y \in Neat, NeatBoth
  <1>6. a \o w \in Neat
    BY ONLY a \in Neat, w \in Neat, NeatBoth
  <1>7. m = a \o w
    BY ONLY <1>1, <1>3, <1>4, <1>5, m = Member(Encode(t), w) DEF Member
  <1>8. a \in Chars /\ w \in Chars /\ q \in Chars /\ y \in Chars
    BY ONLY a \in Neat, w \in Neat, q \in Neat, y \in Neat DEF Neat
  <1>9. Len(q) > 0 /\ q[1] = Quote
    <2>1. PICK e \in Chars : e = Encode(t)
      BY EncodePlaces
    <2>2. q = <<Quote>> \o e \o <<Quote>>
      BY ONLY <1>1, <2>1 DEF Quoted
    <2>3. Quote \in Char
      BY CharAssumption
    <2> QED BY ONLY <2>2, <2>3, e \in Chars DEF Chars
  <1>10. Len(m) > 0 /\ m[1] = Quote
    BY ONLY <1>5, <1>7, <1>8, <1>9 DEF Chars
  <1>11. m # <<>>
    BY ONLY <1>10
  <1> QED BY ONLY <1>6, <1>7, <1>10, <1>11 DEF Neat

(* and an object, when its values are.                                     *)
LEMMA ReadObject ==
  ASSUME NEW S, NEW kids \in Seq(S), NEW keys \in Seq(Chars), NEW texts \in Seq(Chars), NEW x,
         ReadKids(texts, x, kids),
         NEW members, DOMAIN members = 1 .. Len(texts), members \in Seq(Chars),
         ReadMembers(members, keys, texts),
         NEW s, s = <<"{">> \o Joined(members) \o <<"}">>
  PROVE  ReadsAs(s, x, Object(keys, kids))
  <1>1. PICK o \in Opening : o = "{" /\ Closes(o) = "}"
    BY DEF Opening, Closes
  <1>2. PICK n \in Nat : n = Len(texts) /\ n = Len(members) /\ n = Len(keys) /\ n = Len(kids)
    BY ONLY texts \in Seq(Chars), ReadKids(texts, x, kids), ReadMembers(members, keys, texts)
       DEF ReadKids, ReadMembers
  <1>3. ASSUME NEW k \in 1 .. n
        PROVE  /\ members[k] \in Neat /\ members[k] # <<>> /\ members[k][1] = Quote
               /\ Found(Quoted(keys[k])) /\ Found(texts[k]) /\ x[texts[k]] = kids[k]
               /\ members[k] = Member(keys[k], texts[k])
    <2>1. /\ texts[k] \in Neat /\ Found(texts[k]) /\ x[texts[k]] = kids[k]
      BY ONLY <1>2, ReadKids(texts, x, kids), k \in 1 .. n DEF ReadKids
    <2>2. members[k] = Member(keys[k], texts[k]) /\ \E t \in Chars : keys[k] = Encode(t)
      BY ONLY <1>2, ReadMembers(members, keys, texts), k \in 1 .. n DEF ReadMembers
    <2>3. PICK t \in Chars : keys[k] = Encode(t)
      BY ONLY <2>2
    <2>4. PICK w \in Neat : w = texts[k]
      BY ONLY <2>1
    <2>5. PICK m : m = members[k]
      OBVIOUS
    <2>6. m = Member(Encode(t), w)
      BY ONLY <2>2, <2>3, <2>4, <2>5
    <2>7. m \in Neat /\ m # <<>> /\ m[1] = Quote
      BY ONLY <2>6, t \in Chars, w \in Neat, MemberNeat
    <2>8. Found(Quoted(Encode(t)))
      BY ONLY t \in Chars, EncodedIsToken, FoundString
    <2> QED BY ONLY <2>1, <2>2, <2>3, <2>5, <2>7, <2>8
  <1>4. \A i \in 1 .. Len(members) : members[i] \in Neat
    BY ONLY <1>2, <1>3
  <1>5. s = <<o>> \o Joined(members) \o <<Closes(o)>>
    BY ONLY <1>1, s = <<"{">> \o Joined(members) \o <<"}">>
  <1>6. Container(s, o, members)
    BY ONLY <1>4, <1>5, members \in Seq(Chars), o \in Opening, ContainerText
  <1>7. /\ s \in Neat /\ Found(s) /\ s # <<>> /\ s[1] = "{" /\ s[Len(s)] = "}"
        /\ Len(members) = 0 => Len(s) = 2
        /\ Len(members) > 0 /\ members[1] # <<>> => Len(s) # 2 /\ s[2] = members[1][1]
    BY ONLY <1>1, <1>6 DEF Container
  <1>8. s[1] \in Starter
    BY ONLY <1>7 DEF Starter
  <1>9. s[1] # "["
    BY ONLY <1>7
  <1>10. ParsedAt(s, x) = Object(keys, kids)
    <2>1. CASE n = 0
      <3>3. Len(kids) = 0 /\ Len(keys) = 0
        BY ONLY <1>2, <2>1
      <3>4. kids = <<>>
        BY ONLY <3>3, kids \in Seq(S)
      <3>5. keys = <<>>
        BY ONLY <3>3, keys \in Seq(Chars)
      <3>1. kids = <<>> /\ keys = <<>>
        BY ONLY <3>4, <3>5
      <3>2. Len(s) = 2
        BY ONLY <1>2, <1>7, <2>1
      <3> QED BY ONLY <1>7, <1>9, <3>1, <3>2, Zenon DEF ParsedAt
    <2>2. CASE n # 0
      <3>1. Len(members) > 0 /\ Len(texts) > 0 /\ 1 \in 1 .. n
        BY ONLY <1>2, <2>2, n \in Nat
      <3>2. members[1] # <<>> /\ members[1][1] = Quote
        BY ONLY <1>3, <3>1
      <3>3. Len(s) # 2 /\ s[2] = Quote
        BY ONLY <1>7, <3>1, <3>2
      <3>5. Members(s, x) = [complete |-> TRUE, keys |-> keys, kids |-> kids]
        <4>1. Properties(members, keys, texts, x, kids)
          BY ONLY <1>2, <1>3 DEF Properties
        <4>2. Members(s, x) = AllMembers(keys, kids)
          BY ONLY <3>1, <4>1, kids \in Seq(S), texts \in Seq(Chars), keys \in Seq(Chars),
                  members \in Seq(Chars), s = <<"{">> \o Joined(members) \o <<"}">>, ObjectRead
        <4> QED BY ONLY <4>2 DEF AllMembers
      <3>6. ParseObject(s, x) = Object(keys, kids)
        <4>1. PICK r : r = Members(s, x)
          OBVIOUS
        <4>2. r.complete = TRUE /\ r.keys = keys /\ r.kids = kids
          BY ONLY <3>5, <4>1
        <4>3. ObjectOf(r) = Object(keys, kids)
          BY ONLY <4>2, Zenon DEF ObjectOf
        <4> QED BY ONLY <3>3, <4>1, <4>3, Zenon DEF ParseObject
      <3> QED BY ONLY <1>7, <1>9, <3>3, <3>6, Zenon DEF ParsedAt
    <2> QED BY <2>1, <2>2
  <1> QED BY ONLY <1>7, <1>8, <1>10 DEF ReadsAs

(* The text of a value of each kind.                                       *)
ObjectTexts(v, x) == [i \in 1 .. Len(v.kids) |-> Quoted(v.keys[i]) \o <<":">> \o x[v.kids[i]]]
ArrayTexts(v, x)  == [i \in 1 .. Len(v.kids) |-> x[v.kids[i]]]

(* What is written for each type of value.                                 *)
LEMMA WrittenKinds ==
  ASSUME NEW d \in 1 .. MaxDepth, NEW v \in Doc[d], NEW x, x = Written[d - 1]
  PROVE  /\ v.type = "OBJECT" => Written[d][v] = <<"{">> \o Joined(ObjectTexts(v, x)) \o <<"}">>
         /\ v.type = "ARRAY" => Written[d][v] = <<"[">> \o Joined(ArrayTexts(v, x)) \o <<"]">>
         /\ v.type = "STRING" => Written[d][v] = Quoted(v.val)
         /\ v.type \in {"NULL", "BOOL", "DIGITAL"} => Written[d][v] = v.val
  <1>1. Written[d][v] =
          CASE v.type = "OBJECT" ->
                 <<"{">> \o Joined([i \in 1 .. Len(v.kids) |->
                   Quoted(v.keys[i]) \o <<":">> \o Written[d - 1][v.kids[i]]]) \o <<"}">>
            [] v.type = "ARRAY" ->
                 <<"[">> \o Joined([i \in 1 .. Len(v.kids) |-> Written[d - 1][v.kids[i]]]) \o <<"]">>
            [] v.type = "STRING" -> Quoted(v.val)
            [] v.type = "MAX" -> <<>>
            [] OTHER -> v.val
    <2> DEFINE B(u) ==
          CASE u.type = "OBJECT" ->
                 <<"{">> \o Joined([i \in 1 .. Len(u.kids) |->
                   Quoted(u.keys[i]) \o <<":">> \o Written[d - 1][u.kids[i]]]) \o <<"}">>
            [] u.type = "ARRAY" ->
                 <<"[">> \o Joined([i \in 1 .. Len(u.kids) |-> Written[d - 1][u.kids[i]]]) \o <<"]">>
            [] u.type = "STRING" -> Quoted(u.val)
            [] u.type = "MAX" -> <<>>
            [] OTHER -> u.val
    <2>1. Written[d] = [u \in Doc[d] |-> B(u)]
      BY ONLY WrittenIs, d \in 1 .. MaxDepth, Zenon
    <2> HIDE DEF B
    <2>2. Written[d][v] = B(v)
      BY ONLY <2>1, v \in Doc[d]
    <2> QED BY ONLY <2>2, Zenon DEF B
  <1>2. Written[d][v] =
          CASE v.type = "OBJECT" -> <<"{">> \o Joined(ObjectTexts(v, x)) \o <<"}">>
            [] v.type = "ARRAY" -> <<"[">> \o Joined(ArrayTexts(v, x)) \o <<"]">>
            [] v.type = "STRING" -> Quoted(v.val)
            [] v.type = "MAX" -> <<>>
            [] OTHER -> v.val
    BY ONLY <1>1, x = Written[d - 1], Zenon DEF ObjectTexts, ArrayTexts
  <1>3. /\ "OBJECT" # "ARRAY" /\ "OBJECT" # "STRING" /\ "OBJECT" # "MAX"
        /\ "ARRAY" # "STRING" /\ "ARRAY" # "MAX" /\ "STRING" # "MAX"
        /\ \A k \in {"NULL", "BOOL", "DIGITAL"} :
             k # "OBJECT" /\ k # "ARRAY" /\ k # "STRING" /\ k # "MAX"
    OBVIOUS
  <1>4. ASSUME v.type = "OBJECT"
        PROVE  Written[d][v] = <<"{">> \o Joined(ObjectTexts(v, x)) \o <<"}">>
    BY ONLY <1>2, <1>3, <1>4, Zenon
  <1>5. ASSUME v.type = "ARRAY"
        PROVE  Written[d][v] = <<"[">> \o Joined(ArrayTexts(v, x)) \o <<"]">>
    BY ONLY <1>2, <1>3, <1>5, Zenon
  <1>6. ASSUME v.type = "STRING" PROVE Written[d][v] = Quoted(v.val)
    BY ONLY <1>2, <1>3, <1>6, Zenon
  <1>7. ASSUME v.type \in {"NULL", "BOOL", "DIGITAL"} PROVE Written[d][v] = v.val
    <2>1. v.type # "OBJECT" /\ v.type # "ARRAY" /\ v.type # "STRING" /\ v.type # "MAX"
      BY ONLY <1>3, <1>7
    <2> QED BY ONLY <1>2, <2>1, Zenon
  <1> QED BY ONLY <1>4, <1>5, <1>6, <1>7

(* A level whose well-formed values are read as they were written.         *)
ReadsWritten(d, v, w) ==
  w \in Neat /\ Found(w) /\ w # <<>> /\ w[1] \in Starter /\ Parsed[d][w] = v
Reading(d) == \A v \in WellFormedDoc[d] : v \in Doc[d] /\ ReadsWritten(d, v, Written[d][v])

(* An escaped text is the escaping of some text.                           *)
LEMMA EscapedIs == ASSUME NEW raw \in Escaped PROVE \E t \in Chars : raw = Encode(t)
  <1>1. raw \in Chars /\ Encode(Decode(raw)) = raw
    BY DEF Escaped
  <1>2. PICK u \in [0 .. Len(raw) -> [text : Chars, escaped : BOOLEAN]] : Decode(raw) = u[Len(raw)].text
    BY <1>1, DecodeIs
  <1>3. PICK n \in Nat : n = Len(raw)
    BY <1>1, Texts
  <1>4. u[n] \in [text : Chars, escaped : BOOLEAN]
    BY ONLY <1>3, n \in Nat, u \in [0 .. Len(raw) -> [text : Chars, escaped : BOOLEAN]]
  <1>5. Decode(raw) \in Chars
    BY ONLY <1>2, <1>3, <1>4
  <1> QED BY ONLY <1>1, <1>5

(* What a value is made of, for a text to say it, when its children are    *)
(* from S.                                                                 *)
Shaped(v, S) ==
  \/ v = Null
  \/ \E b \in Bool : v = Value("BOOL", <<b>>, <<>>, <<>>)
  \/ v.val \in Seq(Digit) \ {<<>>} /\ v = Value("DIGITAL", v.val, <<>>, <<>>)
  \/ v.val \in Token /\ v = Str(v.val)
  \/ v.kids \in Seq(S) /\ v = Array(v.kids)
  \/ v.keys \in Seq(Escaped) /\ v.kids \in Seq(S) /\ v = Object(v.keys, v.kids)

(* When the children are read as they were written, so is the value.       *)
LEMMA LevelReads ==
  ASSUME NEW d \in 1 .. MaxDepth,
         NEW S, \A k \in S : ReadsWritten(d - 1, k, Written[d - 1][k]),
         NEW v \in Doc[d], Shaped(v, S)
  PROVE  ReadsWritten(d, v, Written[d][v])
  <1>1. PICK x : x = Parsed[d - 1]
    OBVIOUS
  <1>2. PICK y : y = Written[d - 1]
    OBVIOUS
  <1>5. ASSUME NEW w, ReadsAs(w, x, v) PROVE ReadsWritten(d, v, w)
    <2>1. w \in Neat /\ Found(w) /\ w # <<>> /\ w[1] \in Starter /\ ParsedAt(w, x) = v
      BY ONLY <1>5 DEF ReadsAs
    <2>2. w \in Chars
      BY ONLY <2>1 DEF Neat
    <2>3. Parsed[d] = [s \in Chars |-> ParsedAt(s, Parsed[d - 1])]
      BY ParsedIs
    <2>4. Parsed[d][w] = ParsedAt(w, x)
      BY ONLY <1>1, <2>2, <2>3
    <2> QED BY ONLY <2>1, <2>4 DEF ReadsWritten
  <1>6. ASSUME NEW k \in S
        PROVE  y[k] \in Neat /\ Found(y[k]) /\ y[k] # <<>> /\ y[k][1] \in Starter /\ x[y[k]] = k
    BY ONLY \A z \in S : ReadsWritten(d - 1, z, Written[d - 1][z]), <1>1, <1>2, k \in S
       DEF ReadsWritten
  <1>7. ASSUME NEW kids \in Seq(S), NEW texts, texts = [i \in 1 .. Len(kids) |-> y[kids[i]]]
        PROVE  texts \in Seq(Chars) /\ Len(texts) = Len(kids) /\ ReadKids(texts, x, kids)
    <2>1. PICK n \in Nat : n = Len(kids)
      BY ONLY kids \in Seq(S)
    <2>2. ASSUME NEW i \in 1 .. n PROVE kids[i] \in S /\ texts[i] = y[kids[i]]
      <3>1. i \in 1 .. Len(kids)
        BY ONLY <2>1, i \in 1 .. n
      <3>2. kids[i] \in S
        BY ONLY <3>1, kids \in Seq(S)
      <3> QED BY ONLY <1>7, <3>1, <3>2
    <2>3. ASSUME NEW i \in 1 .. n
          PROVE  /\ texts[i] \in Neat /\ Found(texts[i]) /\ texts[i] # <<>>
                 /\ texts[i][1] \in Starter /\ x[texts[i]] = kids[i]
      BY ONLY <1>6, <2>2, i \in 1 .. n
    <2>4. \A i \in 1 .. n : texts[i] \in Chars
      BY ONLY <2>3 DEF Neat
    <2>5. texts = [i \in 1 .. n |-> texts[i]]
      BY ONLY <1>7, <2>1
    <2>6. texts \in Seq(Chars) /\ Len(texts) = n
      BY ONLY <2>4, <2>5, n \in Nat
    <2> QED BY ONLY <2>1, <2>3, <2>6 DEF ReadKids
  <1>8. ReadsWritten(d, v, Written[d][v])
    <2>1. /\ v \in Doc[d]
          /\ \/ v = Null
             \/ \E b \in Bool : v = Value("BOOL", <<b>>, <<>>, <<>>)
             \/ v.val \in Seq(Digit) \ {<<>>} /\ v = Value("DIGITAL", v.val, <<>>, <<>>)
             \/ v.val \in Token /\ v = Str(v.val)
             \/ v.kids \in Seq(S) /\ v = Array(v.kids)
             \/ v.keys \in Seq(Escaped) /\ v.kids \in Seq(S) /\ v = Object(v.keys, v.kids)
      BY ONLY v \in Doc[d], Shaped(v, S), Zenon DEF Shaped
    <2>2. PICK w : w = Written[d][v]
      OBVIOUS
    <2>3. /\ v.type = "OBJECT" => w = <<"{">> \o Joined(ObjectTexts(v, y)) \o <<"}">>
          /\ v.type = "ARRAY" => w = <<"[">> \o Joined(ArrayTexts(v, y)) \o <<"]">>
          /\ v.type = "STRING" => w = Quoted(v.val)
          /\ v.type \in {"NULL", "BOOL", "DIGITAL"} => w = v.val
      <3>1. v \in Doc[d]
        BY ONLY <2>1
      <3> QED BY ONLY <3>1, <1>2, <2>2, d \in 1 .. MaxDepth, WrittenKinds
    <2>4. CASE v = Null
      <3>1. v.type = "NULL" /\ v.val = <<"null">>
        BY ONLY <2>4 DEF Null, Value
      <3>2. w = <<"null">>
        BY ONLY <2>3, <3>1
      <3>3. ReadsAs(w, x, v)
        BY ONLY <2>4, <3>2, ReadNull
      <3> QED BY ONLY <1>5, <2>1, <2>2, <3>3
    <2>5. CASE \E b \in Bool : v = Value("BOOL", <<b>>, <<>>, <<>>)
      <3>1. PICK b \in Bool : v = Value("BOOL", <<b>>, <<>>, <<>>)
        BY <2>5
      <3>2. v.type = "BOOL" /\ v.val = <<b>>
        BY ONLY <3>1 DEF Value
      <3>3. w = <<b>>
        BY ONLY <2>3, <3>2
      <3>4. ReadsAs(<<b>>, x, Value("BOOL", <<b>>, <<>>, <<>>))
        BY ONLY b \in Bool, ReadBool
      <3> QED BY ONLY <1>5, <2>1, <2>2, <3>1, <3>3, <3>4
    <2>6. CASE v.val \in Seq(Digit) \ {<<>>} /\ v = Value("DIGITAL", v.val, <<>>, <<>>)
      <3>1. PICK t \in Seq(Digit) : t = v.val /\ t # <<>> /\ v = Value("DIGITAL", t, <<>>, <<>>)
        BY ONLY <2>6
      <3>2. v.type = "DIGITAL"
        BY ONLY <3>1 DEF Value
      <3>3. w = t
        BY ONLY <2>3, <3>1, <3>2
      <3>4. ReadsAs(t, x, Value("DIGITAL", t, <<>>, <<>>))
        BY ONLY <3>1, t \in Seq(Digit), ReadNumber
      <3> QED BY ONLY <1>5, <2>1, <2>2, <3>1, <3>3, <3>4
    <2>7. CASE v.val \in Token /\ v = Str(v.val)
      <3>1. PICK e \in Token : v.val = e
        BY ONLY <2>7
      <3>2. v.type = "STRING"
        BY ONLY <2>7 DEF Str, Value
      <3>3. w = Quoted(e) /\ v = Str(e)
        BY ONLY <2>3, <2>7, <3>1, <3>2
      <3>4. ReadsAs(Quoted(e), x, Str(e))
        BY ONLY e \in Token, ReadString
      <3> QED BY ONLY <1>5, <2>1, <2>2, <3>3, <3>4
    <2>8. CASE v.kids \in Seq(S) /\ v = Array(v.kids)
      <3>1. PICK kids \in Seq(S) : kids = v.kids /\ v = Array(kids)
        BY ONLY <2>8
      <3>2. v.type = "ARRAY"
        BY ONLY <3>1 DEF Array, Value
      <3>3. PICK texts : texts = [i \in 1 .. Len(kids) |-> y[kids[i]]]
        OBVIOUS
      <3>4. texts \in Seq(Chars) /\ ReadKids(texts, x, kids)
        BY ONLY <1>7, <3>3, kids \in Seq(S)
      <3>5. ArrayTexts(v, y) = texts
        BY ONLY <3>1, <3>3 DEF ArrayTexts
      <3>6. w = <<"[">> \o Joined(texts) \o <<"]">>
        BY ONLY <2>3, <3>2, <3>5
      <3>7. ReadsAs(w, x, Array(kids))
        BY ONLY <3>4, <3>6, kids \in Seq(S), ReadArray
      <3> QED BY ONLY <1>5, <2>1, <2>2, <3>1, <3>7
    <2>9. CASE v.keys \in Seq(Escaped) /\ v.kids \in Seq(S) /\ v = Object(v.keys, v.kids)
      <3>1. PICK kids \in Seq(S) : kids = v.kids
        BY ONLY <2>9
      <3>2. PICK keys \in Seq(Escaped) : keys = v.keys
        BY ONLY <2>9
      <3>3. v = Object(keys, kids)
        BY ONLY <2>9, <3>1, <3>2
      <3>4. v.type = "OBJECT"
        BY ONLY <3>3 DEF Object, Value
      <3>5. Len(keys) = Len(kids)
        <4>1. Doc[d] = {z \in [type : Type, val : Chars, keys : Seq(Chars), kids : Seq(Doc[d - 1])] :
                          z.type = "OBJECT" => Len(z.keys) = Len(z.kids)}
          BY DocIs
        <4>2. v.type = "OBJECT" => Len(v.keys) = Len(v.kids)
          BY ONLY <2>1, <4>1, Zenon
        <4> QED BY ONLY <3>1, <3>2, <3>4, <4>2
      <3>6. PICK texts : texts = [i \in 1 .. Len(kids) |-> y[kids[i]]]
        OBVIOUS
      <3>7. texts \in Seq(Chars) /\ Len(texts) = Len(kids) /\ ReadKids(texts, x, kids)
        BY ONLY <1>7, <3>6, kids \in Seq(S)
      <3>8. PICK n \in Nat : n = Len(kids)
        BY ONLY kids \in Seq(S)
      <3>9. keys \in Seq(Chars)
        <4>1. Escaped \subseteq Chars
          BY ONLY DEF Escaped
        <4> QED BY ONLY <4>1, keys \in Seq(Escaped)
      <3>10. PICK members : members = ObjectTexts(v, y)
        OBVIOUS
      <3>11. members = [i \in 1 .. n |-> Quoted(keys[i]) \o <<":">> \o y[kids[i]]]
        BY ONLY <3>1, <3>2, <3>8, <3>10, Zenon DEF ObjectTexts
      <3>12. ASSUME NEW i \in 1 .. n
             PROVE  /\ members[i] = Member(keys[i], texts[i])
                    /\ members[i] \in Chars
                    /\ \E t \in Chars : keys[i] = Encode(t)
        <4>1. PICK raw \in Escaped : raw = keys[i]
          <5>1. i \in 1 .. Len(keys)
            BY ONLY <3>5, <3>8, i \in 1 .. n
          <5> QED BY ONLY <5>1, keys \in Seq(Escaped)
        <4>2. PICK t \in Chars : raw = Encode(t)
          BY ONLY raw \in Escaped, EscapedIs
        <4>3. texts[i] = y[kids[i]]
          BY ONLY <3>6, <3>8, i \in 1 .. n
        <4>4. members[i] = Member(keys[i], texts[i])
          BY ONLY <3>11, <4>3, i \in 1 .. n DEF Member
        <4>5. PICK u \in Neat : u = texts[i]
          BY ONLY <3>7, <3>8, i \in 1 .. n DEF ReadKids
        <4>6. PICK m : m = members[i]
          OBVIOUS
        <4>7. m = Member(Encode(t), u)
          BY ONLY <4>1, <4>2, <4>4, <4>5, <4>6
        <4>8. m \in Chars
          BY ONLY <4>7, t \in Chars, u \in Neat, MemberNeat
        <4> QED BY ONLY <4>1, <4>2, <4>4, <4>6, <4>8
      <3>13. members \in Seq(Chars) /\ Len(members) = n /\ DOMAIN members = 1 .. n
        <4>1. members = [i \in 1 .. n |-> members[i]]
          BY ONLY <3>11
        <4>2. \A i \in 1 .. n : members[i] \in Chars
          BY ONLY <3>12
        <4>3. members \in [1 .. n -> Chars]
          BY ONLY <4>1, <4>2, Zenon
        <4> QED BY ONLY <4>3, n \in Nat
      <3>14. ReadMembers(members, keys, texts)
        BY ONLY <3>5, <3>7, <3>8, <3>12, <3>13 DEF ReadMembers
      <3>15. DOMAIN members = 1 .. Len(texts)
        BY ONLY <3>7, <3>8, <3>13
      <3>16. w = <<"{">> \o Joined(members) \o <<"}">>
        BY ONLY <2>3, <3>4, <3>10
      <3>17. ReadsAs(w, x, Object(keys, kids))
        BY ONLY <3>7, <3>9, <3>13, <3>14, <3>15, <3>16, kids \in Seq(S), ReadObject
      <3> QED BY ONLY <1>5, <2>1, <2>2, <3>3, <3>17
    <2> QED BY ONLY <2>1, <2>4, <2>5, <2>6, <2>7, <2>8, <2>9
  <1> QED BY ONLY <1>8

(* When values with a level less are read as they were written, so are     *)
(* these.                                                                  *)
LEMMA NextLevelReads ==
  ASSUME NEW d \in 1 .. MaxDepth, Reading(d - 1)
  PROVE  Reading(d)
  <1>1. PICK S : S = WellFormedDoc[d - 1]
    OBVIOUS
  <1>2. WellFormedDoc[d] = Formed(Doc[d], S)
    BY <1>1, WellFormedDocIs
  <1>3. \A k \in S : ReadsWritten(d - 1, k, Written[d - 1][k])
    BY ONLY <1>1, Reading(d - 1) DEF Reading
  <1>4. ASSUME NEW raw \in Escaped PROVE raw \in Token
    BY ONLY raw \in Escaped, EscapedIs, EncodedIsToken
  <1>5. ASSUME NEW v \in WellFormedDoc[d]
        PROVE  v \in Doc[d] /\ ReadsWritten(d, v, Written[d][v])
    <2>1. /\ v \in Doc[d]
          /\ \/ v = Null
             \/ \E b \in Bool : v = Value("BOOL", <<b>>, <<>>, <<>>)
             \/ v.val \in Seq(Digit) \ {<<>>} /\ v = Value("DIGITAL", v.val, <<>>, <<>>)
             \/ v.val \in Escaped /\ v = Str(v.val)
             \/ v.kids \in Seq(S) /\ v = Array(v.kids)
             \/ v.keys \in Seq(Escaped) /\ v.kids \in Seq(S) /\ v = Object(v.keys, v.kids)
      BY ONLY <1>2, v \in WellFormedDoc[d], Zenon DEF Formed
    <2>2. Shaped(v, S)
      BY ONLY <1>4, <2>1, Zenon DEF Shaped
    <2>3. v \in Doc[d]
      BY ONLY <2>1
    <2>4. ReadsWritten(d, v, Written[d][v])
      BY ONLY <1>3, <2>2, <2>3, d \in 1 .. MaxDepth, LevelReads
    <2> QED BY ONLY <2>3, <2>4
  <1> QED BY ONLY <1>5 DEF Reading

(* What is written of a well-formed value is read as that value, whether   *)
(* blanks are removed or not.                                              *)
THEOREM WrittenIsRead ==
  \A v \in WellFormedDoc[MaxDepth] :
    v \in Doc[MaxDepth] /\ InitText(CStr(v), TRUE) = v /\ InitText(CStr(v), FALSE) = v
  <1> DEFINE P == {d \in Nat : d <= MaxDepth => Reading(d)}
  <1>1. 0 \in P
    BY WellFormedDocIs DEF Reading
  <1>2. ASSUME NEW d \in Nat, d < MaxDepth, d \in P PROVE d + 1 \in P
    <2>1. PICK e \in 1 .. MaxDepth : e = d + 1 /\ e - 1 = d
      BY <1>2, DepthAssumption
    <2>2. d <= MaxDepth
      BY <1>2, DepthAssumption
    <2>3. Reading(d)
      BY ONLY <1>2, <2>2 DEF P
    <2>4. Reading(e)
      BY ONLY <2>1, <2>3, e \in 1 .. MaxDepth, NextLevelReads
    <2>5. d + 1 \in Nat
      OBVIOUS
    <2> QED BY ONLY <2>1, <2>4, <2>5, Zenon DEF P
  <1> HIDE DEF P
  <1>3. 0 .. MaxDepth \subseteq P
    <2>1. PICK q : q = P
      OBVIOUS
    <2>2. 0 \in q /\ \A d \in Nat : d < MaxDepth /\ d \in q => d + 1 \in q
      BY ONLY <1>1, <1>2, <2>1
    <2>3. 0 .. MaxDepth \subseteq q
      BY ONLY DepthAssumption, <2>2, UpTo
    <2> QED BY ONLY <2>1, <2>3
  <1>4. MaxDepth \in P /\ MaxDepth <= MaxDepth
    BY ONLY DepthAssumption, <1>3
  <1>5. Reading(MaxDepth)
    BY ONLY <1>4 DEF P
  <1>6. ASSUME NEW v \in WellFormedDoc[MaxDepth]
        PROVE  v \in Doc[MaxDepth] /\ InitText(CStr(v), TRUE) = v /\ InitText(CStr(v), FALSE) = v
    <2>1. PICK w : w = CStr(v)
      OBVIOUS
    <2>2. v \in Doc[MaxDepth] /\ w \in Neat /\ Parsed[MaxDepth][w] = v
      BY ONLY <1>5, <1>6, <2>1 DEF Reading, ReadsWritten, CStr
    <2>3. w \in Chars /\ Keeps(w, FALSE, FALSE)
      BY ONLY <2>2 DEF Neat
    <2>4. Trim(w) = w
      BY ONLY <2>3, KeptWhole
    <2>5. InitText(w, TRUE) = v /\ InitText(w, FALSE) = v
      BY ONLY <2>2, <2>4 DEF InitText, Parse
    <2> QED BY ONLY <2>1, <2>2, <2>5
  <1> QED BY ONLY <1>6

-----------------------------------------------------------------------------
(* The levels of well-formed values.                                       *)

(* What a level's well-formed values are.                                  *)
LEMMA Kinds ==
  ASSUME NEW d \in 1 .. MaxDepth, NEW S, S = WellFormedDoc[d - 1], NEW v
  PROVE  v \in WellFormedDoc[d] <=>
           /\ v \in Doc[d]
           /\ \/ v = Null
              \/ \E b \in Bool : v = Value("BOOL", <<b>>, <<>>, <<>>)
              \/ v.val \in Seq(Digit) \ {<<>>} /\ v = Value("DIGITAL", v.val, <<>>, <<>>)
              \/ v.val \in Escaped /\ v = Str(v.val)
              \/ v.kids \in Seq(S) /\ v = Array(v.kids)
              \/ v.keys \in Seq(Escaped) /\ v.kids \in Seq(S) /\ v = Object(v.keys, v.kids)
  <1>1. WellFormedDoc[d] = Formed(Doc[d], S)
    BY WellFormedDocIs
  <1> QED BY ONLY <1>1, Zenon DEF Formed

(* What it is to have at most d levels.                                    *)
LEMMA IsDoc ==
  ASSUME NEW d \in 1 .. MaxDepth, NEW v
  PROVE  v \in Doc[d] <=>
           /\ v \in [type : Type, val : Chars, keys : Seq(Chars), kids : Seq(Doc[d - 1])]
           /\ v.type = "OBJECT" => Len(v.keys) = Len(v.kids)
  <1>1. Doc[d] = {w \in [type : Type, val : Chars, keys : Seq(Chars), kids : Seq(Doc[d - 1])] :
                    w.type = "OBJECT" => Len(w.keys) = Len(w.kids)}
    BY DocIs
  <1> QED BY ONLY <1>1, Zenon

(* Well-formed values are values.                                          *)
LEMMA WellFormedInDoc ==
  ASSUME NEW d \in 0 .. MaxDepth
  PROVE  WellFormedDoc[d] \subseteq Doc[d]
  <1>1. CASE d = 0
    BY <1>1, WellFormedDocIs
  <1>2. CASE d # 0
    <2>1. d \in 1 .. MaxDepth
      BY <1>2, DepthAssumption
    <2> QED BY <2>1, Kinds
  <1> QED BY <1>1, <1>2

(* What belongs to a level.                                                *)
LEMMA Forming ==
  ASSUME NEW d \in 1 .. MaxDepth, NEW S, S = WellFormedDoc[d - 1]
  PROVE  /\ Null \in WellFormedDoc[d]
         /\ \A t \in Seq(Digit) \ {<<>>} : Value("DIGITAL", t, <<>>, <<>>) \in WellFormedDoc[d]
         /\ \A raw \in Escaped : Str(raw) \in WellFormedDoc[d]
         /\ \A kids \in Seq(S) : Array(kids) \in WellFormedDoc[d]
         /\ \A keys \in Seq(Escaped), kids \in Seq(S) :
              Len(keys) = Len(kids) => Object(keys, kids) \in WellFormedDoc[d]
  <1>1. d - 1 \in 0 .. MaxDepth
    BY DepthAssumption
  <1>2. S \subseteq Doc[d - 1]
    BY <1>1, WellFormedInDoc
  <1>3. PICK D : D = Doc[d - 1] /\ S \subseteq D
    BY ONLY <1>2
  <1>4. Escaped \subseteq Chars /\ <<>> \in Chars /\ Digit \subseteq Char
    BY Texts, CharAssumption DEF Escaped
  <1>5. \A kids \in Seq(S) : kids \in Seq(D)
    BY ONLY <1>3
  <1>6. \A keys \in Seq(Escaped) : keys \in Seq(Chars)
    BY ONLY <1>4
  <1>7. \A t \in Seq(Digit) : t \in Chars
    BY ONLY <1>4 DEF Chars
  <1>8. <<>> \in Seq(S) /\ <<>> \in Seq(Escaped)
    OBVIOUS
  <1>9. ASSUME NEW type \in Type, NEW val \in Chars, NEW keys \in Seq(Chars), NEW kids \in Seq(D),
               type = "OBJECT" => Len(keys) = Len(kids), NEW v, v = Value(type, val, keys, kids)
        PROVE  v \in Doc[d] /\ v.type = type /\ v.val = val /\ v.keys = keys /\ v.kids = kids
    <2>1. v.type = type /\ v.val = val /\ v.keys = keys /\ v.kids = kids
      BY ONLY <1>9 DEF Value
    <2>2. v \in [type : Type, val : Chars, keys : Seq(Chars), kids : Seq(D)]
      BY ONLY <1>9 DEF Value
    <2>3. v \in [type : Type, val : Chars, keys : Seq(Chars), kids : Seq(Doc[d - 1])]
      BY ONLY <1>3, <2>2
    <2>4. v.type = "OBJECT" => Len(v.keys) = Len(v.kids)
      BY ONLY <1>9, <2>1
    <2>5. v \in Doc[d]
      BY ONLY <2>3, <2>4, d \in 1 .. MaxDepth, IsDoc
    <2> QED BY ONLY <2>1, <2>5
  <1>10. ASSUME NEW v, v \in Doc[d],
                \/ v = Null
                \/ v.val \in Seq(Digit) \ {<<>>} /\ v = Value("DIGITAL", v.val, <<>>, <<>>)
                \/ v.val \in Escaped /\ v = Str(v.val)
                \/ v.kids \in Seq(S) /\ v = Array(v.kids)
                \/ v.keys \in Seq(Escaped) /\ v.kids \in Seq(S) /\ v = Object(v.keys, v.kids)
         PROVE  v \in WellFormedDoc[d]
    BY ONLY <1>10, d \in 1 .. MaxDepth, S = WellFormedDoc[d - 1], Kinds
  <1>11. {"NULL", "DIGITAL", "STRING", "ARRAY", "OBJECT"} \subseteq Type /\ "NULL" # "OBJECT" /\ "DIGITAL" # "OBJECT"
         /\ "STRING" # "OBJECT" /\ "ARRAY" # "OBJECT"
    BY DEF Type
  <1>12. <<>> \in Seq(D) /\ <<>> \in Seq(Chars)
    OBVIOUS
  <1>13. Null \in WellFormedDoc[d]
    <2>1. PICK v : v = Null
      OBVIOUS
    <2>2. <<"null">> \in Chars
      BY CharAssumption, Texts
    <2>3. v = Value("NULL", <<"null">>, <<>>, <<>>)
      BY ONLY <2>1 DEF Null
    <2>4. PICK ty \in Type, w \in Chars, em \in Seq(Chars), en \in Seq(D) :
            ty # "OBJECT" /\ v = Value(ty, w, em, en)
      BY ONLY <1>11, <1>12, <2>2, <2>3
    <2>5. v \in Doc[d]
      BY ONLY <1>9, <2>4
    <2> QED BY ONLY <1>10, <2>1, <2>5
  <1>14. ASSUME NEW t \in Seq(Digit), t # <<>> PROVE Value("DIGITAL", t, <<>>, <<>>) \in WellFormedDoc[d]
    <2>1. PICK v : v = Value("DIGITAL", t, <<>>, <<>>)
      OBVIOUS
    <2>2. t \in Chars
      BY ONLY <1>7, t \in Seq(Digit)
    <2>5. PICK ty \in Type, w \in Chars, em \in Seq(Chars), en \in Seq(D) :
            w = t /\ ty # "OBJECT" /\ v = Value(ty, w, em, en)
      BY ONLY <1>11, <1>12, <2>1, <2>2
    <2>6. v \in Doc[d] /\ v.val = w
      BY ONLY <1>9, <2>5
    <2>3. v \in Doc[d] /\ v.val = t
      BY ONLY <2>5, <2>6
    <2>4. v.val \in Seq(Digit) \ {<<>>} /\ v = Value("DIGITAL", v.val, <<>>, <<>>)
      BY ONLY <1>14, <2>1, <2>3
    <2> QED BY ONLY <1>10, <2>1, <2>3, <2>4
  <1>15. ASSUME NEW raw \in Escaped PROVE Str(raw) \in WellFormedDoc[d]
    <2>1. PICK v : v = Str(raw)
      OBVIOUS
    <2>2. raw \in Chars /\ v = Value("STRING", raw, <<>>, <<>>)
      BY ONLY <1>4, <2>1, raw \in Escaped DEF Str
    <2>5. PICK ty \in Type, w \in Chars, em \in Seq(Chars), en \in Seq(D) :
            w = raw /\ ty # "OBJECT" /\ v = Value(ty, w, em, en)
      BY ONLY <1>11, <1>12, <2>2
    <2>6. v \in Doc[d] /\ v.val = w
      BY ONLY <1>9, <2>5
    <2>3. v \in Doc[d] /\ v.val = raw
      BY ONLY <2>5, <2>6
    <2> QED BY ONLY <1>10, <2>1, <2>3, raw \in Escaped
  <1>16. ASSUME NEW kids \in Seq(S) PROVE Array(kids) \in WellFormedDoc[d]
    <2>1. PICK v : v = Array(kids)
      OBVIOUS
    <2>2. kids \in Seq(D) /\ v = Value("ARRAY", <<>>, <<>>, kids)
      BY ONLY <1>5, <2>1, kids \in Seq(S) DEF Array
    <2>5. PICK ty \in Type, w \in Chars, em \in Seq(Chars), en \in Seq(D) :
            en = kids /\ ty # "OBJECT" /\ v = Value(ty, w, em, en)
      BY ONLY <1>4, <1>11, <1>12, <2>2
    <2>6. v \in Doc[d] /\ v.kids = en
      BY ONLY <1>9, <2>5
    <2>3. v \in Doc[d] /\ v.kids = kids
      BY ONLY <2>5, <2>6
    <2> QED BY ONLY <1>10, <2>1, <2>3, kids \in Seq(S)
  <1>17. ASSUME NEW keys \in Seq(Escaped), NEW kids \in Seq(S), Len(keys) = Len(kids)
         PROVE  Object(keys, kids) \in WellFormedDoc[d]
    <2>1. PICK v : v = Object(keys, kids)
      OBVIOUS
    <2>2. kids \in Seq(D) /\ keys \in Seq(Chars) /\ v = Value("OBJECT", <<>>, keys, kids)
      BY ONLY <1>5, <1>6, <2>1, kids \in Seq(S), keys \in Seq(Escaped) DEF Object
    <2>3. v \in Doc[d] /\ v.kids = kids /\ v.keys = keys
      BY ONLY <1>4, <1>9, <1>11, <1>17, <2>2
    <2> QED BY ONLY <1>10, <2>1, <2>3, kids \in Seq(S), keys \in Seq(Escaped)
  <1> QED BY ONLY <1>13, <1>14, <1>15, <1>16, <1>17

(* Each level contains the one below it.                                   *)
LEMMA NextLevelGrows ==
  ASSUME NEW d \in 0 .. MaxDepth, d < MaxDepth,
         d > 0 => Doc[d - 1] \subseteq Doc[d] /\ WellFormedDoc[d - 1] \subseteq WellFormedDoc[d]
  PROVE  Doc[d] \subseteq Doc[d + 1] /\ WellFormedDoc[d] \subseteq WellFormedDoc[d + 1]
  <1>1. CASE d = 0
    BY <1>1, DocIs, WellFormedDocIs
  <1>2. CASE d # 0
    <2>1. d \in 1 .. MaxDepth
      BY <1>2, DepthAssumption
    <2>2. PICK e \in 1 .. MaxDepth : e = d + 1 /\ e - 1 = d
      BY DepthAssumption
    <2>3. PICK D : D = Doc[d - 1]
      OBVIOUS
    <2>4. PICK E : E = Doc[e - 1] /\ E = Doc[d] /\ D \subseteq E
      <3>1. Doc[d - 1] \subseteq Doc[d]
        BY <2>1
      <3> QED BY ONLY <2>2, <2>3, <3>1
    <2>5. PICK S : S = WellFormedDoc[d - 1]
      OBVIOUS
    <2>6. PICK T : T = WellFormedDoc[e - 1] /\ T = WellFormedDoc[d] /\ S \subseteq T
      <3>1. WellFormedDoc[d - 1] \subseteq WellFormedDoc[d]
        BY <2>1
      <3> QED BY ONLY <2>2, <2>5, <3>1
    <2>7. ASSUME NEW v \in Doc[d] PROVE v \in Doc[e]
      <3>1. v \in [type : Type, val : Chars, keys : Seq(Chars), kids : Seq(D)]
        BY ONLY <2>1, <2>3, v \in Doc[d], IsDoc
      <3>2. v.type = "OBJECT" => Len(v.keys) = Len(v.kids)
        BY ONLY <2>1, v \in Doc[d], IsDoc
      <3>3. \A k \in Seq(D) : k \in Seq(E)
        BY ONLY <2>4
      <3>4. v \in [type : Type, val : Chars, keys : Seq(Chars), kids : Seq(E)]
        BY ONLY <3>1, <3>3
      <3> QED BY ONLY <2>4, <3>2, <3>4, e \in 1 .. MaxDepth, IsDoc
    <2>8. ASSUME NEW v \in WellFormedDoc[d] PROVE v \in WellFormedDoc[e]
      <3>1. \A k \in Seq(S) : k \in Seq(T)
        BY ONLY <2>6
      <3>2. v \in Doc[d]
        BY ONLY <2>1, <2>5, v \in WellFormedDoc[d], Kinds
      <3>3. v \in Doc[e]
        BY ONLY <2>7, <3>2
      <3>4. \/ v = Null
            \/ \E b \in Bool : v = Value("BOOL", <<b>>, <<>>, <<>>)
            \/ v.val \in Seq(Digit) \ {<<>>} /\ v = Value("DIGITAL", v.val, <<>>, <<>>)
            \/ v.val \in Escaped /\ v = Str(v.val)
            \/ v.kids \in Seq(S) /\ v = Array(v.kids)
            \/ v.keys \in Seq(Escaped) /\ v.kids \in Seq(S) /\ v = Object(v.keys, v.kids)
        BY ONLY <2>1, <2>5, v \in WellFormedDoc[d], Kinds
      <3> QED BY ONLY <2>6, <3>1, <3>3, <3>4, e \in 1 .. MaxDepth, Kinds
    <2> QED BY ONLY <2>2, <2>7, <2>8
  <1> QED BY <1>1, <1>2

(* A value of d levels is one of d + 1.                                    *)
LEMMA LevelsGrow ==
  ASSUME NEW d \in 0 .. MaxDepth, d < MaxDepth
  PROVE  Doc[d] \subseteq Doc[d + 1] /\ WellFormedDoc[d] \subseteq WellFormedDoc[d + 1]
  <1> DEFINE Grows(i) == Doc[i] \subseteq Doc[i + 1] /\ WellFormedDoc[i] \subseteq WellFormedDoc[i + 1]
             P == {i \in Nat : i < MaxDepth => Grows(i)}
  <1>1. ASSUME NEW i \in 0 .. MaxDepth, i < MaxDepth,
               i > 0 => Doc[i - 1] \subseteq Doc[i] /\ WellFormedDoc[i - 1] \subseteq WellFormedDoc[i]
        PROVE  Grows(i)
    BY ONLY <1>1, i \in 0 .. MaxDepth, NextLevelGrows
  <1>2. 0 \in P
    <2>1. ASSUME 0 < MaxDepth PROVE Grows(0)
      <3>1. PICK z \in 0 .. MaxDepth : z = 0
        BY DepthAssumption
      <3>2. z < MaxDepth /\ ~(z > 0)
        BY <2>1, <3>1
      <3> HIDE DEF Grows
      <3>3. Grows(z)
        BY ONLY <1>1, <3>2, z \in 0 .. MaxDepth
      <3> QED BY ONLY <3>1, <3>3
    <2> HIDE DEF Grows
    <2> QED BY <2>1
  <1>3. ASSUME NEW i \in Nat, i < MaxDepth, i \in P PROVE i + 1 \in P
    <2>1. ASSUME i + 1 < MaxDepth PROVE Grows(i + 1)
      <3>1. PICK j \in 0 .. MaxDepth : j = i + 1 /\ j - 1 = i /\ j < MaxDepth
        BY <2>1, DepthAssumption
      <3>2. Grows(i)
        BY ONLY <1>3 DEF P
      <3>3. Doc[j - 1] \subseteq Doc[j] /\ WellFormedDoc[j - 1] \subseteq WellFormedDoc[j]
        BY ONLY <3>1, <3>2 DEF Grows
      <3> HIDE DEF Grows
      <3>4. Grows(j)
        BY ONLY <1>1, <3>1, <3>3, j \in 0 .. MaxDepth
      <3> QED BY ONLY <3>1, <3>4
    <2>2. i + 1 \in Nat
      OBVIOUS
    <2> HIDE DEF Grows
    <2> QED BY ONLY <2>1, <2>2, Zenon DEF P
  <1> HIDE DEF P
  <1>4. 0 .. MaxDepth \subseteq P
    <2>1. PICK q : q = P
      OBVIOUS
    <2>2. 0 \in q /\ \A i \in Nat : i < MaxDepth /\ i \in q => i + 1 \in q
      BY ONLY <1>2, <1>3, <2>1
    <2>3. 0 .. MaxDepth \subseteq q
      BY ONLY DepthAssumption, <2>2, UpTo
    <2> QED BY ONLY <2>1, <2>3
  <1>5. d \in P
    BY <1>4
  <1> QED BY ONLY <1>5, d < MaxDepth DEF P, Grows

(* A level contains all those below it.                                    *)
LEMMA LevelIn ==
  ASSUME NEW d \in 0 .. MaxDepth, NEW e \in 0 .. MaxDepth, d <= e
  PROVE  Doc[d] \subseteq Doc[e] /\ WellFormedDoc[d] \subseteq WellFormedDoc[e]
  <1> DEFINE In(i) == Doc[d] \subseteq Doc[i] /\ WellFormedDoc[d] \subseteq WellFormedDoc[i]
             P == {i \in Nat : d <= i => In(i)}
  <1>1. 0 \in P
    <2>1. d <= 0 => d = 0
      BY DepthAssumption
    <2> QED BY <2>1
  <1>2. ASSUME NEW i \in Nat, i < e, i \in P PROVE i + 1 \in P
    <2>1. PICK j \in 0 .. MaxDepth : j = i + 1 /\ i \in 0 .. MaxDepth /\ i < MaxDepth
      BY <1>2, DepthAssumption
    <2>2. Doc[i] \subseteq Doc[i + 1] /\ WellFormedDoc[i] \subseteq WellFormedDoc[i + 1]
      BY ONLY <2>1, LevelsGrow
    <2>3. d <= i => In(i)
      BY <1>2
    <2>4. d <= j => d <= i \/ d = j
      BY <2>1, DepthAssumption
    <2>5. d <= j => In(j)
      <3>1. d <= i => In(j)
        BY ONLY <2>1, <2>2, <2>3
      <3> QED BY <2>4, <3>1
    <2>6. i + 1 \in Nat
      OBVIOUS
    <2> HIDE DEF In
    <2> QED BY ONLY <2>1, <2>5, <2>6
  <1> HIDE DEF P
  <1>3. e \in Nat
    BY DepthAssumption
  <1>4. 0 .. e \subseteq P
    <2>1. PICK q : q = P
      OBVIOUS
    <2>2. 0 \in q /\ \A i \in Nat : i < e /\ i \in q => i + 1 \in q
      BY ONLY <1>1, <1>2, <2>1
    <2>3. 0 .. e \subseteq q
      BY ONLY <1>3, <2>2, UpTo
    <2> QED BY ONLY <2>1, <2>3
  <1>5. e \in P
    BY ONLY <1>3, <1>4
  <1> QED BY ONLY <1>5, d <= e DEF P

(* What is stored for a text can be read.                                  *)
LEMMA StoredIsEscaped ==
  ASSUME NEW t \in Chars, NEW bEncode \in BOOLEAN, MayStore(t, bEncode)
  PROVE  /\ Stored(t, bEncode) \in Escaped /\ Stored(t, bEncode) = Encode(t)
         /\ Decode(Stored(t, bEncode)) = t
  <1>1. Stored(t, bEncode) = Stored(t, TRUE)
    BY DEF Stored, MayStore
  <1>2. Stored(t, TRUE) = Encode(t)
    BY StoredIsEncoded
  <1>3. Decode(Stored(t, TRUE)) = t
    BY DecodesStored
  <1>4. Encode(t) \in Chars
    BY EncodePlaces
  <1>5. Encode(t) \in Escaped
    BY ONLY <1>2, <1>3, <1>4 DEF Escaped
  <1> QED BY ONLY <1>1, <1>2, <1>3, <1>5

(* A key needs no escaping.                                                *)
LEMMA KeyIsEscaped == ASSUME NEW k \in Key PROVE k \in Escaped
  <1>1. k \in Chars /\ EncodeCheck(k) = -1
    BY KeyAssumption
  <1>2. Stored(k, FALSE) = k /\ MayStore(k, FALSE)
    BY ONLY <1>1 DEF Stored, MayStore
  <1>3. PICK b \in BOOLEAN : b = FALSE
    OBVIOUS
  <1>4. Stored(k, b) \in Escaped
    BY ONLY <1>1, <1>2, <1>3, StoredIsEscaped
  <1> QED BY ONLY <1>2, <1>3, <1>4

(* A number is printed as digits.                                          *)
LEMMA DigitsAre == ASSUME NEW n \in Nat PROVE Digits(n) \in Seq(Digit) \ {<<>>}
  <1> DEFINE W == {k \in 1 .. 9 : n < Powers[k + 1]} \union {10}
  <1>1. W \in SUBSET (1 .. 10) /\ W \in SUBSET Nat /\ W # {}
    OBVIOUS
  <1>2. PICK width : width = Min(W)
    OBVIOUS
  <1>3. Min(W) \in W
    BY ONLY <1>1, MinIn
  <1>4. width \in 1 .. 10
    BY ONLY <1>1, <1>2, <1>3
  <1>5. Digits(n) = [i \in 1 .. width |-> Numeral[((n \div Powers[width + 1 - i]) % 10) + 1]]
    BY <1>2 DEF Digits
  <1>6. \A j \in 1 .. 10 : Powers[j] \in Nat \ {0}
    BY DEF Powers
  <1>7. \A j \in 1 .. 10 : Numeral[j] \in Digit
    BY DEF Numeral, Digit
  <1>8. ASSUME NEW i \in 1 .. width
        PROVE  Numeral[((n \div Powers[width + 1 - i]) % 10) + 1] \in Digit
    <2>1. PICK j \in 1 .. 10 : j = width + 1 - i
      BY ONLY <1>4
    <2>2. PICK p \in Nat : p = Powers[j] /\ p > 0
      BY ONLY <1>6
    <2>3. PICK q \in Int : q = n \div p
      BY ONLY <2>2, n \in Nat
    <2>4. (q % 10) + 1 \in 1 .. 10
      BY ONLY q \in Int
    <2> QED BY ONLY <1>7, <2>1, <2>2, <2>3, <2>4
  <1>9. width \in Nat /\ 1 \in 1 .. width
    BY ONLY <1>4
  <1> HIDE DEF W
  <1>10. Digits(n) \in [1 .. width -> Digit]
    BY ONLY <1>5, <1>8
  <1>11. Digits(n) \in Seq(Digit) /\ Len(Digits(n)) = width
    BY ONLY <1>9, <1>10
  <1> QED BY ONLY <1>9, <1>11

(* At least one of them is written,                                        *)
LEMMA PrintedAre == ASSUME NEW n \in Nat PROVE Printed(n) \in Seq(Digit) \ {<<>>}
  <1>1. PICK d \in Seq(Digit) \ {<<>>} : d = Digits(n)
    BY DigitsAre
  <1>2. CASE Len(d) > 9
    BY ONLY <1>1, <1>2 DEF Printed
  <1> QED BY ONLY <1>1, <1>2 DEF Printed

(* and all of up to nine.                                                  *)
LEMMA PrintedIs == ASSUME NEW n \in Nat, n <= 999999999 PROVE Printed(n) = Digits(n)
  <1> DEFINE W == {k \in 1 .. 9 : n < Powers[k + 1]} \union {10}
  <1>1. 9 \in W
    BY n \in Nat, n <= 999999999, SMT DEF Powers
  <1>2. W \in SUBSET Nat /\ W # {}
    OBVIOUS
  <1>3. Min(W) \in W /\ Min(W) <= 9
    BY ONLY <1>1, <1>2, MinIn
  <1>4. PICK w \in 1 .. 9 : w = Min(W)
    BY ONLY <1>3
  <1>5. Digits(n) = [i \in 1 .. w |-> Numeral[((n \div Powers[w + 1 - i]) % 10) + 1]]
    BY <1>4 DEF Digits
  <1> HIDE DEF W
  <1>6. Len(Digits(n)) = w
    BY ONLY <1>5
  <1> QED BY ONLY <1>6 DEF Printed

(* What a well-formed value of a level is, by its type.                    *)
LEMMA ByType ==
  ASSUME NEW d \in 1 .. MaxDepth, NEW S, S = WellFormedDoc[d - 1], NEW v \in WellFormedDoc[d]
  PROVE  /\ v.type = "NULL" => v = Null
         /\ v.type # "MAX"
         /\ v.type = "ARRAY" => v.kids \in Seq(S) /\ v = Array(v.kids)
         /\ v.type = "OBJECT" => /\ v.keys \in Seq(Escaped) /\ v.kids \in Seq(S)
                                 /\ Len(v.keys) = Len(v.kids) /\ v = Object(v.keys, v.kids)
         /\ v.type = "STRING" => v.val \in Escaped /\ v = Str(v.val)
         /\ v.type \in {"BOOL", "DIGITAL", "STRING"} => v.kids = <<>> /\ v.keys = <<>>
         /\ v.kids \in Seq(S)
  <1>1. /\ v \in Doc[d]
        /\ \/ v = Null
           \/ \E b \in Bool : v = Value("BOOL", <<b>>, <<>>, <<>>)
           \/ v.val \in Seq(Digit) \ {<<>>} /\ v = Value("DIGITAL", v.val, <<>>, <<>>)
           \/ v.val \in Escaped /\ v = Str(v.val)
           \/ v.kids \in Seq(S) /\ v = Array(v.kids)
           \/ v.keys \in Seq(Escaped) /\ v.kids \in Seq(S) /\ v = Object(v.keys, v.kids)
    BY ONLY d \in 1 .. MaxDepth, S = WellFormedDoc[d - 1], v \in WellFormedDoc[d], Kinds
  <1>2. v.type = "OBJECT" => Len(v.keys) = Len(v.kids)
    BY ONLY <1>1, d \in 1 .. MaxDepth, IsDoc
  <1>3. CASE v = Null
    BY ONLY <1>3 DEF Null, Value
  <1>4. CASE \E b \in Bool : v = Value("BOOL", <<b>>, <<>>, <<>>)
    BY ONLY <1>4 DEF Value
  <1>5. CASE v.val \in Seq(Digit) \ {<<>>} /\ v = Value("DIGITAL", v.val, <<>>, <<>>)
    <2>1. v.type = "DIGITAL" /\ v.kids = <<>> /\ v.keys = <<>>
      BY ONLY <1>5 DEF Value
    <2> QED BY ONLY <2>1
  <1>6. CASE v.val \in Escaped /\ v = Str(v.val)
    <2>1. v.type = "STRING" /\ v.kids = <<>> /\ v.keys = <<>>
      BY ONLY <1>6 DEF Str, Value
    <2> QED BY ONLY <1>6, <2>1
  <1>7. CASE v.kids \in Seq(S) /\ v = Array(v.kids)
    <2>1. v.type = "ARRAY"
      BY ONLY <1>7 DEF Array, Value
    <2> QED BY ONLY <1>7, <2>1
  <1>8. CASE v.keys \in Seq(Escaped) /\ v.kids \in Seq(S) /\ v = Object(v.keys, v.kids)
    <2>1. v.type = "OBJECT"
      BY ONLY <1>8 DEF Object, Value
    <2> QED BY ONLY <1>2, <1>8, <2>1
  <1> QED BY ONLY <1>1, <1>3, <1>4, <1>5, <1>6, <1>7, <1>8

(* The place of a key.                                                     *)
LEMMA KeyPlace ==
  ASSUME NEW v, NEW k, NEW n \in Nat, Len(v.keys) = n, v.type = "OBJECT"
  PROVE  /\ GetKeyIndex(v, k) \in 0 .. n
         /\ GetKeyIndex(v, k) # 0 => v.keys[GetKeyIndex(v, k)] = k
         /\ GetKeyIndex(v, k) = 0 => \A i \in 1 .. n : v.keys[i] # k
         /\ \A i \in 1 .. n : i < GetKeyIndex(v, k) => v.keys[i] # k
  <1> DEFINE I == {i \in 1 .. Len(v.keys) : v.keys[i] = k}
  <1>1. GetKeyIndex(v, k) = IF I # {} THEN Min(I) ELSE 0
    BY ONLY v.type = "OBJECT" DEF GetKeyIndex, SelectInSeq
  <1>2. I \in SUBSET Nat /\ I \subseteq 1 .. n /\ (\A i \in I : v.keys[i] = k)
        /\ (\A i \in 1 .. n : i \notin I => v.keys[i] # k)
    BY ONLY Len(v.keys) = n
  <1> HIDE DEF I
  <1>3. CASE I = {}
    BY ONLY <1>1, <1>2, <1>3, n \in Nat
  <1>4. CASE I # {}
    <2>1. Min(I) \in I /\ \A y \in I : Min(I) <= y
      BY ONLY <1>2, <1>4, MinIn
    <2>2. PICK m \in I : m = Min(I)
      BY <2>1
    <2>3. GetKeyIndex(v, k) = m
      BY ONLY <1>1, <1>4, <2>2
    <2>4. \A i \in 1 .. n : i < m => v.keys[i] # k
      BY ONLY <1>2, <2>1, <2>2
    <2> QED BY ONLY <1>2, <2>3, <2>4, n \in Nat
  <1> QED BY ONLY <1>3, <1>4

(* t is s from place 1 to n, with place i left out.                        *)
Moved(t, s, n, i) == \A j \in 1 .. n - 1 : t[j] = IF j < i THEN s[j] ELSE s[j + 1]

(* A place in a sequence that is left out.                                 *)
LEMMA LeftOut ==
  ASSUME NEW S, NEW s \in Seq(S), NEW n \in Nat, n = Len(s), NEW i \in 1 .. n
  PROVE  /\ RemoveAt(s, i) \in Seq(S) /\ Len(RemoveAt(s, i)) = n - 1
         /\ Moved(RemoveAt(s, i), s, n, i)
  <1>1. SubSeq(s, 1, i - 1) \in Seq(S) /\ Len(SubSeq(s, 1, i - 1)) = i - 1
        /\ \A j \in 1 .. i - 1 : SubSeq(s, 1, i - 1)[j] = s[j]
    OBVIOUS
  <1>2. SubSeq(s, i + 1, n) \in Seq(S) /\ Len(SubSeq(s, i + 1, n)) = n - i
        /\ \A j \in 1 .. n - i : SubSeq(s, i + 1, n)[j] = s[i + j]
    OBVIOUS
  <1>3. PICK a \in Seq(S) : a = SubSeq(s, 1, i - 1)
    BY <1>1
  <1>4. PICK b \in Seq(S) : b = SubSeq(s, i + 1, n)
    BY <1>2
  <1>5. RemoveAt(s, i) = a \o b
    BY <1>3, <1>4 DEF RemoveAt
  <1>6. Len(a) = i - 1 /\ Len(b) = n - i
    BY <1>1, <1>2, <1>3, <1>4
  <1>7. a \o b \in Seq(S) /\ Len(a \o b) = n - 1
    BY ONLY <1>6, i \in 1 .. n, n \in Nat
  <1>8. \A j \in 1 .. n - 1 : (a \o b)[j] = IF j < i THEN s[j] ELSE s[j + 1]
    <2> SUFFICES ASSUME NEW j \in 1 .. n - 1 PROVE (a \o b)[j] = IF j < i THEN s[j] ELSE s[j + 1]
      OBVIOUS
    <2>1. CASE j < i
      <3>1. j \in 1 .. i - 1
        BY <2>1
      <3>2. (a \o b)[j] = a[j]
        BY ONLY <1>6, <3>1, i \in 1 .. n, n \in Nat
      <3> QED BY <1>1, <1>3, <2>1, <3>1, <3>2
    <2>2. CASE ~(j < i)
      <3>1. PICK m \in 1 .. n - i : j = (i - 1) + m /\ i + m = j + 1
        BY <2>2
      <3>4. \A k \in 1 .. Len(b) : (a \o b)[Len(a) + k] = b[k]
        BY ONLY a \in Seq(S), b \in Seq(S)
      <3>2. (a \o b)[j] = b[m]
        BY ONLY <1>6, <3>1, <3>4
      <3>3. b[m] = s[i + m]
        BY <1>2, <1>4
      <3> QED BY ONLY <2>2, <3>1, <3>2, <3>3
    <2> QED BY ONLY <2>1, <2>2
  <1> QED BY ONLY <1>5, <1>7, <1>8 DEF Moved

-----------------------------------------------------------------------------
(* What texts say.                                                         *)

(* Text t says the value w.                                                *)
Says(t, w) == InitText(t, TRUE) = w /\ InitText(t, FALSE) = w

(* What is written for a value says this value.                            *)
LEMMA WrittenSays ==
  ASSUME NEW d \in 0 .. MaxDepth, NEW w \in WellFormedDoc[d]
  PROVE  Says(CStr(w), w)
  <1>1. PICK m \in 0 .. MaxDepth : m = MaxDepth /\ d <= m
    BY DepthAssumption
  <1>2. WellFormedDoc[d] \subseteq WellFormedDoc[m]
    BY ONLY <1>1, d \in 0 .. MaxDepth, LevelIn
  <1>3. w \in WellFormedDoc[MaxDepth]
    BY ONLY <1>1, <1>2, w \in WellFormedDoc[d]
  <1> QED BY ONLY <1>3, WrittenIsRead DEF Says

(* What the callers of this module say.                                    *)
LEMMA Level1 == 1 \in 1 .. MaxDepth /\ 1 \in 0 .. MaxDepth /\ MaxDepth \in 1 .. MaxDepth
  BY DepthAssumption, LevelAssumption

(* The values that are read from one text without children.                *)
LEMMA Plain ==
  /\ Null \in WellFormedDoc[1]
  /\ \A t \in Seq(Digit) \ {<<>>} : Value("DIGITAL", t, <<>>, <<>>) \in WellFormedDoc[1]
  /\ \A raw \in Escaped : Str(raw) \in WellFormedDoc[1]
  /\ Array(<<>>) \in WellFormedDoc[1]
  /\ Object(<<>>, <<>>) \in WellFormedDoc[1]
  <1>1. PICK d \in 1 .. MaxDepth : d = 1
    BY Level1
  <1>2. PICK S : S = WellFormedDoc[d - 1]
    OBVIOUS
  <1>3. /\ Null \in WellFormedDoc[d]
        /\ \A t \in Seq(Digit) \ {<<>>} : Value("DIGITAL", t, <<>>, <<>>) \in WellFormedDoc[d]
        /\ \A raw \in Escaped : Str(raw) \in WellFormedDoc[d]
        /\ \A kids \in Seq(S) : Array(kids) \in WellFormedDoc[d]
        /\ \A keys \in Seq(Escaped), kids \in Seq(S) :
             Len(keys) = Len(kids) => Object(keys, kids) \in WellFormedDoc[d]
    BY ONLY <1>2, d \in 1 .. MaxDepth, Forming
  <1>4. PICK ks \in Seq(Escaped), vs \in Seq(S) : ks = <<>> /\ vs = <<>> /\ Len(ks) = Len(vs)
    <2>1. <<>> \in Seq(Escaped)
      OBVIOUS
    <2>2. <<>> \in Seq(S)
      OBVIOUS
    <2> QED BY ONLY <2>1, <2>2, Zenon
  <1>5. Array(vs) \in WellFormedDoc[d] /\ Object(ks, vs) \in WellFormedDoc[d]
    BY ONLY <1>3, <1>4
  <1> QED BY ONLY <1>1, <1>3, <1>4, <1>5

(* The documents that are added are well formed.                           *)
LEMMA PartIn == ASSUME NEW w \in Part PROVE w \in WellFormedDoc[1]
  BY Plain DEF Part

(* The text of a value without children is its own.                        *)
LEMMA PlainText ==
  ASSUME NEW v \in WellFormedDoc[1]
  PROVE  /\ v.type = "STRING" => CStr(v) = Quoted(v.val)
         /\ v.type \in {"NULL", "BOOL", "DIGITAL"} => CStr(v) = v.val
  <1>1. PICK m \in 1 .. MaxDepth : m = MaxDepth /\ m \in 0 .. MaxDepth /\ 1 <= m
    BY DepthAssumption, LevelAssumption
  <1>2. PICK one \in 0 .. MaxDepth : one = 1 /\ one <= m
    BY Level1, <1>1
  <1>3. WellFormedDoc[one] \subseteq WellFormedDoc[m]
    BY ONLY <1>1, <1>2, LevelIn
  <1>4. v \in Doc[m]
    BY ONLY <1>1, <1>2, <1>3, v \in WellFormedDoc[1], WellFormedInDoc
  <1>5. PICK x : x = Written[m - 1]
    OBVIOUS
  <1>6. /\ v.type = "STRING" => Written[m][v] = Quoted(v.val)
        /\ v.type \in {"NULL", "BOOL", "DIGITAL"} => Written[m][v] = v.val
    BY ONLY <1>4, <1>5, m \in 1 .. MaxDepth, WrittenKinds
  <1> QED BY ONLY <1>1, <1>6 DEF CStr

(* The text that is stored between quotes says the string,                 *)
LEMMA TextSays ==
  ASSUME NEW t \in Chars, NEW bEncode \in BOOLEAN, MayStore(t, bEncode)
  PROVE  /\ SetStr(t, bEncode) \in WellFormedDoc[1]
         /\ Says(Quoted(Stored(t, bEncode)), SetStr(t, bEncode))
  <1>1. Stored(t, bEncode) \in Escaped
    BY StoredIsEscaped
  <1>2. PICK raw \in Escaped : raw = Stored(t, bEncode)
    BY <1>1
  <1>3. PICK v : v = Str(raw)
    OBVIOUS
  <1>4. v \in WellFormedDoc[1]
    BY ONLY <1>3, Plain, raw \in Escaped
  <1>5. v.type = "STRING" /\ v.val = raw
    BY ONLY <1>3 DEF Str, Value
  <1>6. CStr(v) = Quoted(raw)
    BY ONLY <1>4, <1>5, PlainText
  <1>7. PICK one \in 0 .. MaxDepth : one = 1
    BY Level1
  <1>8. v \in WellFormedDoc[one]
    BY ONLY <1>4, <1>7
  <1>9. Says(CStr(v), v)
    BY ONLY <1>8, one \in 0 .. MaxDepth, WrittenSays
  <1> QED BY ONLY <1>2, <1>3, <1>4, <1>6, <1>9 DEF SetStr

(* the digits say the number,                                              *)
LEMMA NumberSays ==
  ASSUME NEW n \in Nat
  PROVE  SetInt(n) \in WellFormedDoc[1] /\ Says(Printed(n), SetInt(n))
  <1>1. PICK t \in Seq(Digit) \ {<<>>} : t = Printed(n)
    BY PrintedAre
  <1>2. PICK v : v = Value("DIGITAL", t, <<>>, <<>>)
    OBVIOUS
  <1>3. v \in WellFormedDoc[1]
    BY ONLY <1>2, Plain, t \in Seq(Digit) \ {<<>>}
  <1>4. v.type = "DIGITAL" /\ v.val = t
    BY ONLY <1>2 DEF Value
  <1>5. v.type \in {"NULL", "BOOL", "DIGITAL"}
    BY ONLY <1>4
  <1>6. CStr(v) = t
    BY ONLY <1>3, <1>4, <1>5, PlainText
  <1>7. PICK one \in 0 .. MaxDepth : one = 1
    BY Level1
  <1>8. v \in WellFormedDoc[one]
    BY ONLY <1>3, <1>7
  <1>9. Says(CStr(v), v)
    BY ONLY <1>8, one \in 0 .. MaxDepth, WrittenSays
  <1> QED BY ONLY <1>1, <1>2, <1>3, <1>6, <1>9 DEF SetInt

(* the document that is added says itself,                                 *)
LEMMA PartSays == ASSUME NEW w \in Part PROVE w \in WellFormedDoc[1] /\ Says(CStr(w), w)
  <1>1. PICK one \in 0 .. MaxDepth : one = 1
    BY Level1
  <1>2. w \in WellFormedDoc[one]
    BY ONLY <1>1, PartIn, w \in Part
  <1> QED BY ONLY <1>1, <1>2, WrittenSays

(* and the word null says null.                                            *)
LEMMA NullSays == Says(<<"null">>, Null)
  <1>1. PICK v : v = Null
    OBVIOUS
  <1>2. v \in WellFormedDoc[1]
    BY ONLY <1>1, Plain
  <1>3. v.type = "NULL" /\ v.val = <<"null">>
    BY ONLY <1>1 DEF Null, Value
  <1>4. v.type \in {"NULL", "BOOL", "DIGITAL"}
    BY ONLY <1>3
  <1>5. CStr(v) = v.val
    BY ONLY <1>2, <1>4, PlainText
  <1>6. PICK one \in 0 .. MaxDepth : one = 1
    BY Level1
  <1>7. v \in WellFormedDoc[one]
    BY ONLY <1>2, <1>6
  <1>8. Says(CStr(v), v)
    BY ONLY <1>7, one \in 0 .. MaxDepth, WrittenSays
  <1> QED BY ONLY <1>1, <1>3, <1>5, <1>8

-----------------------------------------------------------------------------
(* What the operations make of a value, and that it stays well formed.     *)

(* A child that is replaced.                                               *)
LEMMA ChildReplaced ==
  ASSUME NEW d \in 1 .. MaxDepth, NEW S, S = WellFormedDoc[d - 1], NEW v \in WellFormedDoc[d],
         NEW i \in DOMAIN v.kids, NEW w \in S
  PROVE  /\ [v EXCEPT !.kids[i] = w] \in WellFormedDoc[d]
         /\ [v EXCEPT !.kids[i] = w].kids = [v.kids EXCEPT ![i] = w]
  <1>1. v \in Doc[d]
    BY ONLY d \in 1 .. MaxDepth, S = WellFormedDoc[d - 1], v \in WellFormedDoc[d], Kinds
  <1>2. PICK kids \in Seq(S) : kids = v.kids
    BY ONLY ByType, d \in 1 .. MaxDepth, S = WellFormedDoc[d - 1], v \in WellFormedDoc[d]
  <1>3. PICK u : u = [kids EXCEPT ![i] = w]
    OBVIOUS
  <1>4. u \in Seq(S) /\ Len(u) = Len(kids)
    BY ONLY <1>2, <1>3, kids \in Seq(S), i \in DOMAIN v.kids, w \in S
  <1>5. v = [type |-> v.type, val |-> v.val, keys |-> v.keys, kids |-> v.kids]
    <2>1. v \in [type : Type, val : Chars, keys : Seq(Chars), kids : Seq(Doc[d - 1])]
      BY ONLY <1>1, d \in 1 .. MaxDepth, IsDoc
    <2> QED BY ONLY <2>1
  <1>6. [v EXCEPT !.kids[i] = w] = Value(v.type, v.val, v.keys, u)
    BY ONLY <1>2, <1>3, <1>5 DEF Value
  <1>7. /\ v.type = "NULL" => v = Null
        /\ v.type # "MAX"
        /\ v.type = "ARRAY" => v.kids \in Seq(S) /\ v = Array(v.kids)
        /\ v.type = "OBJECT" => /\ v.keys \in Seq(Escaped) /\ v.kids \in Seq(S)
                                /\ Len(v.keys) = Len(v.kids) /\ v = Object(v.keys, v.kids)
        /\ v.type = "STRING" => v.val \in Escaped /\ v = Str(v.val)
        /\ v.type \in {"BOOL", "DIGITAL", "STRING"} => v.kids = <<>> /\ v.keys = <<>>
        /\ v.kids \in Seq(S)
    BY ONLY d \in 1 .. MaxDepth, S = WellFormedDoc[d - 1], v \in WellFormedDoc[d], ByType
  <1>8. v.type \in Type
    BY ONLY <1>1, d \in 1 .. MaxDepth, IsDoc
  <1>9. v.kids # <<>>
    BY ONLY i \in DOMAIN v.kids
  <1>10. v.type = "ARRAY" \/ v.type = "OBJECT"
    <2>1. v.type = "NULL" => v.kids = <<>>
      BY ONLY <1>7 DEF Null, Value
    <2> QED BY ONLY <1>7, <1>8, <1>9, <2>1 DEF Type
  <1>11. CASE v.type = "ARRAY"
    <2>1. v.val = <<>> /\ v.keys = <<>>
      BY ONLY <1>7, <1>11 DEF Array, Value
    <2>2. Value(v.type, v.val, v.keys, u) = Array(u)
      BY ONLY <1>11, <2>1 DEF Array
    <2>3. Array(u) \in WellFormedDoc[d]
      BY ONLY <1>4, d \in 1 .. MaxDepth, S = WellFormedDoc[d - 1], Forming
    <2> QED BY ONLY <1>6, <2>2, <2>3
  <1>12. CASE v.type = "OBJECT"
    <2>1. v.val = <<>>
      BY ONLY <1>7, <1>12 DEF Object, Value
    <2>2. Value(v.type, v.val, v.keys, u) = Object(v.keys, u)
      BY ONLY <1>12, <2>1 DEF Object
    <2>3. PICK keys \in Seq(Escaped) : keys = v.keys /\ Len(keys) = Len(u)
      BY ONLY <1>2, <1>4, <1>7, <1>12
    <2>4. Object(keys, u) \in WellFormedDoc[d]
      BY ONLY <1>4, <2>3, d \in 1 .. MaxDepth, S = WellFormedDoc[d - 1], Forming
    <2> QED BY ONLY <1>6, <2>2, <2>3, <2>4
  <1>13. [v EXCEPT !.kids[i] = w].kids = u
    BY ONLY <1>6 DEF Value
  <1> QED BY ONLY <1>2, <1>3, <1>10, <1>11, <1>12, <1>13

(* A property is added: what becomes of the value.                         *)
AddedKey(v, k, w, r) ==
  /\ v.type = "NULL" => r = Object(<<k>>, <<w>>)
  /\ v.type = "OBJECT" /\ GetKeyIndex(v, k) # 0 => r = [v EXCEPT !.kids[GetKeyIndex(v, k)] = w]
  /\ v.type = "OBJECT" /\ GetKeyIndex(v, k) = 0 => r = Object(Append(v.keys, k), Append(v.kids, w))
  /\ v.type \notin {"NULL", "OBJECT"} => r = v

(* What addElement does with a key,                                        *)
LEMMA AddElementKeyIs ==
  ASSUME NEW v, NEW k, NEW t, NEW w, Says(t, w), v.type # "MAX"
  PROVE  AddedKey(v, k, w, AddElementKey(v, k, t))
  <1>1. InitText(t, TRUE) = w /\ InitText(t, FALSE) = w
    BY DEF Says
  <1>2. PICK r : r = AddElementKey(v, k, t)
    OBVIOUS
  <1>3. r = CASE v.type = "NULL" -> Object(<<k>>, <<w>>)
              [] IsKeyExist(v, k) -> [v EXCEPT !.kids[GetKeyIndex(v, k)] = w]
              [] v.type \in {"OBJECT", "MAX"} /\ ~IsKeyExist(v, k) ->
                   Object(Append(v.keys, k), Append(v.kids, w))
              [] OTHER -> v
    <2>1. PICK x : x = IsKeyExist(v, k)
      OBVIOUS
    <2>2. InitText(t, ~x) = w
      BY ONLY <1>1 DEF InitText
    <2>3. r = PutKey(v, k, w)
      BY ONLY <1>2, <2>1, <2>2, Zenon DEF AddElementKey
    <2> QED BY ONLY <2>3, Zenon DEF PutKey
  <1>4. v.type # "OBJECT" => ~IsKeyExist(v, k)
    BY DEF IsKeyExist, GetKeyIndex
  <1>5. ASSUME v.type = "NULL" PROVE r = Object(<<k>>, <<w>>)
    <2>1. v.type \notin {"OBJECT", "MAX"}
      BY ONLY <1>5
    <2>2. ~IsKeyExist(v, k)
      BY ONLY <1>4, <2>1
    <2> QED BY ONLY <1>3, <1>5, <2>1, <2>2, Zenon
  <1>6. ASSUME v.type = "OBJECT", GetKeyIndex(v, k) # 0
        PROVE  r = [v EXCEPT !.kids[GetKeyIndex(v, k)] = w]
    <2>1. v.type # "NULL"
      BY ONLY <1>6
    <2>2. IsKeyExist(v, k)
      BY ONLY <1>6 DEF IsKeyExist
    <2> QED BY ONLY <1>3, <2>1, <2>2, Zenon
  <1>7. ASSUME v.type = "OBJECT", GetKeyIndex(v, k) = 0
        PROVE  r = Object(Append(v.keys, k), Append(v.kids, w))
    <2>1. v.type # "NULL" /\ v.type \in {"OBJECT", "MAX"}
      BY ONLY <1>7
    <2>2. ~IsKeyExist(v, k)
      BY ONLY <1>7 DEF IsKeyExist
    <2> QED BY ONLY <1>3, <2>1, <2>2, Zenon
  <1>8. ASSUME v.type \notin {"NULL", "OBJECT"} PROVE r = v
    <2>1. v.type # "NULL" /\ v.type \notin {"OBJECT", "MAX"}
      BY ONLY <1>8, v.type # "MAX"
    <2>2. ~IsKeyExist(v, k)
      BY ONLY <1>4, <1>8
    <2> QED BY ONLY <1>3, <2>1, <2>2, Zenon
  <1>9. AddedKey(v, k, w, r)
    BY ONLY <1>5, <1>6, <1>7, <1>8 DEF AddedKey
  <1> QED BY ONLY <1>2, <1>9

(* and that the result is well formed.                                     *)
LEMMA AddElementKeyKeeps ==
  ASSUME NEW d \in 1 .. MaxDepth, NEW S, S = WellFormedDoc[d - 1], NEW v \in WellFormedDoc[d],
         NEW k \in Escaped, NEW w \in S, NEW r, AddedKey(v, k, w, r)
  PROVE  r \in WellFormedDoc[d]
  <1>1. /\ \A kids \in Seq(S) : Array(kids) \in WellFormedDoc[d]
        /\ \A keys \in Seq(Escaped), kids \in Seq(S) :
             Len(keys) = Len(kids) => Object(keys, kids) \in WellFormedDoc[d]
    BY ONLY d \in 1 .. MaxDepth, S = WellFormedDoc[d - 1], Forming
  <1>2. /\ v.type = "OBJECT" => /\ v.keys \in Seq(Escaped) /\ v.kids \in Seq(S)
                                /\ Len(v.keys) = Len(v.kids) /\ v = Object(v.keys, v.kids)
    BY ONLY d \in 1 .. MaxDepth, S = WellFormedDoc[d - 1], v \in WellFormedDoc[d], ByType
  <1>3. CASE v.type = "NULL"
    <2>1. PICK keys \in Seq(Escaped), kids \in Seq(S) : keys = <<k>> /\ kids = <<w>> /\ Len(keys) = Len(kids)
      <3>1. <<k>> \in Seq(Escaped) /\ Len(<<k>>) = 1
        BY ONLY k \in Escaped
      <3>2. <<w>> \in Seq(S) /\ Len(<<w>>) = 1
        BY ONLY w \in S
      <3> QED BY ONLY <3>1, <3>2
    <2>2. r = Object(keys, kids)
      BY ONLY <1>3, <2>1, AddedKey(v, k, w, r) DEF AddedKey
    <2> QED BY ONLY <1>1, <2>1, <2>2
  <1>4. CASE v.type = "OBJECT" /\ GetKeyIndex(v, k) # 0
    <2>1. PICK n \in Nat : n = Len(v.keys) /\ DOMAIN v.kids = 1 .. n
      BY ONLY <1>2, <1>4
    <2>2. PICK i : i = GetKeyIndex(v, k)
      OBVIOUS
    <2>3. GetKeyIndex(v, k) \in 0 .. n
      BY ONLY <1>4, <2>1, KeyPlace
    <2>4. i \in DOMAIN v.kids
      BY ONLY <1>4, <2>1, <2>2, <2>3
    <2>5. r = [v EXCEPT !.kids[i] = w]
      BY ONLY <1>4, <2>2, AddedKey(v, k, w, r) DEF AddedKey
    <2> QED
      BY ONLY <2>4, <2>5, d \in 1 .. MaxDepth, S = WellFormedDoc[d - 1], v \in WellFormedDoc[d],
              w \in S, ChildReplaced
  <1>5. CASE v.type = "OBJECT" /\ GetKeyIndex(v, k) = 0
    <2>1. PICK keys \in Seq(Escaped), kids \in Seq(S) :
            keys = Append(v.keys, k) /\ kids = Append(v.kids, w) /\ Len(keys) = Len(kids)
      <3>1. PICK ks \in Seq(Escaped), vs \in Seq(S) : ks = v.keys /\ vs = v.kids /\ Len(ks) = Len(vs)
        BY ONLY <1>2, <1>5
      <3>2. Append(ks, k) \in Seq(Escaped) /\ Len(Append(ks, k)) = Len(ks) + 1
        BY ONLY k \in Escaped, ks \in Seq(Escaped)
      <3>3. Append(vs, w) \in Seq(S) /\ Len(Append(vs, w)) = Len(vs) + 1
        BY ONLY w \in S, vs \in Seq(S)
      <3> QED BY ONLY <3>1, <3>2, <3>3
    <2>2. r = Object(keys, kids)
      BY ONLY <1>5, <2>1, AddedKey(v, k, w, r) DEF AddedKey
    <2> QED BY ONLY <1>1, <2>1, <2>2
  <1>6. CASE v.type \notin {"NULL", "OBJECT"}
    BY ONLY <1>6, AddedKey(v, k, w, r), v \in WellFormedDoc[d] DEF AddedKey
  <1> QED BY ONLY <1>3, <1>4, <1>5, <1>6

(* A property is deleted.                                                  *)
DeletedKey(v, k, r) ==
  /\ v.type = "OBJECT" /\ GetKeyIndex(v, k) # 0 /\ Len(v.keys) = 1 => r = Null
  /\ v.type = "OBJECT" /\ GetKeyIndex(v, k) # 0 /\ Len(v.keys) # 1 =>
       r = Object(RemoveAt(v.keys, GetKeyIndex(v, k)), RemoveAt(v.kids, GetKeyIndex(v, k)))
  /\ v.type # "OBJECT" \/ GetKeyIndex(v, k) = 0 => r = v

(* What delProperty does,                                                  *)
LEMMA DelPropertyIs == ASSUME NEW v, NEW k PROVE DeletedKey(v, k, DelProperty(v, k))
  <1>1. InitText(<<"null">>, FALSE) = Null
    BY ONLY NullSays DEF Says
  <1>2. IsKeyExist(v, k) <=> v.type = "OBJECT" /\ GetKeyIndex(v, k) # 0
    BY DEF IsKeyExist, GetKeyIndex
  <1> QED BY ONLY <1>1, <1>2 DEF DelProperty, DeletedKey

(* and that the result is well formed.                                     *)
LEMMA DelPropertyKeeps ==
  ASSUME NEW d \in 1 .. MaxDepth, NEW S, S = WellFormedDoc[d - 1], NEW v \in WellFormedDoc[d],
         NEW k, NEW r, DeletedKey(v, k, r)
  PROVE  r \in WellFormedDoc[d]
  <1>1. /\ Null \in WellFormedDoc[d]
        /\ \A keys \in Seq(Escaped), kids \in Seq(S) :
             Len(keys) = Len(kids) => Object(keys, kids) \in WellFormedDoc[d]
    BY ONLY d \in 1 .. MaxDepth, S = WellFormedDoc[d - 1], Forming
  <1>2. /\ v.type = "OBJECT" => /\ v.keys \in Seq(Escaped) /\ v.kids \in Seq(S)
                                /\ Len(v.keys) = Len(v.kids) /\ v = Object(v.keys, v.kids)
    BY ONLY d \in 1 .. MaxDepth, S = WellFormedDoc[d - 1], v \in WellFormedDoc[d], ByType
  <1>3. CASE v.type = "OBJECT" /\ GetKeyIndex(v, k) # 0 /\ Len(v.keys) = 1
    BY ONLY <1>1, <1>3, DeletedKey(v, k, r) DEF DeletedKey
  <1>4. CASE v.type = "OBJECT" /\ GetKeyIndex(v, k) # 0 /\ Len(v.keys) # 1
    <2>1. PICK n \in Nat : n = Len(v.keys) /\ n = Len(v.kids)
      BY ONLY <1>2, <1>4
    <2>2. PICK i : i = GetKeyIndex(v, k)
      OBVIOUS
    <2>3. GetKeyIndex(v, k) \in 0 .. n
      BY ONLY <1>4, <2>1, KeyPlace
    <2>4. i \in 1 .. n
      BY ONLY <1>4, <2>2, <2>3, n \in Nat
    <2>5. PICK keys \in Seq(Escaped), kids \in Seq(S) : keys = v.keys /\ kids = v.kids
      BY ONLY <1>2, <1>4
    <2>10. n = Len(keys) /\ n = Len(kids)
      BY ONLY <2>1, <2>5
    <2>6. /\ RemoveAt(keys, i) \in Seq(Escaped) /\ Len(RemoveAt(keys, i)) = n - 1
          /\ Moved(RemoveAt(keys, i), keys, n, i)
      BY ONLY keys \in Seq(Escaped), n \in Nat, <2>10, <2>4, LeftOut
    <2>7. /\ RemoveAt(kids, i) \in Seq(S) /\ Len(RemoveAt(kids, i)) = n - 1
          /\ Moved(RemoveAt(kids, i), kids, n, i)
      BY ONLY kids \in Seq(S), n \in Nat, <2>10, <2>4, LeftOut
    <2>8. PICK ks \in Seq(Escaped), vs \in Seq(S) :
            ks = RemoveAt(keys, i) /\ vs = RemoveAt(kids, i) /\ Len(ks) = Len(vs)
      BY ONLY <2>6, <2>7
    <2>9. r = Object(ks, vs)
      BY ONLY <1>4, <2>2, <2>5, <2>8, DeletedKey(v, k, r) DEF DeletedKey
    <2> QED BY ONLY <1>1, <2>8, <2>9
  <1>5. CASE v.type # "OBJECT" \/ GetKeyIndex(v, k) = 0
    BY ONLY <1>5, DeletedKey(v, k, r), v \in WellFormedDoc[d] DEF DeletedKey
  <1> QED BY ONLY <1>3, <1>4, <1>5

(* A value is added to an array.                                           *)
AddedVal(v, w, r) ==
  /\ v.type = "NULL" => r = Array(<<w>>)
  /\ v.type = "ARRAY" => r = Array(Append(v.kids, w))
  /\ v.type \notin {"NULL", "ARRAY"} => r = v

(* What addElement does with a value,                                      *)
LEMMA AddElementValIs ==
  ASSUME NEW v, NEW t, NEW w, Says(t, w)
  PROVE  AddedVal(v, w, AddElementVal(v, t))
  <1>1. InitText(t, FALSE) = w
    BY DEF Says
  <1>2. PICK r : r = AddElementVal(v, t)
    OBVIOUS
  <1>3. r = CASE v.type = "NULL" -> Array(<<w>>)
              [] v.type = "ARRAY" -> Array(Append(v.kids, w))
              [] OTHER -> v
    BY ONLY <1>1, <1>2, Zenon DEF AddElementVal
  <1>4. ASSUME v.type = "NULL" PROVE r = Array(<<w>>)
    <2>1. v.type # "ARRAY"
      BY ONLY <1>4
    <2> QED BY ONLY <1>3, <1>4, <2>1, Zenon
  <1>5. ASSUME v.type = "ARRAY" PROVE r = Array(Append(v.kids, w))
    <2>1. v.type # "NULL"
      BY ONLY <1>5
    <2> QED BY ONLY <1>3, <1>5, <2>1, Zenon
  <1>6. ASSUME v.type \notin {"NULL", "ARRAY"} PROVE r = v
    <2>1. v.type # "NULL" /\ v.type # "ARRAY"
      BY ONLY <1>6
    <2> QED BY ONLY <1>3, <2>1, Zenon
  <1>7. AddedVal(v, w, r)
    BY ONLY <1>4, <1>5, <1>6 DEF AddedVal
  <1> QED BY ONLY <1>2, <1>7

(* and that the result is well formed.                                     *)
LEMMA AddElementValKeeps ==
  ASSUME NEW d \in 1 .. MaxDepth, NEW S, S = WellFormedDoc[d - 1], NEW v \in WellFormedDoc[d],
         NEW w \in S, NEW r, AddedVal(v, w, r)
  PROVE  r \in WellFormedDoc[d]
  <1>1. \A kids \in Seq(S) : Array(kids) \in WellFormedDoc[d]
    BY ONLY d \in 1 .. MaxDepth, S = WellFormedDoc[d - 1], Forming
  <1>2. v.type = "ARRAY" => v.kids \in Seq(S)
    BY ONLY d \in 1 .. MaxDepth, S = WellFormedDoc[d - 1], v \in WellFormedDoc[d], ByType
  <1>3. CASE v.type = "NULL"
    <2>1. PICK kids \in Seq(S) : kids = <<w>>
      <3>1. <<w>> \in Seq(S)
        BY ONLY w \in S
      <3> QED BY ONLY <3>1, Zenon
    <2> QED BY ONLY <1>1, <1>3, <2>1, AddedVal(v, w, r) DEF AddedVal
  <1>4. CASE v.type = "ARRAY"
    <2>1. PICK vs \in Seq(S) : vs = v.kids
      BY ONLY <1>2, <1>4
    <2>2. PICK kids \in Seq(S) : kids = Append(vs, w)
      <3>1. Append(vs, w) \in Seq(S)
        BY ONLY w \in S, vs \in Seq(S)
      <3> QED BY ONLY <3>1, Zenon
    <2> QED BY ONLY <1>1, <1>4, <2>1, <2>2, AddedVal(v, w, r) DEF AddedVal
  <1>5. CASE v.type \notin {"NULL", "ARRAY"}
    BY ONLY <1>5, AddedVal(v, w, r), v \in WellFormedDoc[d] DEF AddedVal
  <1> QED BY ONLY <1>3, <1>4, <1>5

(* A value is deleted from an array.                                       *)
DeletedVal(v, i, r) ==
  /\ v.type = "ARRAY" /\ i \in DOMAIN v.kids /\ Len(v.kids) = 1 => r = Null
  /\ v.type = "ARRAY" /\ i \in DOMAIN v.kids /\ Len(v.kids) # 1 => r = Array(RemoveAt(v.kids, i))
  /\ v.type # "ARRAY" \/ i \notin DOMAIN v.kids => r = v

(* What delVal does,                                                       *)
LEMMA DelValIs == ASSUME NEW v, NEW i PROVE DeletedVal(v, i, DelVal(v, i))
  <1>1. InitText(<<"null">>, FALSE) = Null
    BY ONLY NullSays DEF Says
  <1> QED BY ONLY <1>1 DEF DelVal, DeletedVal

(* and that the result is well formed.                                     *)
LEMMA DelValKeeps ==
  ASSUME NEW d \in 1 .. MaxDepth, NEW S, S = WellFormedDoc[d - 1], NEW v \in WellFormedDoc[d],
         NEW i, NEW r, DeletedVal(v, i, r)
  PROVE  r \in WellFormedDoc[d]
  <1>1. /\ Null \in WellFormedDoc[d]
        /\ \A kids \in Seq(S) : Array(kids) \in WellFormedDoc[d]
    BY ONLY d \in 1 .. MaxDepth, S = WellFormedDoc[d - 1], Forming
  <1>2. v.kids \in Seq(S)
    BY ONLY d \in 1 .. MaxDepth, S = WellFormedDoc[d - 1], v \in WellFormedDoc[d], ByType
  <1>3. CASE v.type = "ARRAY" /\ i \in DOMAIN v.kids /\ Len(v.kids) = 1
    BY ONLY <1>1, <1>3, DeletedVal(v, i, r) DEF DeletedVal
  <1>4. CASE v.type = "ARRAY" /\ i \in DOMAIN v.kids /\ Len(v.kids) # 1
    <2>1. PICK vs \in Seq(S) : vs = v.kids
      BY ONLY <1>2
    <2>2. PICK n \in Nat : n = Len(vs) /\ i \in 1 .. n
      BY ONLY <1>4, <2>1
    <2>3. RemoveAt(vs, i) \in Seq(S)
      BY ONLY <2>2, LeftOut
    <2> QED BY ONLY <1>1, <1>4, <2>1, <2>3, DeletedVal(v, i, r) DEF DeletedVal
  <1>5. CASE v.type # "ARRAY" \/ i \notin DOMAIN v.kids
    BY ONLY <1>5, DeletedVal(v, i, r), v \in WellFormedDoc[d] DEF DeletedVal
  <1> QED BY ONLY <1>3, <1>4, <1>5

(* What is no object has no key.                                           *)
LEMMA KeyNone == ASSUME NEW v, NEW k, v.type # "OBJECT" PROVE GetKeyIndex(v, k) = 0
  BY DEF GetKeyIndex

(* A property is assigned to.                                              *)
Assigned(v, k, w, r) ==
  /\ v.type = "OBJECT" /\ GetKeyIndex(v, k) # 0 => r = [v EXCEPT !.kids[GetKeyIndex(v, k)] = w]
  /\ v.type = "OBJECT" /\ GetKeyIndex(v, k) = 0 => r = w
  /\ v.type # "OBJECT" => r = v

(* What an assignment to operator[] does,                                  *)
LEMMA AssignIs == ASSUME NEW v, NEW k, NEW w PROVE Assigned(v, k, w, Assign(v, k, w))
  <1>1. PICK r : r = Assign(v, k, w)
    OBVIOUS
  <1>2. r = CASE v.type # "OBJECT" -> v
              [] GetKeyIndex(v, k) # 0 -> [v EXCEPT !.kids[GetKeyIndex(v, k)] = w]
              [] OTHER -> w
    BY ONLY <1>1, Zenon DEF Assign, IsKeyExist
  <1>3. v.type = "OBJECT" /\ GetKeyIndex(v, k) # 0 => r = [v EXCEPT !.kids[GetKeyIndex(v, k)] = w]
    BY ONLY <1>2, Zenon
  <1>4. v.type = "OBJECT" /\ GetKeyIndex(v, k) = 0 => r = w
    BY ONLY <1>2, Zenon
  <1>5. v.type # "OBJECT" => r = v
    BY ONLY <1>2, KeyNone, Zenon
  <1> QED BY ONLY <1>1, <1>3, <1>4, <1>5 DEF Assigned

(* and that the result is well formed.                                     *)
LEMMA AssignKeeps ==
  ASSUME NEW d \in 1 .. MaxDepth, NEW S, S = WellFormedDoc[d - 1], NEW v \in WellFormedDoc[d],
         NEW k, NEW w \in S, w \in WellFormedDoc[d], NEW r, Assigned(v, k, w, r)
  PROVE  r \in WellFormedDoc[d]
  <1>1. v.type = "OBJECT" => v.kids \in Seq(S) /\ v.keys \in Seq(Escaped) /\ Len(v.keys) = Len(v.kids)
    BY ONLY d \in 1 .. MaxDepth, S = WellFormedDoc[d - 1], v \in WellFormedDoc[d], ByType
  <1>2. CASE v.type = "OBJECT" /\ GetKeyIndex(v, k) # 0
    <2>1. PICK n \in Nat : n = Len(v.keys) /\ DOMAIN v.kids = 1 .. n
      BY ONLY <1>1, <1>2
    <2>2. PICK i : i = GetKeyIndex(v, k)
      OBVIOUS
    <2>3. GetKeyIndex(v, k) \in 0 .. n
      BY ONLY <1>2, <2>1, KeyPlace
    <2>4. i \in DOMAIN v.kids
      BY ONLY <1>2, <2>1, <2>2, <2>3
    <2>5. r = [v EXCEPT !.kids[i] = w]
      BY ONLY <1>2, <2>2, Assigned(v, k, w, r) DEF Assigned
    <2> QED
      BY ONLY <2>4, <2>5, d \in 1 .. MaxDepth, S = WellFormedDoc[d - 1], v \in WellFormedDoc[d],
              w \in S, ChildReplaced
  <1>3. CASE v.type = "OBJECT" /\ GetKeyIndex(v, k) = 0
    BY ONLY <1>3, w \in WellFormedDoc[d], Assigned(v, k, w, r) DEF Assigned
  <1>4. CASE v.type # "OBJECT"
    BY ONLY <1>4, v \in WellFormedDoc[d], Assigned(v, k, w, r) DEF Assigned
  <1> QED BY ONLY <1>2, <1>3, <1>4

(* The two levels that are changed.                                        *)
LEMMA ChangedLevel ==
  ASSUME NEW d \in 2 .. 3
  PROVE  /\ d \in 1 .. MaxDepth /\ d \in 0 .. MaxDepth
         /\ WellFormedDoc[1] \subseteq WellFormedDoc[d - 1]
         /\ WellFormedDoc[1] \subseteq WellFormedDoc[d]
  <1>1. d \in 1 .. MaxDepth /\ d \in 0 .. MaxDepth
    BY DepthAssumption, LevelAssumption
  <1>2. PICK one \in 0 .. MaxDepth : one = 1 /\ one <= d
    BY Level1
  <1>3. PICK e \in 0 .. MaxDepth : e = d - 1 /\ one <= e
    BY <1>1, <1>2, DepthAssumption
  <1>4. WellFormedDoc[one] \subseteq WellFormedDoc[d]
    BY ONLY <1>1, <1>2, LevelIn
  <1>5. WellFormedDoc[one] \subseteq WellFormedDoc[e]
    BY ONLY <1>3, LevelIn
  <1> QED BY ONLY <1>1, <1>2, <1>3, <1>4, <1>5

(* Each operation keeps the document and its children well formed: a key   *)
(* is added,                                                               *)
LEMMA AddKeyKeeps ==
  ASSUME NEW d \in 2 .. 3, NEW v \in WellFormedDoc[d], NEW k \in Key,
         NEW t, NEW w \in WellFormedDoc[1], Says(t, w)
  PROVE  AddElementKey(v, k, t) \in WellFormedDoc[d]
  <1>1. d \in 1 .. MaxDepth /\ WellFormedDoc[1] \subseteq WellFormedDoc[d - 1]
    BY ONLY ChangedLevel, d \in 2 .. 3
  <1>2. PICK S : S = WellFormedDoc[d - 1]
    OBVIOUS
  <1>3. w \in S /\ k \in Escaped
    BY ONLY <1>1, <1>2, KeyIsEscaped, k \in Key, w \in WellFormedDoc[1]
  <1>4. v.type # "MAX"
    BY ONLY <1>1, <1>2, v \in WellFormedDoc[d], ByType
  <1>5. PICK r : r = AddElementKey(v, k, t)
    OBVIOUS
  <1>6. AddedKey(v, k, w, AddElementKey(v, k, t))
    BY ONLY <1>4, Says(t, w), AddElementKeyIs
  <1>7. AddedKey(v, k, w, r)
    BY ONLY <1>5, <1>6
  <1>8. r \in WellFormedDoc[d]
    BY ONLY <1>1, <1>2, <1>3, <1>7, v \in WellFormedDoc[d], AddElementKeyKeeps
  <1> QED BY ONLY <1>5, <1>8

(* a value is added,                                                       *)
LEMMA AddValKeeps ==
  ASSUME NEW d \in 2 .. 3, NEW v \in WellFormedDoc[d],
         NEW t, NEW w \in WellFormedDoc[1], Says(t, w)
  PROVE  AddElementVal(v, t) \in WellFormedDoc[d]
  <1>1. d \in 1 .. MaxDepth /\ WellFormedDoc[1] \subseteq WellFormedDoc[d - 1]
    BY ONLY ChangedLevel, d \in 2 .. 3
  <1>2. PICK S : S = WellFormedDoc[d - 1]
    OBVIOUS
  <1>3. w \in S
    BY ONLY <1>1, <1>2, w \in WellFormedDoc[1]
  <1>5. PICK r : r = AddElementVal(v, t)
    OBVIOUS
  <1>6. AddedVal(v, w, AddElementVal(v, t))
    BY ONLY Says(t, w), AddElementValIs
  <1>7. AddedVal(v, w, r)
    BY ONLY <1>5, <1>6
  <1>8. r \in WellFormedDoc[d]
    BY ONLY <1>1, <1>2, <1>3, <1>7, v \in WellFormedDoc[d], AddElementValKeeps
  <1> QED BY ONLY <1>5, <1>8

(* a key is deleted,                                                       *)
LEMMA DelKeyKeeps ==
  ASSUME NEW d \in 2 .. 3, NEW v \in WellFormedDoc[d], NEW k
  PROVE  DelProperty(v, k) \in WellFormedDoc[d]
  <1>1. d \in 1 .. MaxDepth
    BY ONLY ChangedLevel, d \in 2 .. 3
  <1>2. PICK S : S = WellFormedDoc[d - 1]
    OBVIOUS
  <1>3. PICK r : r = DelProperty(v, k)
    OBVIOUS
  <1>4. DeletedKey(v, k, DelProperty(v, k))
    BY ONLY DelPropertyIs
  <1>5. DeletedKey(v, k, r)
    BY ONLY <1>3, <1>4
  <1>6. r \in WellFormedDoc[d]
    BY ONLY <1>1, <1>2, <1>5, v \in WellFormedDoc[d], DelPropertyKeeps
  <1> QED BY ONLY <1>3, <1>6

(* a value is deleted,                                                     *)
LEMMA DelPlaceKeeps ==
  ASSUME NEW d \in 2 .. 3, NEW v \in WellFormedDoc[d], NEW i
  PROVE  DelVal(v, i) \in WellFormedDoc[d]
  <1>1. d \in 1 .. MaxDepth
    BY ONLY ChangedLevel, d \in 2 .. 3
  <1>2. PICK S : S = WellFormedDoc[d - 1]
    OBVIOUS
  <1>3. PICK r : r = DelVal(v, i)
    OBVIOUS
  <1>4. DeletedVal(v, i, DelVal(v, i))
    BY ONLY DelValIs
  <1>5. DeletedVal(v, i, r)
    BY ONLY <1>3, <1>4
  <1>6. r \in WellFormedDoc[d]
    BY ONLY <1>1, <1>2, <1>5, v \in WellFormedDoc[d], DelValKeeps
  <1> QED BY ONLY <1>3, <1>6

(* a text is assigned.                                                     *)
LEMMA AssignsKeeps ==
  ASSUME NEW d \in 2 .. 3, NEW v \in WellFormedDoc[d], NEW k, NEW w \in WellFormedDoc[1]
  PROVE  Assign(v, k, w) \in WellFormedDoc[d]
  <1>1. d \in 1 .. MaxDepth /\ w \in WellFormedDoc[d - 1] /\ w \in WellFormedDoc[d]
    BY ONLY ChangedLevel, d \in 2 .. 3, w \in WellFormedDoc[1]
  <1>2. PICK S : S = WellFormedDoc[d - 1]
    OBVIOUS
  <1>3. PICK r : r = Assign(v, k, w)
    OBVIOUS
  <1>4. Assigned(v, k, w, Assign(v, k, w))
    BY ONLY AssignIs
  <1>5. Assigned(v, k, w, r) /\ w \in S
    BY ONLY <1>1, <1>2, <1>3, <1>4
  <1>6. r \in WellFormedDoc[d]
    BY ONLY <1>1, <1>2, <1>5, v \in WellFormedDoc[d], AssignKeeps
  <1> QED BY ONLY <1>3, <1>6

(* An operation that keeps both levels keeps a document when it is applied *)
(* to it (and gives a) or to a child of it (and gives w).                  *)
Changed(v, a, r, W) ==
  r = a \/ \E i \in DOMAIN v.kids : v.kids[i] \in WellFormedDoc[2] => \E w \in W : r = [v EXCEPT !.kids[i] = w]

(* A value of which one child is replaced stays well formed.               *)
LEMMA AppliedKeeps ==
  ASSUME NEW v \in WellFormedDoc[3], NEW a \in WellFormedDoc[3], NEW r,
         Changed(v, a, r, WellFormedDoc[2])
  PROVE  r \in WellFormedDoc[3]
  <1>1. PICK d \in 2 .. 3 : d = 3 /\ d - 1 = 2
    OBVIOUS
  <1>2. d \in 1 .. MaxDepth
    BY ONLY ChangedLevel, d \in 2 .. 3
  <1>3. PICK S : S = WellFormedDoc[d - 1]
    OBVIOUS
  <1>4. v \in WellFormedDoc[d] /\ S = WellFormedDoc[2]
    BY ONLY <1>1, <1>3, v \in WellFormedDoc[3]
  <1>5. ASSUME NEW i \in DOMAIN v.kids,
               v.kids[i] \in WellFormedDoc[2] => \E w \in WellFormedDoc[2] : r = [v EXCEPT !.kids[i] = w]
        PROVE  r \in WellFormedDoc[d]
    <2>1. v.kids \in Seq(S)
      BY ONLY <1>2, <1>3, <1>4, ByType
    <2>2. v.kids[i] \in S
      BY ONLY <2>1, i \in DOMAIN v.kids
    <2>3. PICK w \in S : r = [v EXCEPT !.kids[i] = w]
      BY ONLY <1>4, <1>5, <2>2
    <2>4. [v EXCEPT !.kids[i] = w] \in WellFormedDoc[d]
      BY ONLY <1>2, <1>3, <1>4, i \in DOMAIN v.kids, w \in S, ChildReplaced
    <2> QED BY ONLY <2>3, <2>4
  <1> QED
    BY ONLY <1>1, <1>5, Changed(v, a, r, WellFormedDoc[2]), a \in WellFormedDoc[3], Zenon DEF Changed

-----------------------------------------------------------------------------
(* What a document means to its readers.                                   *)

(* No key of an object is there twice.                                     *)
Distinct(v) == \A i, j \in DOMAIN v.keys : v.keys[i] = v.keys[j] => i = j

(* The keys of a value, by its type.                                       *)
LEMMA KeysByType ==
  ASSUME NEW d \in 1 .. MaxDepth, NEW S, S = WellFormedDoc[d - 1], NEW v \in WellFormedDoc[d]
  PROVE  /\ v.type # "OBJECT" => v.keys = <<>>
         /\ v.type = "OBJECT" => v.keys \in Seq(Escaped) /\ v.kids \in Seq(S) /\ Len(v.keys) = Len(v.kids)
         /\ v.type \in {"NULL", "ARRAY", "OBJECT", "STRING", "BOOL", "DIGITAL"}
  <1>1. /\ v.type = "NULL" => v = Null
        /\ v.type # "MAX"
        /\ v.type = "ARRAY" => v.kids \in Seq(S) /\ v = Array(v.kids)
        /\ v.type = "OBJECT" => /\ v.keys \in Seq(Escaped) /\ v.kids \in Seq(S)
                                /\ Len(v.keys) = Len(v.kids) /\ v = Object(v.keys, v.kids)
        /\ v.type = "STRING" => v.val \in Escaped /\ v = Str(v.val)
        /\ v.type \in {"BOOL", "DIGITAL", "STRING"} => v.kids = <<>> /\ v.keys = <<>>
    BY ONLY d \in 1 .. MaxDepth, S = WellFormedDoc[d - 1], v \in WellFormedDoc[d], ByType
  <1>2. v.type \in Type
    <2>1. v \in Doc[d]
      BY ONLY d \in 1 .. MaxDepth, S = WellFormedDoc[d - 1], v \in WellFormedDoc[d], Kinds
    <2> QED BY ONLY <2>1, d \in 1 .. MaxDepth, IsDoc
  <1>3. v.type = "NULL" => v.keys = <<>>
    BY ONLY <1>1 DEF Null, Value
  <1>4. v.type = "ARRAY" => v.keys = <<>>
    BY ONLY <1>1 DEF Array, Value
  <1>5. v.type \in {"NULL", "ARRAY", "OBJECT", "STRING", "BOOL", "DIGITAL"}
    BY ONLY <1>1, <1>2 DEF Type
  <1> QED BY ONLY <1>1, <1>3, <1>4, <1>5

(* A value without keys has none twice.                                    *)
LEMMA NoKeys == ASSUME NEW v, v.keys = <<>> PROVE Distinct(v)
  BY DEF Distinct

(* Values of the lowest level are empty.                                   *)
LEMMA LowestIsEmpty ==
  ASSUME NEW v \in WellFormedDoc[1]
  PROVE  v.keys = <<>> /\ (v.type \in {"OBJECT", "ARRAY"} => v.kids = <<>>)
  <1>1. PICK d \in 1 .. MaxDepth : d = 1 /\ d - 1 = 0
    BY Level1
  <1>2. PICK S : S = WellFormedDoc[d - 1] /\ S = {}
    BY <1>1, WellFormedDocIs
  <1>3. v \in WellFormedDoc[d]
    BY ONLY <1>1, v \in WellFormedDoc[1]
  <1>4. /\ v.type # "OBJECT" => v.keys = <<>>
        /\ v.type = "OBJECT" => v.keys \in Seq(Escaped) /\ v.kids \in Seq(S) /\ Len(v.keys) = Len(v.kids)
    BY ONLY <1>2, <1>3, d \in 1 .. MaxDepth, KeysByType
  <1>5. v.kids \in Seq(S)
    BY ONLY <1>2, <1>3, d \in 1 .. MaxDepth, ByType
  <1>6. Len(v.kids) = 0 /\ v.kids = <<>>
    <2>1. PICK kids \in Seq(S) : kids = v.kids
      BY ONLY <1>5
    <2>2. Len(kids) \in Nat /\ \A i \in 1 .. Len(kids) : kids[i] \in S
      BY ONLY kids \in Seq(S)
    <2>3. Len(kids) = 0
      BY ONLY <1>2, <2>2
    <2> QED BY ONLY <2>1, <2>3, kids \in Seq(S)
  <1>7. v.type = "OBJECT" => v.keys = <<>>
    BY ONLY <1>4, <1>6
  <1> QED BY ONLY <1>4, <1>6, <1>7

(* Each operation keeps the keys distinct: a property is added,            *)
LEMMA AddedKeyDistinct ==
  ASSUME NEW d \in 1 .. MaxDepth, NEW S, S = WellFormedDoc[d - 1], NEW v \in WellFormedDoc[d],
         NEW k, NEW w, NEW r, AddedKey(v, k, w, r), Distinct(v)
  PROVE  Distinct(r)
  <1>1. v.type = "OBJECT" => v.keys \in Seq(Escaped) /\ v.kids \in Seq(S) /\ Len(v.keys) = Len(v.kids)
    BY ONLY d \in 1 .. MaxDepth, S = WellFormedDoc[d - 1], v \in WellFormedDoc[d], KeysByType
  <1>2. CASE v.type = "NULL"
    <2>1. r.keys = <<k>>
      BY ONLY <1>2, AddedKey(v, k, w, r) DEF AddedKey, Object, Value
    <2> QED BY ONLY <2>1 DEF Distinct
  <1>3. CASE v.type = "OBJECT" /\ GetKeyIndex(v, k) # 0
    <2>1. r = [v EXCEPT !.kids[GetKeyIndex(v, k)] = w]
      BY ONLY <1>3, AddedKey(v, k, w, r) DEF AddedKey
    <2>2. v.keys = r.keys
      <3>1. v \in Doc[d]
        BY ONLY d \in 1 .. MaxDepth, S = WellFormedDoc[d - 1], v \in WellFormedDoc[d], Kinds
      <3>2. v \in [type : Type, val : Chars, keys : Seq(Chars), kids : Seq(Doc[d - 1])]
        BY ONLY <3>1, d \in 1 .. MaxDepth, IsDoc
      <3> QED BY ONLY <2>1, <3>2
    <2> QED BY ONLY <2>2, Distinct(v) DEF Distinct
  <1>4. CASE v.type = "OBJECT" /\ GetKeyIndex(v, k) = 0
    <2>1. PICK ks \in Seq(Escaped), n \in Nat : ks = v.keys /\ n = Len(ks) /\ n = Len(v.keys)
      BY ONLY <1>1, <1>4
    <2>2. r.keys = Append(ks, k)
      BY ONLY <1>4, <2>1, AddedKey(v, k, w, r) DEF AddedKey, Object, Value
    <2>3. \A i \in 1 .. n : ks[i] # k
      BY ONLY <1>4, <2>1, KeyPlace
    <2>4. DOMAIN r.keys = 1 .. n + 1 /\ r.keys[n + 1] = k /\ \A i \in 1 .. n : r.keys[i] = ks[i]
      BY ONLY <2>1, <2>2, ks \in Seq(Escaped)
    <2>5. \A i, j \in 1 .. n : ks[i] = ks[j] => i = j
      BY ONLY <2>1, Distinct(v), ks \in Seq(Escaped) DEF Distinct
    <2>6. \A i \in 1 .. n + 1 : i = n + 1 \/ i \in 1 .. n
      BY ONLY n \in Nat
    <2> QED BY ONLY <2>3, <2>4, <2>5, <2>6 DEF Distinct
  <1>5. CASE v.type \notin {"NULL", "OBJECT"}
    BY ONLY <1>5, AddedKey(v, k, w, r), Distinct(v) DEF AddedKey
  <1> QED BY ONLY <1>2, <1>3, <1>4, <1>5

(* deleted,                                                                *)
LEMMA DeletedKeyDistinct ==
  ASSUME NEW d \in 1 .. MaxDepth, NEW S, S = WellFormedDoc[d - 1], NEW v \in WellFormedDoc[d],
         NEW k, NEW r, DeletedKey(v, k, r), Distinct(v)
  PROVE  Distinct(r)
  <1>1. v.type = "OBJECT" => v.keys \in Seq(Escaped) /\ v.kids \in Seq(S) /\ Len(v.keys) = Len(v.kids)
    BY ONLY d \in 1 .. MaxDepth, S = WellFormedDoc[d - 1], v \in WellFormedDoc[d], KeysByType
  <1>2. CASE v.type = "OBJECT" /\ GetKeyIndex(v, k) # 0 /\ Len(v.keys) = 1
    <2>1. r.keys = <<>>
      BY ONLY <1>2, DeletedKey(v, k, r) DEF DeletedKey, Null, Value
    <2> QED BY ONLY <2>1, NoKeys
  <1>3. CASE v.type = "OBJECT" /\ GetKeyIndex(v, k) # 0 /\ Len(v.keys) # 1
    <2>1. PICK ks \in Seq(Escaped), n \in Nat : ks = v.keys /\ n = Len(ks) /\ n = Len(v.keys)
      BY ONLY <1>1, <1>3
    <2>2. PICK p : p = GetKeyIndex(v, k)
      OBVIOUS
    <2>3. GetKeyIndex(v, k) \in 0 .. n
      BY ONLY <1>3, <2>1, KeyPlace
    <2>4. p \in 1 .. n
      BY ONLY <1>3, <2>2, <2>3, n \in Nat
    <2>5. r.keys = RemoveAt(ks, p)
      BY ONLY <1>3, <2>1, <2>2, DeletedKey(v, k, r) DEF DeletedKey, Object, Value
    <2>9. n = Len(ks)
      BY ONLY <2>1
    <2>6. /\ RemoveAt(ks, p) \in Seq(Escaped) /\ Len(RemoveAt(ks, p)) = n - 1
          /\ Moved(RemoveAt(ks, p), ks, n, p)
      BY ONLY ks \in Seq(Escaped), n \in Nat, <2>9, <2>4, LeftOut
    <2>7. DOMAIN r.keys = 1 .. n - 1
          /\ \A j \in 1 .. n - 1 : r.keys[j] = IF j < p THEN ks[j] ELSE ks[j + 1]
      BY ONLY <2>5, <2>6 DEF Moved
    <2>8. \A i, j \in 1 .. n : ks[i] = ks[j] => i = j
      BY ONLY <2>1, Distinct(v), ks \in Seq(Escaped) DEF Distinct
    <2>10. \A j \in 1 .. n - 1 : \E i \in 1 .. n : i = (IF j < p THEN j ELSE j + 1) /\ r.keys[j] = ks[i]
      BY ONLY <2>7, n \in Nat
    <2>11. ASSUME NEW i \in 1 .. n - 1, NEW j \in 1 .. n - 1, r.keys[i] = r.keys[j] PROVE i = j
      <3>1. PICK a \in 1 .. n : a = (IF i < p THEN i ELSE i + 1) /\ r.keys[i] = ks[a]
        BY ONLY <2>10, i \in 1 .. n - 1
      <3>2. PICK b \in 1 .. n : b = (IF j < p THEN j ELSE j + 1) /\ r.keys[j] = ks[b]
        BY ONLY <2>10, j \in 1 .. n - 1
      <3>3. a = b
        BY ONLY <2>8, <2>11, <3>1, <3>2
      <3> QED BY ONLY <2>4, <3>1, <3>2, <3>3, n \in Nat
    <2> QED BY ONLY <2>7, <2>11 DEF Distinct
  <1>4. CASE v.type # "OBJECT" \/ GetKeyIndex(v, k) = 0
    BY ONLY <1>4, DeletedKey(v, k, r), Distinct(v) DEF DeletedKey
  <1> QED BY ONLY <1>2, <1>3, <1>4

(* a value is added or deleted,                                            *)
LEMMA ValDistinct ==
  ASSUME NEW v, NEW w, NEW i, NEW r, AddedVal(v, w, r) \/ DeletedVal(v, i, r), Distinct(v)
  PROVE  Distinct(r)
  <1>1. r = v \/ r = Null \/ r = Array(<<w>>) \/ r = Array(Append(v.kids, w)) \/ r = Array(RemoveAt(v.kids, i))
    BY ONLY AddedVal(v, w, r) \/ DeletedVal(v, i, r) DEF AddedVal, DeletedVal
  <1>2. r = v \/ r.keys = <<>>
    BY ONLY <1>1 DEF Null, Array, Value
  <1> QED BY ONLY <1>2, NoKeys, Distinct(v)

(* or a property is assigned.                                              *)
LEMMA AssignedDistinct ==
  ASSUME NEW d \in 1 .. MaxDepth, NEW S, S = WellFormedDoc[d - 1], NEW v \in WellFormedDoc[d],
         NEW k, NEW w \in WellFormedDoc[1], NEW r, Assigned(v, k, w, r), Distinct(v)
  PROVE  Distinct(r)
  <1>1. \/ v.type = "OBJECT" /\ GetKeyIndex(v, k) # 0 /\ r = [v EXCEPT !.kids[GetKeyIndex(v, k)] = w]
        \/ r = w \/ r = v
    BY ONLY Assigned(v, k, w, r) DEF Assigned
  <1>2. CASE r = [v EXCEPT !.kids[GetKeyIndex(v, k)] = w]
    <2>1. v \in Doc[d]
      BY ONLY d \in 1 .. MaxDepth, S = WellFormedDoc[d - 1], v \in WellFormedDoc[d], Kinds
    <2>2. v \in [type : Type, val : Chars, keys : Seq(Chars), kids : Seq(Doc[d - 1])]
      BY ONLY <2>1, d \in 1 .. MaxDepth, IsDoc
    <2>3. v.keys = r.keys
      BY ONLY <1>2, <2>2
    <2> QED BY ONLY <2>3, Distinct(v) DEF Distinct
  <1>3. CASE r = w
    BY ONLY <1>3, w \in WellFormedDoc[1], LowestIsEmpty, NoKeys
  <1> QED BY ONLY <1>1, <1>2, <1>3, Distinct(v)

(* What the meaning of a value is made of, given the meanings x of its     *)
(* children.                                                               *)
MeantMap(v, x)  == [k \in {v.keys[i] : i \in DOMAIN v.keys} |-> x[v.kids[GetKeyIndex(v, k)]]]
MeantList(v, x) == [i \in DOMAIN v.kids |-> x[v.kids[i]]]
Meant(v, x) ==
  CASE v.type = "OBJECT" -> Content!Map(MeantMap(v, x))
    [] v.type = "ARRAY" -> Content!List(MeantList(v, x))
    [] v.type = "NULL" -> Content!Nothing
    [] OTHER -> Content!Leaf(v.type, ToStr(v))

(* The meanings of the values of each level.                               *)
LEMMA MeaningIs ==
  /\ MeaningAt[0] = <<>>
  /\ \A d \in 1 .. MaxDepth : MeaningAt[d] = [v \in Doc[d] |-> Meant(v, MeaningAt[d - 1])]
  <1> DEFINE Step(d, x) == [v \in Doc[d] |-> Meant(v, x)]
             Is(m, f) == f = [d \in 0 .. m |-> IF d = 0 THEN <<>> ELSE Step(d, f[d - 1])]
             P == {m \in Nat : m <= MaxDepth => \E f : Is(m, f)}
  <1>1. MeaningAt = CHOOSE f : Is(MaxDepth, f)
    BY DEF MeaningAt, Meant, MeantMap, MeantList
  <1> HIDE DEF Step
  <1>2. 0 \in P
    <2>1. Is(0, [d \in 0 .. 0 |-> <<>>])
      OBVIOUS
    <2> QED BY <2>1
  <1>3. ASSUME NEW m \in Nat, m < MaxDepth, m \in P PROVE m + 1 \in P
    <2>1. PICK f : Is(m, f)
      BY <1>3, DepthAssumption
    <2> DEFINE h == [d \in 0 .. m + 1 |-> IF d = m + 1 THEN Step(m + 1, f[m]) ELSE f[d]]
    <2>2. h[m + 1] = Step(m + 1, f[m]) /\ \A d \in 0 .. m : h[d] = f[d]
      OBVIOUS
    <2>3. ASSUME NEW d \in 0 .. m + 1
          PROVE  h[d] = IF d = 0 THEN <<>> ELSE Step(d, h[d - 1])
      <3> HIDE DEF h
      <3>1. CASE d = m + 1
        <4>1. d # 0 /\ d - 1 = m /\ h[m] = f[m]
          BY <2>2, <3>1
        <4> QED BY <2>2, <3>1, <4>1
      <3>2. CASE d \in 0 .. m
        <4>1. f[d] = IF d = 0 THEN <<>> ELSE Step(d, f[d - 1])
          BY <2>1, <3>2
        <4>2. h[d] = f[d] /\ (d # 0 => h[d - 1] = f[d - 1])
          BY <2>2, <3>2
        <4> QED BY <4>1, <4>2
      <3> QED BY <3>1, <3>2
    <2>4. h = [d \in 0 .. m + 1 |-> h[d]]
      OBVIOUS
    <2> HIDE DEF h
    <2>5. Is(m + 1, h)
      BY <2>3, <2>4
    <2> QED BY <2>5
  <1>4. \E f : Is(MaxDepth, f)
    <2> HIDE DEF P
    <2>1. 0 .. MaxDepth \subseteq P
      BY ONLY DepthAssumption, <1>2, <1>3, UpTo
    <2>2. MaxDepth \in P
      BY <2>1, DepthAssumption
    <2> QED BY <2>2, DepthAssumption DEF P
  <1>5. Is(MaxDepth, MeaningAt)
    BY <1>1, <1>4
  <1>6. MeaningAt[0] = <<>> /\ \A d \in 1 .. MaxDepth : MeaningAt[d] = Step(d, MeaningAt[d - 1])
    BY <1>5, DepthAssumption
  <1> QED BY <1>6 DEF Step

(* What values of each type mean.                                          *)
LEMMA MeaningKinds ==
  ASSUME NEW d \in 1 .. MaxDepth, NEW v \in Doc[d], NEW x, x = MeaningAt[d - 1]
  PROVE  /\ v.type = "OBJECT" => MeaningAt[d][v] = Content!Map(MeantMap(v, x))
         /\ v.type = "ARRAY" => MeaningAt[d][v] = Content!List(MeantList(v, x))
         /\ v.type = "NULL" => MeaningAt[d][v] = Content!Nothing
         /\ v.type \in {"STRING", "BOOL", "DIGITAL"} =>
              MeaningAt[d][v] = Content!Leaf(v.type, ToStr(v))
  <1>1. MeaningAt[d] = [u \in Doc[d] |-> Meant(u, MeaningAt[d - 1])]
    BY ONLY MeaningIs, d \in 1 .. MaxDepth, Zenon
  <1>2. MeaningAt[d][v] = Meant(v, x)
    BY ONLY <1>1, v \in Doc[d], x = MeaningAt[d - 1]
  <1>3. PICK m : m = MeaningAt[d][v]
    OBVIOUS
  <1>4. m = CASE v.type = "OBJECT" -> Content!Map(MeantMap(v, x))
              [] v.type = "ARRAY" -> Content!List(MeantList(v, x))
              [] v.type = "NULL" -> Content!Nothing
              [] OTHER -> Content!Leaf(v.type, ToStr(v))
    BY ONLY <1>2, <1>3, Zenon DEF Meant
  <1>5. ASSUME v.type = "OBJECT" PROVE m = Content!Map(MeantMap(v, x))
    <2>1. v.type # "ARRAY" /\ v.type # "NULL"
      BY ONLY <1>5
    <2> QED BY ONLY <1>4, <1>5, <2>1, Zenon
  <1>6. ASSUME v.type = "ARRAY" PROVE m = Content!List(MeantList(v, x))
    <2>1. v.type # "OBJECT" /\ v.type # "NULL"
      BY ONLY <1>6
    <2> QED BY ONLY <1>4, <1>6, <2>1, Zenon
  <1>7. ASSUME v.type = "NULL" PROVE m = Content!Nothing
    <2>1. v.type # "OBJECT" /\ v.type # "ARRAY"
      BY ONLY <1>7
    <2> QED BY ONLY <1>4, <1>7, <2>1, Zenon
  <1>8. ASSUME v.type \in {"STRING", "BOOL", "DIGITAL"} PROVE m = Content!Leaf(v.type, ToStr(v))
    <2>1. v.type # "OBJECT" /\ v.type # "ARRAY" /\ v.type # "NULL"
      BY ONLY <1>8
    <2> QED BY ONLY <1>4, <2>1, Zenon
  <1> QED BY ONLY <1>3, <1>5, <1>6, <1>7, <1>8

(* Values without children mean the same on every level.                   *)
Flat(w) ==
  CASE w.type = "OBJECT" -> Content!Map(<<>>)
    [] w.type = "ARRAY" -> Content!List(<<>>)
    [] w.type = "NULL" -> Content!Nothing
    [] OTHER -> Content!Leaf(w.type, ToStr(w))

(* So a value without children is what is called flat above.               *)
LEMMA FlatMeans ==
  ASSUME NEW d \in 1 .. MaxDepth, NEW w \in WellFormedDoc[1]
  PROVE  MeaningAt[d][w] = Flat(w)
  <1>1. PICK one \in 0 .. MaxDepth, e \in 0 .. MaxDepth : one = 1 /\ e = d /\ one <= e
    BY Level1, DepthAssumption
  <1>2. w \in Doc[d] /\ w \in WellFormedDoc[d]
    <2>1. Doc[one] \subseteq Doc[e] /\ WellFormedDoc[one] \subseteq WellFormedDoc[e]
      BY ONLY <1>1, LevelIn
    <2>2. WellFormedDoc[one] \subseteq Doc[one]
      BY ONLY <1>1, WellFormedInDoc
    <2> QED BY ONLY <1>1, <2>1, <2>2, w \in WellFormedDoc[1]
  <1>3. PICK x, S : x = MeaningAt[d - 1] /\ S = WellFormedDoc[d - 1]
    OBVIOUS
  <1>4. /\ w.type = "OBJECT" => MeaningAt[d][w] = Content!Map(MeantMap(w, x))
        /\ w.type = "ARRAY" => MeaningAt[d][w] = Content!List(MeantList(w, x))
        /\ w.type = "NULL" => MeaningAt[d][w] = Content!Nothing
        /\ w.type \in {"STRING", "BOOL", "DIGITAL"} =>
             MeaningAt[d][w] = Content!Leaf(w.type, ToStr(w))
    BY ONLY <1>2, <1>3, d \in 1 .. MaxDepth, MeaningKinds
  <1>5. w.type \in {"NULL", "ARRAY", "OBJECT", "STRING", "BOOL", "DIGITAL"}
    BY ONLY <1>2, <1>3, d \in 1 .. MaxDepth, KeysByType
  <1>6. w.keys = <<>> /\ (w.type \in {"OBJECT", "ARRAY"} => w.kids = <<>>)
    BY ONLY w \in WellFormedDoc[1], LowestIsEmpty
  <1>7. MeantMap(w, x) = <<>>
    BY ONLY <1>6 DEF MeantMap
  <1>8. w.kids = <<>> => MeantList(w, x) = <<>>
    BY ONLY DEF MeantList
  <1>9. CASE w.type = "OBJECT"
    <2>1. MeaningAt[d][w] = Content!Map(<<>>)
      BY ONLY <1>4, <1>7, <1>9
    <2>2. w.type # "ARRAY" /\ w.type # "NULL"
      BY ONLY <1>9
    <2> QED BY ONLY <1>9, <2>1, <2>2, Zenon DEF Flat
  <1>10. CASE w.type = "ARRAY"
    <2>1. MeaningAt[d][w] = Content!List(<<>>)
      BY ONLY <1>4, <1>6, <1>8, <1>10
    <2>2. w.type # "OBJECT" /\ w.type # "NULL"
      BY ONLY <1>10
    <2> QED BY ONLY <1>10, <2>1, <2>2, Zenon DEF Flat
  <1>11. CASE w.type = "NULL"
    <2>1. w.type # "OBJECT" /\ w.type # "ARRAY"
      BY ONLY <1>11
    <2> QED BY ONLY <1>4, <1>11, <2>1, Zenon DEF Flat
  <1>12. CASE w.type \in {"STRING", "BOOL", "DIGITAL"}
    <2>1. w.type # "OBJECT" /\ w.type # "ARRAY" /\ w.type # "NULL"
      BY ONLY <1>12
    <2>2. MeaningAt[d][w] = Content!Leaf(w.type, ToStr(w))
      BY ONLY <1>4, <1>12
    <2> QED BY ONLY <2>1, <2>2, Zenon DEF Flat
  <1> QED BY ONLY <1>5, <1>9, <1>10, <1>11, <1>12

(* f gives for each of n keys what x gives for the value beside it.        *)
IsMap(f, n, keys, kids, x) ==
  /\ f = [k \in DOMAIN f |-> f[k]]
  /\ \A k : k \in DOMAIN f <=> \E i \in 1 .. n : keys[i] = k
  /\ \A i \in 1 .. n : f[keys[i]] = x[kids[i]]

(* The n keys are different ones, and none of them is k.                   *)
Apart(keys, n)   == \A i, j \in 1 .. n : keys[i] = keys[j] => i = j
Lacks(keys, n, k) == \A i \in 1 .. n : keys[i] # k

(* The first n places are the same; all but p are.                         *)
SameTo(t, s, n)        == \A i \in 1 .. n : t[i] = s[i]
SameBut(t, s, n, p)    == \A i \in 1 .. n : i # p => t[i] = s[i]

(* A function with another value for k, or without one.                    *)
WithKey(f, k, y)  == [j \in DOMAIN f \union {k} |-> IF j = k THEN y ELSE f[j]]
WithoutKey(f, k)  == [j \in DOMAIN f \ {k} |-> f[j]]

(* There is one such function:                                             *)
LEMMA SameMap ==
  ASSUME NEW f, NEW g, NEW n, NEW keys, NEW kids, NEW x,
         IsMap(f, n, keys, kids, x), IsMap(g, n, keys, kids, x)
  PROVE  f = g
  <1>1. DOMAIN f = DOMAIN g
    <2>1. \A k : k \in DOMAIN f <=> k \in DOMAIN g
      BY ONLY IsMap(f, n, keys, kids, x), IsMap(g, n, keys, kids, x), Zenon DEF IsMap
    <2> QED BY ONLY <2>1
  <1>2. \A k \in DOMAIN f : f[k] = g[k]
    <2>1. ASSUME NEW k \in DOMAIN f PROVE f[k] = g[k]
      <3>1. PICK i \in 1 .. n : keys[i] = k
        BY ONLY IsMap(f, n, keys, kids, x), Zenon DEF IsMap
      <3>2. f[keys[i]] = x[kids[i]] /\ g[keys[i]] = x[kids[i]]
        BY ONLY IsMap(f, n, keys, kids, x), IsMap(g, n, keys, kids, x), i \in 1 .. n, Zenon DEF IsMap
      <3> QED BY ONLY <3>1, <3>2
    <2> QED BY ONLY <2>1
  <1>3. f = [k \in DOMAIN f |-> f[k]] /\ g = [k \in DOMAIN g |-> g[k]]
    BY ONLY IsMap(f, n, keys, kids, x), IsMap(g, n, keys, kids, x), Zenon DEF IsMap
  <1> QED BY ONLY <1>1, <1>2, <1>3

(* the one of an object's keys and children.                               *)
LEMMA MeantIsMap ==
  ASSUME NEW v, NEW n \in Nat, Len(v.keys) = n, DOMAIN v.keys = 1 .. n, v.type = "OBJECT",
         Distinct(v), NEW x
  PROVE  IsMap(MeantMap(v, x), n, v.keys, v.kids, x)
  <1>1. PICK f : f = MeantMap(v, x)
    OBVIOUS
  <1>2. DOMAIN f = {v.keys[i] : i \in 1 .. n} /\ f = [k \in DOMAIN f |-> f[k]]
    BY ONLY <1>1, DOMAIN v.keys = 1 .. n DEF MeantMap
  <1>3. ASSUME NEW i \in 1 .. n PROVE f[v.keys[i]] = x[v.kids[i]]
    <2>1. PICK k : k = v.keys[i]
      OBVIOUS
    <2>2. /\ GetKeyIndex(v, k) \in 0 .. n
          /\ GetKeyIndex(v, k) # 0 => v.keys[GetKeyIndex(v, k)] = k
          /\ GetKeyIndex(v, k) = 0 => \A j \in 1 .. n : v.keys[j] # k
      BY ONLY n \in Nat, Len(v.keys) = n, v.type = "OBJECT", KeyPlace
    <2>3. PICK p : p = GetKeyIndex(v, k)
      OBVIOUS
    <2>4. p \in 1 .. n /\ v.keys[p] = k
      BY ONLY <2>1, <2>2, <2>3, i \in 1 .. n, n \in Nat
    <2>5. p = i
      BY ONLY <2>1, <2>4, i \in 1 .. n, DOMAIN v.keys = 1 .. n, Distinct(v) DEF Distinct
    <2>6. k \in DOMAIN f
      BY ONLY <1>2, <2>1, i \in 1 .. n
    <2>7. f[k] = x[v.kids[GetKeyIndex(v, k)]]
      BY ONLY <1>1, <2>6 DEF MeantMap
    <2> QED BY ONLY <2>1, <2>3, <2>5, <2>7
  <1> QED BY ONLY <1>1, <1>2, <1>3 DEF IsMap

(* A key more,                                                             *)
LEMMA MapWithNew ==
  ASSUME NEW f, NEW n \in Nat, NEW keys, NEW kids, NEW x, IsMap(f, n, keys, kids, x),
         NEW k, Lacks(keys, n, k), NEW keys2, NEW kids2, NEW y,
         SameTo(keys2, keys, n), SameTo(kids2, kids, n), keys2[n + 1] = k, x[kids2[n + 1]] = y,
         NEW g, g = WithKey(f, k, y)
  PROVE  IsMap(g, n + 1, keys2, kids2, x)
  <1>1. DOMAIN g = DOMAIN f \union {k} /\ g = [j \in DOMAIN g |-> g[j]]
        /\ g[k] = y /\ \A j \in DOMAIN f : j # k => g[j] = f[j]
    BY ONLY g = WithKey(f, k, y) DEF WithKey
  <1>2. \A j : j \in DOMAIN f <=> \E i \in 1 .. n : keys[i] = j
    BY DEF IsMap
  <1>3. \A i \in 1 .. n + 1 : i \in 1 .. n \/ i = n + 1
    OBVIOUS
  <1>4. \A i \in 1 .. n : i \in 1 .. n + 1
    OBVIOUS
  <1>5. n + 1 \in 1 .. n + 1
    OBVIOUS
  <1>8. \A i \in 1 .. n : keys2[i] = keys[i] /\ kids2[i] = kids[i]
    BY DEF SameTo
  <1>9. \A i \in 1 .. n : keys[i] # k
    BY DEF Lacks
  <1>6. \A j : j \in DOMAIN g <=> \E i \in 1 .. n + 1 : keys2[i] = j
    <2>1. ASSUME NEW j, j \in DOMAIN g PROVE \E i \in 1 .. n + 1 : keys2[i] = j
      BY ONLY <1>1, <1>2, <1>4, <1>5, <2>1, keys2[n + 1] = k, <1>8
    <2>2. ASSUME NEW i \in 1 .. n + 1 PROVE keys2[i] \in DOMAIN g
      BY ONLY <1>1, <1>2, <1>3, i \in 1 .. n + 1, keys2[n + 1] = k, <1>8
    <2> QED BY ONLY <2>1, <2>2
  <1>7. ASSUME NEW i \in 1 .. n + 1 PROVE g[keys2[i]] = x[kids2[i]]
    <2>1. CASE i \in 1 .. n
      <3>1. keys2[i] = keys[i] /\ kids2[i] = kids[i] /\ keys[i] # k /\ keys[i] \in DOMAIN f
        BY <1>2, <1>8, <1>9, <2>1
      <3>2. f[keys[i]] = x[kids[i]]
        BY <2>1 DEF IsMap
      <3> QED BY ONLY <1>1, <3>1, <3>2
    <2>2. CASE i = n + 1
      BY ONLY <1>1, <2>2, keys2[n + 1] = k, x[kids2[n + 1]] = y
    <2> QED BY ONLY <1>3, <2>1, <2>2, i \in 1 .. n + 1
  <1> QED BY ONLY <1>1, <1>6, <1>7 DEF IsMap

(* another value for a key,                                                *)
LEMMA MapReplaced ==
  ASSUME NEW f, NEW n \in Nat, NEW keys, NEW kids, NEW x, IsMap(f, n, keys, kids, x),
         Apart(keys, n),
         NEW p \in 1 .. n, NEW k, keys[p] = k,
         NEW kids2, NEW y, x[kids2[p]] = y, SameBut(kids2, kids, n, p),
         NEW g, g = WithKey(f, k, y)
  PROVE  IsMap(g, n, keys, kids2, x)
  <1>1. DOMAIN g = DOMAIN f \union {k} /\ g = [j \in DOMAIN g |-> g[j]]
        /\ g[k] = y /\ \A j \in DOMAIN f : j # k => g[j] = f[j]
    BY ONLY g = WithKey(f, k, y) DEF WithKey
  <1>2. \A j : j \in DOMAIN f <=> \E i \in 1 .. n : keys[i] = j
    BY DEF IsMap
  <1>3. \A j : j \in DOMAIN g <=> \E i \in 1 .. n : keys[i] = j
    BY ONLY <1>1, <1>2, p \in 1 .. n, keys[p] = k
  <1>4. ASSUME NEW i \in 1 .. n PROVE g[keys[i]] = x[kids2[i]]
    <2>1. CASE i = p
      BY ONLY <1>1, <2>1, keys[p] = k, x[kids2[p]] = y
    <2>2. CASE i # p
      <3>1. keys[i] # k /\ kids2[i] = kids[i] /\ keys[i] \in DOMAIN f
        BY <1>2, <2>2 DEF Apart, SameBut
      <3>2. f[keys[i]] = x[kids[i]]
        BY DEF IsMap
      <3> QED BY ONLY <1>1, <3>1, <3>2
    <2> QED BY ONLY <2>1, <2>2
  <1> QED BY ONLY <1>1, <1>3, <1>4 DEF IsMap

(* and a key less.                                                         *)
LEMMA MapWithout ==
  ASSUME NEW f, NEW n \in Nat, NEW keys, NEW kids, NEW x, IsMap(f, n, keys, kids, x),
         Apart(keys, n),
         NEW p \in 1 .. n, NEW k, keys[p] = k,
         NEW keys2, NEW kids2, Moved(keys2, keys, n, p), Moved(kids2, kids, n, p),
         NEW g, g = WithoutKey(f, k)
  PROVE  IsMap(g, n - 1, keys2, kids2, x)
  <1>1. DOMAIN g = DOMAIN f \ {k} /\ g = [j \in DOMAIN g |-> g[j]]
        /\ \A j \in DOMAIN f : j # k => g[j] = f[j]
    BY ONLY g = WithoutKey(f, k) DEF WithoutKey
  <1>2. \A j : j \in DOMAIN f <=> \E i \in 1 .. n : keys[i] = j
    BY DEF IsMap
  <1>3. \A j \in 1 .. n - 1 : \E i \in 1 .. n : i # p /\ keys2[j] = keys[i] /\ kids2[j] = kids[i]
    <2>1. ASSUME NEW j \in 1 .. n - 1
          PROVE  \E i \in 1 .. n : i # p /\ keys2[j] = keys[i] /\ kids2[j] = kids[i]
      <3>1. PICK i \in 1 .. n : i = (IF j < p THEN j ELSE j + 1) /\ i # p
        OBVIOUS
      <3>2. keys2[j] = keys[i] /\ kids2[j] = kids[i]
        BY <3>1 DEF Moved
      <3> QED BY <3>1, <3>2
    <2> QED BY <2>1
  <1>4. \A i \in 1 .. n : i # p => \E j \in 1 .. n - 1 : keys2[j] = keys[i]
    <2>1. ASSUME NEW i \in 1 .. n, i # p
          PROVE  \E j \in 1 .. n - 1 : keys2[j] = keys[i]
      <3>1. PICK j \in 1 .. n - 1 : j = (IF i < p THEN i ELSE i - 1) /\ i = (IF j < p THEN j ELSE j + 1)
        BY <2>1
      <3>2. keys2[j] = keys[i]
        BY <3>1 DEF Moved
      <3> QED BY <3>2
    <2> QED BY <2>1
  <1>5. \A i \in 1 .. n : i # p => keys[i] # k
    BY DEF Apart
  <1>6. \A j : j \in DOMAIN g <=> \E i \in 1 .. n - 1 : keys2[i] = j
    <2>1. ASSUME NEW j, j \in DOMAIN g PROVE \E i \in 1 .. n - 1 : keys2[i] = j
      <3>1. j # k /\ \E i \in 1 .. n : keys[i] = j
        BY ONLY <1>1, <1>2, <2>1
      <3>2. PICK i \in 1 .. n : keys[i] = j /\ i # p
        BY ONLY <3>1, keys[p] = k
      <3> QED BY ONLY <1>4, <3>2
    <2>2. ASSUME NEW i \in 1 .. n - 1 PROVE keys2[i] \in DOMAIN g
      <3>1. PICK h \in 1 .. n : h # p /\ keys2[i] = keys[h]
        BY ONLY <1>3, i \in 1 .. n - 1
      <3>2. keys[h] # k /\ keys[h] \in DOMAIN f
        BY ONLY <1>2, <1>5, <3>1
      <3> QED BY ONLY <1>1, <3>1, <3>2
    <2> QED BY ONLY <2>1, <2>2
  <1>7. ASSUME NEW i \in 1 .. n - 1 PROVE g[keys2[i]] = x[kids2[i]]
    <2>1. PICK h \in 1 .. n : h # p /\ keys2[i] = keys[h] /\ kids2[i] = kids[h]
      BY ONLY <1>3, i \in 1 .. n - 1
    <2>2. keys[h] # k /\ keys[h] \in DOMAIN f
      BY ONLY <1>2, <1>5, <2>1
    <2>3. f[keys[h]] = x[kids[h]]
      BY DEF IsMap
    <2> QED BY ONLY <1>1, <2>1, <2>2, <2>3
  <1> QED BY ONLY <1>1, <1>6, <1>7 DEF IsMap

(* The only key is the key of a function with one.                         *)
OnlyHas(f, k, n) == DOMAIN f = {k} <=> n = 1

(* A key is the only one just when there is one place.                     *)
LEMMA OnlyKey ==
  ASSUME NEW f, NEW n \in Nat, NEW keys, NEW kids, NEW x, IsMap(f, n, keys, kids, x),
         Apart(keys, n),
         NEW p \in 1 .. n, NEW k, keys[p] = k
  PROVE  OnlyHas(f, k, n)
  <1>1. \A j : j \in DOMAIN f <=> \E i \in 1 .. n : keys[i] = j
    BY DEF IsMap
  <1>2. ASSUME n = 1 PROVE DOMAIN f = {k}
    <2>1. \A i \in 1 .. n : i = p
      BY <1>2
    <2>2. \A j : j \in DOMAIN f <=> j = k
      BY ONLY <1>1, <2>1, p \in 1 .. n, keys[p] = k
    <2> QED BY ONLY <2>2
  <1>3. ASSUME n # 1 PROVE DOMAIN f # {k}
    <2>1. PICK q \in 1 .. n : q # p
      BY <1>3
    <2>2. keys[q] # k /\ keys[q] \in DOMAIN f
      BY <1>1, <2>1 DEF Apart
    <2> QED BY ONLY <2>2
  <1> QED BY <1>2, <1>3 DEF OnlyHas

(* A list with a value more or less.                                       *)
ListOf(n, kids, x) == [i \in 1 .. n |-> x[kids[i]]]

Lengthened(n, kids, w, x, y, list, list2, kids2) ==
  /\ n = Len(kids) /\ list = ListOf(n, kids, x) /\ y = x[w]
  /\ kids2 = Append(kids, w) /\ list2 = Append(list, y)

(* The list of a value that was added is longer by its meaning.            *)
LEMMA ListWithNew ==
  ASSUME NEW S, NEW kids \in Seq(S), NEW w \in S, NEW n \in Nat, NEW x, NEW y,
         NEW list, NEW list2, NEW kids2, Lengthened(n, kids, w, x, y, list, list2, kids2)
  PROVE  list2 = ListOf(n + 1, kids2, x)
  <1>0. /\ n = Len(kids) /\ list = ListOf(n, kids, x) /\ y = x[w]
        /\ kids2 = Append(kids, w) /\ list2 = Append(list, y)
    BY DEF Lengthened
  <1> DEFINE T == {x[s] : s \in S}
  <1>1. \A i \in 1 .. n : kids[i] \in S /\ list[i] = x[kids[i]]
    BY <1>0 DEF ListOf
  <1>2. x[w] \in T /\ list \in [1 .. n -> T]
    BY <1>0, <1>1 DEF ListOf
  <1>3. kids2 \in Seq(S) /\ Len(kids2) = n + 1 /\ kids2[n + 1] = w /\ \A i \in 1 .. n : kids2[i] = kids[i]
    BY <1>0
  <1> HIDE DEF T
  <1>4. list \in Seq(T) /\ Len(list) = n
    BY ONLY <1>2, n \in Nat
  <1>5. y \in T
    BY ONLY <1>0, <1>2
  <1>6. PICK a : a = list2 /\ a = Append(list, y)
    BY ONLY <1>0
  <1>7. a \in Seq(T) /\ Len(a) = n + 1 /\ a[n + 1] = y /\ \A i \in 1 .. n : a[i] = list[i]
    BY ONLY <1>4, <1>5, <1>6, n \in Nat
  <1>8. a = [i \in 1 .. n + 1 |-> a[i]]
    BY ONLY <1>7, n \in Nat
  <1>9. \A i \in 1 .. n + 1 : a[i] = x[kids2[i]]
    BY ONLY <1>1, <1>3, <1>7, <1>0, n \in Nat
  <1> QED BY ONLY <1>6, <1>8, <1>9 DEF ListOf

(* The list of what is left is what is left of the list.                   *)
LEMMA ListWithout ==
  ASSUME NEW S, NEW kids \in Seq(S), NEW x, NEW n \in Nat, n = Len(kids), NEW p \in 1 .. n,
         NEW list, list = ListOf(n, kids, x),
         NEW kids2, kids2 = RemoveAt(kids, p)
  PROVE  RemoveAt(list, p) = ListOf(n - 1, kids2, x)
  <1> DEFINE T == {x[s] : s \in S}
  <1>1. \A i \in 1 .. n : kids[i] \in S /\ list[i] = x[kids[i]]
    BY DEF ListOf
  <1>2. list \in [1 .. n -> T]
    BY <1>1 DEF ListOf
  <1> HIDE DEF T
  <1>3. list \in Seq(T) /\ n = Len(list)
    BY ONLY <1>2, n \in Nat
  <1>4. /\ RemoveAt(list, p) \in Seq(T) /\ Len(RemoveAt(list, p)) = n - 1
        /\ Moved(RemoveAt(list, p), list, n, p)
    BY ONLY <1>3, n \in Nat, p \in 1 .. n, LeftOut
  <1>5. /\ RemoveAt(kids, p) \in Seq(S) /\ Len(RemoveAt(kids, p)) = n - 1
        /\ Moved(RemoveAt(kids, p), kids, n, p)
    BY ONLY kids \in Seq(S), n \in Nat, n = Len(kids), p \in 1 .. n, LeftOut
  <1>6. PICK a : a = RemoveAt(list, p)
    OBVIOUS
  <1>7. a \in Seq(T) /\ Len(a) = n - 1 /\ \A j \in 1 .. n - 1 : a[j] = IF j < p THEN list[j] ELSE list[j + 1]
    BY ONLY <1>4, <1>6 DEF Moved
  <1>8. a = [i \in 1 .. n - 1 |-> a[i]]
    BY ONLY <1>7, n \in Nat
  <1>9. \A j \in 1 .. n - 1 : kids2[j] = IF j < p THEN kids[j] ELSE kids[j + 1]
    BY ONLY <1>5, kids2 = RemoveAt(kids, p) DEF Moved
  <1>10. \A j \in 1 .. n - 1 : j \in 1 .. n /\ j + 1 \in 1 .. n
    OBVIOUS
  <1>11. \A i \in 1 .. n - 1 : a[i] = x[kids2[i]]
    BY ONLY <1>1, <1>7, <1>9, <1>10
  <1> QED BY ONLY <1>6, <1>8, <1>11 DEF ListOf

(* What the abstract operations do to each kind of thing.                  *)
Puts(k, y) ==
  /\ \A f : Content!Put(Content!Map(f), k, y) = Content!Map(WithKey(f, k, y))
  /\ Content!Put(Content!Nothing, k, y) = Content!Map(WithKey(<<>>, k, y))
  /\ \A c : c.kind \notin {"NULL", "OBJECT"} => Content!Put(c, k, y) = c

(* So a property is put into a map, into nothing and into other things.    *)
LEMMA PutIs == ASSUME NEW k, NEW y PROVE Puts(k, y)
  <1>1. /\ \A f : Content!Map(f).kind = "OBJECT" /\ Content!Map(f).map = f
        /\ Content!Nothing.kind = "NULL" /\ Content!Nothing.map = <<>>
    BY DEF Content!Map, Content!Nothing, Content!Thing
  <1> QED BY ONLY <1>1 DEF Content!Put, WithKey, Puts

(* A property is dropped from a map, which becomes nothing without it.     *)
LEMMA DropIs ==
  ASSUME NEW k
  PROVE  /\ \A f : k \notin DOMAIN f => Content!Drop(Content!Map(f), k) = Content!Map(f)
         /\ \A f : k \in DOMAIN f /\ DOMAIN f = {k} => Content!Drop(Content!Map(f), k) = Content!Nothing
         /\ \A f : k \in DOMAIN f /\ DOMAIN f # {k} =>
              Content!Drop(Content!Map(f), k) = Content!Map(WithoutKey(f, k))
         /\ \A c : c.map = <<>> => Content!Drop(c, k) = c \/ k \in DOMAIN <<>>
  <1>1. \A f : Content!Map(f).map = f
    BY DEF Content!Map, Content!Thing
  <1> QED
    <2>1. ASSUME NEW f, k \notin DOMAIN f
          PROVE  Content!Drop(Content!Map(f), k) = Content!Map(f)
      BY ONLY <1>1, <2>1, Zenon DEF Content!Drop
    <2>2. ASSUME NEW f, k \in DOMAIN f, DOMAIN f = {k}
          PROVE  Content!Drop(Content!Map(f), k) = Content!Nothing
      <3>1. PICK c : c = Content!Map(f) /\ c.map = f
        BY ONLY <1>1
      <3>2. k \in DOMAIN c.map /\ DOMAIN c.map = {k}
        BY ONLY <2>2, <3>1
      <3>3. Content!Drop(c, k) = Content!Nothing
        BY ONLY <3>2, Zenon DEF Content!Drop
      <3> QED BY ONLY <3>1, <3>3
    <2>3. ASSUME NEW f, k \in DOMAIN f, DOMAIN f # {k}
          PROVE  Content!Drop(Content!Map(f), k) = Content!Map(WithoutKey(f, k))
      <3>1. PICK c : c = Content!Map(f) /\ c.map = f
        BY ONLY <1>1
      <3>2. Content!Drop(c, k) = Content!Map([j \in DOMAIN c.map \ {k} |-> c.map[j]])
        BY ONLY <2>3, <3>1, Zenon DEF Content!Drop
      <3> QED BY ONLY <3>1, <3>2, Zenon DEF WithoutKey
    <2>4. ASSUME NEW c, c.map = <<>>
          PROVE  Content!Drop(c, k) = c \/ k \in DOMAIN <<>>
      BY ONLY <2>4, Zenon DEF Content!Drop
    <2> QED BY ONLY <2>1, <2>2, <2>3, <2>4

Pushes(y) ==
  /\ \A list : Content!Push(Content!List(list), y) = Content!List(Append(list, y))
  /\ Content!Push(Content!Nothing, y) = Content!List(Append(<<>>, y))
  /\ \A c : c.kind \notin {"NULL", "ARRAY"} => Content!Push(c, y) = c

(* So a value is pushed to a list, to nothing and to other things.         *)
LEMMA PushIs == ASSUME NEW y PROVE Pushes(y)
  <1>1. /\ \A list : Content!List(list).kind = "ARRAY" /\ Content!List(list).items = list
        /\ Content!Nothing.kind = "NULL" /\ Content!Nothing.items = <<>>
    BY DEF Content!List, Content!Nothing, Content!Thing
  <1> QED BY ONLY <1>1 DEF Content!Push, Pushes

Cuts(p) ==
  /\ \A list : p \notin DOMAIN list => Content!Cut(Content!List(list), p) = Content!List(list)
  /\ \A list : p \in DOMAIN list /\ Len(list) = 1 =>
       Content!Cut(Content!List(list), p) = Content!Nothing
  /\ \A list : p \in DOMAIN list /\ Len(list) # 1 =>
       Content!Cut(Content!List(list), p) = Content!List(RemoveAt(list, p))
  /\ \A c : c.items = <<>> /\ p \notin DOMAIN <<>> => Content!Cut(c, p) = c

(* So a value is cut out of a list.                                        *)
LEMMA CutIs == ASSUME NEW p PROVE Cuts(p)
  <1>1. \A list : Content!List(list).items = list
    BY DEF Content!List, Content!Thing
  <1>2. \A list : Content!RemoveAt(list, p) = RemoveAt(list, p)
    BY DEF Content!RemoveAt, RemoveAt
  <1> QED BY ONLY <1>1, <1>2 DEF Content!Cut, Cuts

Stores(k, y) ==
  /\ \A f : k \in DOMAIN f =>
       Content!Store(Content!Map(f), k, y) = Content!Map([f EXCEPT ![k] = y])
  /\ \A f : k \notin DOMAIN f => Content!Store(Content!Map(f), k, y) = y
  /\ \A c : c.kind # "OBJECT" => Content!Store(c, k, y) = c

(* So a property is stored in a map, which is replaced when it lacks the   *)
(* key.                                                                    *)
LEMMA StoreIs == ASSUME NEW k, NEW y PROVE Stores(k, y)
  <1>1. \A f : Content!Map(f).kind = "OBJECT" /\ Content!Map(f).map = f
    BY DEF Content!Map, Content!Thing
  <1> QED BY ONLY <1>1 DEF Content!Store, Stores

(* Where nothing is said of a value's children, it has none.               *)
LEMMA MeaningShape ==
  ASSUME NEW d \in 1 .. MaxDepth, NEW v \in WellFormedDoc[d], NEW x, x = MeaningAt[d - 1],
         NEW m, m = MeaningAt[d][v]
  PROVE  /\ v \in Doc[d]
         /\ v.type \in {"NULL", "ARRAY", "OBJECT", "STRING", "BOOL", "DIGITAL"}
         /\ m.kind = v.type
         /\ v.type = "OBJECT" => m = Content!Map(MeantMap(v, x))
         /\ v.type = "ARRAY" => m = Content!List(MeantList(v, x))
         /\ v.type = "NULL" => m = Content!Nothing
         /\ v.type # "OBJECT" => m.map = <<>>
         /\ v.type # "ARRAY" => m.items = <<>>
  <1>1. PICK S : S = WellFormedDoc[d - 1]
    OBVIOUS
  <1>2. v \in Doc[d]
    BY ONLY <1>1, d \in 1 .. MaxDepth, v \in WellFormedDoc[d], Kinds
  <1>3. v.type \in {"NULL", "ARRAY", "OBJECT", "STRING", "BOOL", "DIGITAL"}
    BY ONLY <1>1, d \in 1 .. MaxDepth, v \in WellFormedDoc[d], KeysByType
  <1>4. /\ v.type = "OBJECT" => MeaningAt[d][v] = Content!Map(MeantMap(v, x))
        /\ v.type = "ARRAY" => MeaningAt[d][v] = Content!List(MeantList(v, x))
        /\ v.type = "NULL" => MeaningAt[d][v] = Content!Nothing
        /\ v.type \in {"STRING", "BOOL", "DIGITAL"} =>
             MeaningAt[d][v] = Content!Leaf(v.type, ToStr(v))
    BY ONLY <1>2, d \in 1 .. MaxDepth, x = MeaningAt[d - 1], MeaningKinds
  <1>5. /\ \A f : /\ Content!Map(f).kind = "OBJECT" /\ Content!Map(f).items = <<>>
        /\ \A list : /\ Content!List(list).kind = "ARRAY" /\ Content!List(list).map = <<>>
        /\ Content!Nothing.kind = "NULL" /\ Content!Nothing.map = <<>> /\ Content!Nothing.items = <<>>
        /\ \A kind, text : /\ Content!Leaf(kind, text).kind = kind
                           /\ Content!Leaf(kind, text).map = <<>> /\ Content!Leaf(kind, text).items = <<>>
    BY DEF Content!Map, Content!List, Content!Nothing, Content!Leaf, Content!Thing
  <1> QED BY ONLY <1>2, <1>3, <1>4, <1>5, m = MeaningAt[d][v]

(* The keys of an object, by their places.                                 *)
Shape(v, n, keys, kids, f, x) ==
  /\ keys = v.keys /\ kids = v.kids /\ n = Len(keys) /\ n = Len(kids)
  /\ Len(v.keys) = n /\ DOMAIN v.keys = 1 .. n
  /\ Apart(keys, n) /\ IsMap(f, n, keys, kids, x)

(* An object has such keys.                                                *)
LEMMA KeysAre ==
  ASSUME NEW d \in 1 .. MaxDepth, NEW S, S = WellFormedDoc[d - 1], NEW v \in WellFormedDoc[d],
         v.type = "OBJECT", Distinct(v), NEW x, NEW f, f = MeantMap(v, x)
  PROVE  \E n \in Nat, keys \in Seq(Escaped), kids \in Seq(S) : Shape(v, n, keys, kids, f, x)
  <1>1. v.keys \in Seq(Escaped) /\ v.kids \in Seq(S) /\ Len(v.keys) = Len(v.kids)
    BY ONLY d \in 1 .. MaxDepth, S = WellFormedDoc[d - 1], v \in WellFormedDoc[d], v.type = "OBJECT", KeysByType
  <1>2. PICK keys \in Seq(Escaped), kids \in Seq(S) : keys = v.keys /\ kids = v.kids
    BY ONLY <1>1
  <1>3. PICK n \in Nat : n = Len(keys)
    BY ONLY keys \in Seq(Escaped)
  <1>4. n = Len(kids) /\ Len(v.keys) = n
    BY ONLY <1>1, <1>2, <1>3
  <1>5. DOMAIN keys = 1 .. n
    BY ONLY <1>3, keys \in Seq(Escaped)
  <1>6. DOMAIN v.keys = 1 .. n
    BY ONLY <1>2, <1>5
  <1>7. IsMap(MeantMap(v, x), n, v.keys, v.kids, x)
    BY ONLY <1>4, <1>6, n \in Nat, v.type = "OBJECT", Distinct(v), MeantIsMap
  <1>8. IsMap(f, n, keys, kids, x)
    BY ONLY <1>2, <1>7, f = MeantMap(v, x)
  <1>9. Apart(keys, n)
    BY ONLY <1>2, <1>6, Distinct(v) DEF Distinct, Apart
  <1>10. Shape(v, n, keys, kids, f, x)
    BY ONLY <1>2, <1>3, <1>4, <1>6, <1>8, <1>9 DEF Shape
  <1> QED BY ONLY <1>10, n \in Nat, keys \in Seq(Escaped), kids \in Seq(S), Zenon

(* Adding a property adds it to the meaning or replaces it there,          *)
LEMMA PutMeans ==
  ASSUME NEW d \in 1 .. MaxDepth, NEW S, S = WellFormedDoc[d - 1], NEW x, x = MeaningAt[d - 1],
         NEW v \in WellFormedDoc[d], Distinct(v), NEW k \in Escaped, NEW w \in S,
         NEW r \in WellFormedDoc[d], Distinct(r), AddedKey(v, k, w, r)
  PROVE  MeaningAt[d][r] = Content!Put(MeaningAt[d][v], k, x[w])
  <1>1. PICK c, m, y : c = MeaningAt[d][v] /\ m = MeaningAt[d][r] /\ y = x[w]
    OBVIOUS
  <1>2. /\ v \in Doc[d]
        /\ v.type \in {"NULL", "ARRAY", "OBJECT", "STRING", "BOOL", "DIGITAL"}
        /\ c.kind = v.type
        /\ v.type = "OBJECT" => c = Content!Map(MeantMap(v, x))
        /\ v.type = "ARRAY" => c = Content!List(MeantList(v, x))
        /\ v.type = "NULL" => c = Content!Nothing
        /\ v.type # "OBJECT" => c.map = <<>>
        /\ v.type # "ARRAY" => c.items = <<>>
    BY ONLY <1>1, d \in 1 .. MaxDepth, x = MeaningAt[d - 1], v \in WellFormedDoc[d], MeaningShape
  <1>3. r.type = "OBJECT" => m = Content!Map(MeantMap(r, x))
    BY ONLY <1>1, d \in 1 .. MaxDepth, x = MeaningAt[d - 1], r \in WellFormedDoc[d], MeaningShape
  <1>4. Puts(k, y)
    BY ONLY PutIs
  <1>5. CASE v.type = "NULL"
    <2>1. PICK keys, kids, none : keys = <<k>> /\ kids = <<w>> /\ none = <<>>
      OBVIOUS
    <2>2. r = Object(<<k>>, <<w>>)
      BY ONLY <1>5, AddedKey(v, k, w, r) DEF AddedKey
    <2>3. r.type = "OBJECT" /\ r.keys = keys /\ r.kids = kids
      BY ONLY <2>1, <2>2 DEF Object, Value
    <2>4. PICK one \in Nat : one = 1
      OBVIOUS
    <2>5. Len(keys) = one /\ DOMAIN keys = 1 .. one /\ keys[one] = k /\ kids[one] = w
      BY ONLY <2>1, <2>4
    <2>6. IsMap(MeantMap(r, x), one, r.keys, r.kids, x)
      <3>1. Len(r.keys) = one /\ DOMAIN r.keys = 1 .. one
        BY ONLY <2>3, <2>5
      <3> QED BY ONLY <2>3, <3>1, one \in Nat, Distinct(r), MeantIsMap
    <2>7. PICK zero \in Nat : zero = 0 /\ zero + 1 = one
      BY ONLY <2>4
    <2>8. IsMap(none, zero, keys, kids, x)
      <3>1. DOMAIN none = {} /\ none = [j \in DOMAIN none |-> none[j]]
        BY ONLY <2>1
      <3>2. \A i \in 1 .. zero : FALSE
        BY ONLY <2>7
      <3> QED BY ONLY <3>1, <3>2 DEF IsMap
    <2>9. PICK g : g = WithKey(none, k, y)
      OBVIOUS
    <2>10. IsMap(g, zero + 1, keys, kids, x)
      <3>1. Lacks(keys, zero, k) /\ SameTo(keys, keys, zero) /\ SameTo(kids, kids, zero)
        BY ONLY <2>7 DEF Lacks, SameTo
      <3>2. keys[zero + 1] = k /\ x[kids[zero + 1]] = y
        BY ONLY <1>1, <2>5, <2>7
      <3> QED BY ONLY <2>8, <2>9, <3>1, <3>2, zero \in Nat, MapWithNew
    <2>11. MeantMap(r, x) = g
      <3>1. PICK h : h = MeantMap(r, x)
        OBVIOUS
      <3>2. IsMap(h, one, keys, kids, x) /\ IsMap(g, one, keys, kids, x)
        BY ONLY <2>3, <2>6, <2>7, <2>10, <3>1
      <3> QED BY ONLY <3>1, <3>2, SameMap
    <2>12. Content!Put(c, k, y) = Content!Map(g)
      BY ONLY <1>2, <1>4, <1>5, <2>1, <2>9 DEF Puts
    <2> QED BY ONLY <1>1, <1>3, <2>3, <2>11, <2>12
  <1>6. CASE v.type = "OBJECT"
    <2>2. PICK p, f : p = GetKeyIndex(v, k) /\ f = MeantMap(v, x)
      OBVIOUS
    <2>20. PICK n \in Nat, keys \in Seq(Escaped), kids \in Seq(S) : Shape(v, n, keys, kids, f, x)
      BY ONLY <1>6, <2>2, d \in 1 .. MaxDepth, S = WellFormedDoc[d - 1], v \in WellFormedDoc[d], Distinct(v), KeysAre
    <2>1. /\ keys = v.keys /\ kids = v.kids /\ n = Len(keys) /\ n = Len(kids)
          /\ Len(v.keys) = n /\ DOMAIN v.keys = 1 .. n
          /\ Apart(keys, n) /\ IsMap(f, n, keys, kids, x)
      BY ONLY <2>20 DEF Shape
    <2>3. PICK g : g = WithKey(f, k, y)
      OBVIOUS
    <2>4. Content!Put(c, k, y) = Content!Map(g)
      BY ONLY <1>2, <1>4, <1>6, <2>2, <2>3 DEF Puts
    <2>5. /\ GetKeyIndex(v, k) \in 0 .. n
          /\ GetKeyIndex(v, k) # 0 => v.keys[GetKeyIndex(v, k)] = k
          /\ GetKeyIndex(v, k) = 0 => \A i \in 1 .. n : v.keys[i] # k
      BY ONLY <1>6, <2>1, n \in Nat, KeyPlace
    <2>6. IsMap(f, n, keys, kids, x)
      BY ONLY <2>1, <2>2
    <2>7. PICK h : h = MeantMap(r, x)
      OBVIOUS
    <2>8. CASE p # 0
      <3>1. p \in 1 .. n /\ keys[p] = k
        BY ONLY <2>1, <2>2, <2>5, <2>8, n \in Nat
      <3>2. r = [v EXCEPT !.kids[p] = w]
        BY ONLY <1>6, <2>2, <2>8, AddedKey(v, k, w, r) DEF AddedKey
      <3>3. PICK kids2 : kids2 = [kids EXCEPT ![p] = w]
        OBVIOUS
      <3>4. r.type = "OBJECT" /\ r.keys = keys /\ r.kids = kids2
        <4>1. v \in [type : Type, val : Chars, keys : Seq(Chars), kids : Seq(Doc[d - 1])]
          BY ONLY <1>2, d \in 1 .. MaxDepth, IsDoc
        <4> QED BY ONLY <1>6, <2>1, <3>2, <3>3, <4>1
      <3>5. kids2[p] = w /\ SameBut(kids2, kids, n, p)
        BY ONLY <2>1, <3>1, <3>3, kids \in Seq(S) DEF SameBut
      <3>6. IsMap(g, n, keys, kids2, x)
        <4>1. x[kids2[p]] = y
          BY ONLY <1>1, <3>5
        <4> QED BY ONLY <2>1, <2>3, <2>6, <3>1, <3>5, <4>1, n \in Nat, MapReplaced
      <3>7. IsMap(h, n, keys, kids2, x)
        <4>1. Len(r.keys) = n /\ DOMAIN r.keys = 1 .. n
          BY ONLY <2>1, <3>4
        <4>2. IsMap(MeantMap(r, x), n, r.keys, r.kids, x)
          BY ONLY <3>4, <4>1, n \in Nat, Distinct(r), MeantIsMap
        <4> QED BY ONLY <2>7, <3>4, <4>2
      <3>8. h = g
        BY ONLY <3>6, <3>7, SameMap
      <3> QED BY ONLY <1>1, <1>3, <2>4, <2>7, <3>4, <3>8
    <2>9. CASE p = 0
      <3>1. Lacks(keys, n, k)
        BY ONLY <2>1, <2>2, <2>5, <2>9 DEF Lacks
      <3>2. r = Object(Append(keys, k), Append(kids, w))
        BY ONLY <1>6, <2>1, <2>2, <2>9, AddedKey(v, k, w, r) DEF AddedKey
      <3>3. PICK keys2, kids2 : keys2 = Append(keys, k) /\ kids2 = Append(kids, w)
        OBVIOUS
      <3>4. r.type = "OBJECT" /\ r.keys = keys2 /\ r.kids = kids2
        BY ONLY <3>2, <3>3 DEF Object, Value
      <3>5. /\ Len(keys2) = n + 1 /\ DOMAIN keys2 = 1 .. n + 1 /\ keys2[n + 1] = k
            /\ SameTo(keys2, keys, n)
        BY ONLY <2>1, <3>3, keys \in Seq(Escaped), k \in Escaped DEF SameTo
      <3>6. kids2[n + 1] = w /\ SameTo(kids2, kids, n)
        BY ONLY <2>1, <3>3, kids \in Seq(S), w \in S DEF SameTo
      <3>7. IsMap(g, n + 1, keys2, kids2, x)
        <4>1. x[kids2[n + 1]] = y /\ keys2[n + 1] = k
          BY ONLY <1>1, <3>5, <3>6
        <4> QED BY ONLY <2>3, <2>6, <3>1, <3>5, <3>6, <4>1, n \in Nat, MapWithNew
      <3>8. PICK e \in Nat : e = n + 1
        BY ONLY n \in Nat
      <3>9. IsMap(h, e, keys2, kids2, x)
        <4>1. Len(r.keys) = e /\ DOMAIN r.keys = 1 .. e
          BY ONLY <3>4, <3>5, <3>8
        <4>2. IsMap(MeantMap(r, x), e, r.keys, r.kids, x)
          BY ONLY <3>4, <4>1, e \in Nat, Distinct(r), MeantIsMap
        <4> QED BY ONLY <2>7, <3>4, <4>2
      <3>10. IsMap(g, e, keys2, kids2, x)
        BY ONLY <3>7, <3>8
      <3>11. h = g
        BY ONLY <3>9, <3>10, SameMap
      <3> QED BY ONLY <1>1, <1>3, <2>4, <2>7, <3>4, <3>11
    <2> QED BY ONLY <2>8, <2>9
  <1>7. CASE v.type \notin {"NULL", "OBJECT"}
    <2>1. r = v
      BY ONLY <1>7, AddedKey(v, k, w, r) DEF AddedKey
    <2>2. c.kind \notin {"NULL", "OBJECT"}
      BY ONLY <1>2, <1>7
    <2>3. Content!Put(c, k, y) = c
      BY ONLY <1>4, <2>2 DEF Puts
    <2> QED BY ONLY <1>1, <2>1, <2>3
  <1> QED BY ONLY <1>5, <1>6, <1>7

(* deleting one takes it out,                                              *)
LEMMA DropMeans ==
  ASSUME NEW d \in 1 .. MaxDepth, NEW S, S = WellFormedDoc[d - 1], NEW x, x = MeaningAt[d - 1],
         NEW v \in WellFormedDoc[d], Distinct(v), NEW k,
         NEW r \in WellFormedDoc[d], Distinct(r), DeletedKey(v, k, r)
  PROVE  MeaningAt[d][r] = Content!Drop(MeaningAt[d][v], k)
  <1>1. PICK c, m : c = MeaningAt[d][v] /\ m = MeaningAt[d][r]
    OBVIOUS
  <1>2. /\ v \in Doc[d]
        /\ v.type \in {"NULL", "ARRAY", "OBJECT", "STRING", "BOOL", "DIGITAL"}
        /\ c.kind = v.type
        /\ v.type = "OBJECT" => c = Content!Map(MeantMap(v, x))
        /\ v.type = "ARRAY" => c = Content!List(MeantList(v, x))
        /\ v.type = "NULL" => c = Content!Nothing
        /\ v.type # "OBJECT" => c.map = <<>>
        /\ v.type # "ARRAY" => c.items = <<>>
    BY ONLY <1>1, d \in 1 .. MaxDepth, x = MeaningAt[d - 1], v \in WellFormedDoc[d], MeaningShape
  <1>3. /\ r.type = "OBJECT" => m = Content!Map(MeantMap(r, x))
        /\ r.type = "NULL" => m = Content!Nothing
    BY ONLY <1>1, d \in 1 .. MaxDepth, x = MeaningAt[d - 1], r \in WellFormedDoc[d], MeaningShape
  <1>4. /\ \A f : k \notin DOMAIN f => Content!Drop(Content!Map(f), k) = Content!Map(f)
        /\ \A f : k \in DOMAIN f /\ DOMAIN f = {k} => Content!Drop(Content!Map(f), k) = Content!Nothing
        /\ \A f : k \in DOMAIN f /\ DOMAIN f # {k} =>
             Content!Drop(Content!Map(f), k) = Content!Map(WithoutKey(f, k))
        /\ \A e : e.map = <<>> => Content!Drop(e, k) = e \/ k \in DOMAIN <<>>
    BY ONLY DropIs
  <1>5. CASE v.type = "OBJECT"
    <2>2. PICK p, f : p = GetKeyIndex(v, k) /\ f = MeantMap(v, x)
      OBVIOUS
    <2>20. PICK n \in Nat, keys \in Seq(Escaped), kids \in Seq(S) : Shape(v, n, keys, kids, f, x)
      BY ONLY <1>5, <2>2, d \in 1 .. MaxDepth, S = WellFormedDoc[d - 1], v \in WellFormedDoc[d], Distinct(v), KeysAre
    <2>1. /\ keys = v.keys /\ kids = v.kids /\ n = Len(keys) /\ n = Len(kids)
          /\ Len(v.keys) = n /\ DOMAIN v.keys = 1 .. n
          /\ Apart(keys, n) /\ IsMap(f, n, keys, kids, x)
      BY ONLY <2>20 DEF Shape
    <2>3. /\ GetKeyIndex(v, k) \in 0 .. n
          /\ GetKeyIndex(v, k) # 0 => v.keys[GetKeyIndex(v, k)] = k
          /\ GetKeyIndex(v, k) = 0 => \A i \in 1 .. n : v.keys[i] # k
      BY ONLY <1>5, <2>1, n \in Nat, KeyPlace
    <2>4. IsMap(f, n, keys, kids, x) /\ c = Content!Map(f)
      BY ONLY <1>2, <1>5, <2>1, <2>2
    <2>5. \A j : j \in DOMAIN f <=> \E i \in 1 .. n : keys[i] = j
      BY ONLY <2>4 DEF IsMap
    <2>6. CASE p = 0
      <3>1. k \notin DOMAIN f
        BY ONLY <2>1, <2>2, <2>3, <2>5, <2>6
      <3>2. r = v
        BY ONLY <2>2, <2>6, DeletedKey(v, k, r) DEF DeletedKey
      <3> QED BY ONLY <1>1, <1>4, <2>4, <3>1, <3>2
    <2>7. CASE p # 0
      <3>1. p \in 1 .. n /\ keys[p] = k
        BY ONLY <2>1, <2>2, <2>3, <2>7, n \in Nat
      <3>2. k \in DOMAIN f
        BY ONLY <2>5, <3>1
      <3>3. DOMAIN f = {k} <=> n = 1
        <4>1. OnlyHas(f, k, n)
          BY ONLY <2>1, <2>4, <3>1, n \in Nat, OnlyKey
        <4> QED BY ONLY <4>1 DEF OnlyHas
      <3>4. CASE n = 1
        <4>1. r = Null
          BY ONLY <1>5, <2>1, <2>2, <2>7, <3>4, DeletedKey(v, k, r) DEF DeletedKey
        <4>2. r.type = "NULL"
          BY ONLY <4>1 DEF Null, Value
        <4> QED BY ONLY <1>1, <1>3, <1>4, <2>4, <3>2, <3>3, <3>4, <4>2
      <3>5. CASE n # 1
        <4>1. PICK keys2, kids2 : keys2 = RemoveAt(keys, p) /\ kids2 = RemoveAt(kids, p)
          OBVIOUS
        <4>2. r = Object(keys2, kids2)
          BY ONLY <1>5, <2>1, <2>2, <2>7, <3>5, <4>1, DeletedKey(v, k, r) DEF DeletedKey
        <4>3. r.type = "OBJECT" /\ r.keys = keys2 /\ r.kids = kids2
          BY ONLY <4>2 DEF Object, Value
        <4>4. n = Len(keys) /\ n = Len(kids) /\ p \in 1 .. n
          BY ONLY <2>1, <3>1
        <4>5. /\ RemoveAt(keys, p) \in Seq(Escaped) /\ Len(RemoveAt(keys, p)) = n - 1
              /\ Moved(RemoveAt(keys, p), keys, n, p)
          BY ONLY <4>4, n \in Nat, keys \in Seq(Escaped), LeftOut
        <4>6. /\ RemoveAt(kids, p) \in Seq(S) /\ Len(RemoveAt(kids, p)) = n - 1
              /\ Moved(RemoveAt(kids, p), kids, n, p)
          BY ONLY <4>4, n \in Nat, kids \in Seq(S), LeftOut
        <4>7. Moved(keys2, keys, n, p) /\ Moved(kids2, kids, n, p)
          BY ONLY <4>1, <4>5, <4>6
        <4>8. PICK g : g = WithoutKey(f, k)
          OBVIOUS
        <4>9. IsMap(g, n - 1, keys2, kids2, x)
          BY ONLY <2>1, <2>4, <3>1, <4>7, <4>8, n \in Nat, MapWithout
        <4>10. PICK e \in Nat : e = n - 1
          BY ONLY <4>4, n \in Nat
        <4>11. Len(r.keys) = e /\ DOMAIN r.keys = 1 .. e
          <5>1. PICK ks \in Seq(Escaped) : ks = keys2 /\ Len(ks) = e
            BY ONLY <4>1, <4>5, <4>10
          <5>2. DOMAIN ks = 1 .. e
            BY ONLY <5>1, e \in Nat
          <5> QED BY ONLY <4>3, <5>1, <5>2
        <4>12. PICK h : h = MeantMap(r, x)
          OBVIOUS
        <4>13. IsMap(MeantMap(r, x), e, r.keys, r.kids, x)
          BY ONLY <4>3, <4>11, e \in Nat, Distinct(r), MeantIsMap
        <4>14. IsMap(h, e, keys2, kids2, x) /\ IsMap(g, e, keys2, kids2, x)
          BY ONLY <4>3, <4>9, <4>10, <4>12, <4>13
        <4>15. h = g
          BY ONLY <4>14, SameMap
        <4>16. Content!Drop(c, k) = Content!Map(g)
          BY ONLY <1>4, <2>4, <3>2, <3>3, <3>5, <4>8
        <4> QED BY ONLY <1>1, <1>3, <4>3, <4>12, <4>15, <4>16
      <3> QED BY ONLY <3>4, <3>5
    <2> QED BY ONLY <2>6, <2>7
  <1>6. CASE v.type # "OBJECT"
    <2>1. r = v
      BY ONLY <1>6, DeletedKey(v, k, r) DEF DeletedKey
    <2>2. c.map = <<>> /\ k \notin DOMAIN <<>>
      BY ONLY <1>2, <1>6
    <2>3. Content!Drop(c, k) = c
      BY ONLY <1>4, <2>2
    <2> QED BY ONLY <1>1, <2>1, <2>3
  <1> QED BY ONLY <1>5, <1>6

(* An array's children, by their places.                                   *)
LEMMA ItemsAre ==
  ASSUME NEW d \in 1 .. MaxDepth, NEW S, S = WellFormedDoc[d - 1], NEW v \in WellFormedDoc[d],
         NEW x, NEW list, list = MeantList(v, x)
  PROVE  \E n \in Nat, kids \in Seq(S) :
           kids = v.kids /\ n = Len(kids) /\ DOMAIN v.kids = 1 .. n
             /\ list = ListOf(n, kids, x)
  <1>1. v.kids \in Seq(S)
    BY ONLY d \in 1 .. MaxDepth, S = WellFormedDoc[d - 1], v \in WellFormedDoc[d], ByType
  <1>2. PICK kids \in Seq(S) : kids = v.kids
    BY ONLY <1>1
  <1>3. PICK n \in Nat : n = Len(kids) /\ DOMAIN kids = 1 .. n
    BY ONLY kids \in Seq(S)
  <1>4. DOMAIN v.kids = 1 .. n
    BY ONLY <1>2, <1>3
  <1>5. list = ListOf(n, kids, x)
    BY ONLY <1>2, <1>4, list = MeantList(v, x) DEF MeantList, ListOf
  <1> QED BY ONLY <1>2, <1>3, <1>4, <1>5

(* Adding a value appends its meaning,                                     *)
LEMMA PushMeans ==
  ASSUME NEW d \in 1 .. MaxDepth, NEW S, S = WellFormedDoc[d - 1], NEW x, x = MeaningAt[d - 1],
         NEW v \in WellFormedDoc[d], NEW w \in S,
         NEW r \in WellFormedDoc[d], AddedVal(v, w, r)
  PROVE  MeaningAt[d][r] = Content!Push(MeaningAt[d][v], x[w])
  <1>1. PICK c, m, y : c = MeaningAt[d][v] /\ m = MeaningAt[d][r] /\ y = x[w]
    OBVIOUS
  <1>2. /\ v \in Doc[d]
        /\ v.type \in {"NULL", "ARRAY", "OBJECT", "STRING", "BOOL", "DIGITAL"}
        /\ c.kind = v.type
        /\ v.type = "OBJECT" => c = Content!Map(MeantMap(v, x))
        /\ v.type = "ARRAY" => c = Content!List(MeantList(v, x))
        /\ v.type = "NULL" => c = Content!Nothing
        /\ v.type # "OBJECT" => c.map = <<>>
        /\ v.type # "ARRAY" => c.items = <<>>
    BY ONLY <1>1, d \in 1 .. MaxDepth, x = MeaningAt[d - 1], v \in WellFormedDoc[d], MeaningShape
  <1>3. r.type = "ARRAY" => m = Content!List(MeantList(r, x))
    BY ONLY <1>1, d \in 1 .. MaxDepth, x = MeaningAt[d - 1], r \in WellFormedDoc[d], MeaningShape
  <1>4. Pushes(y)
    BY ONLY PushIs
  <1>5. PICK l2 : l2 = MeantList(r, x)
    OBVIOUS
  <1>6. CASE v.type = "NULL"
    <2>1. PICK kids2 \in Seq(S) : kids2 = <<w>>
      <3>1. <<w>> \in Seq(S)
        BY ONLY w \in S
      <3> QED BY ONLY <3>1, Zenon
    <2>2. r = Array(<<w>>)
      BY ONLY <1>6, AddedVal(v, w, r) DEF AddedVal
    <2>3. r.type = "ARRAY" /\ r.kids = kids2
      BY ONLY <2>1, <2>2 DEF Array, Value
    <2>4. DOMAIN kids2 = 1 .. 1 /\ kids2[1] = w
      BY ONLY <2>1
    <2>5. l2 = <<y>>
      <3>1. l2 = [i \in 1 .. 1 |-> x[kids2[i]]]
        BY ONLY <1>5, <2>3, <2>4 DEF MeantList
      <3>2. \A i \in 1 .. 1 : x[kids2[i]] = y
        BY ONLY <1>1, <2>4
      <3>3. l2 = [i \in 1 .. 1 |-> y]
        BY ONLY <3>1, <3>2
      <3> QED BY ONLY <3>3
    <2>6. Append(<<>>, y) = <<y>>
      OBVIOUS
    <2>7. Content!Push(c, y) = Content!List(Append(<<>>, y))
      BY ONLY <1>2, <1>4, <1>6 DEF Pushes
    <2> QED BY ONLY <1>1, <1>3, <1>5, <2>3, <2>5, <2>6, <2>7
  <1>7. CASE v.type = "ARRAY"
    <2>1. PICK list : list = MeantList(v, x)
      OBVIOUS
    <2>2. PICK n \in Nat, kids \in Seq(S) :
            kids = v.kids /\ n = Len(kids) /\ DOMAIN v.kids = 1 .. n
              /\ list = ListOf(n, kids, x)
      BY ONLY <2>1, d \in 1 .. MaxDepth, S = WellFormedDoc[d - 1], v \in WellFormedDoc[d], ItemsAre
    <2>3. PICK kids2 : kids2 = Append(kids, w)
      OBVIOUS
    <2>4. r = Array(kids2)
      BY ONLY <1>7, <2>2, <2>3, AddedVal(v, w, r) DEF AddedVal
    <2>5. r.type = "ARRAY" /\ r.kids = kids2
      BY ONLY <2>4 DEF Array, Value
    <2>6. DOMAIN kids2 = 1 .. n + 1
      BY ONLY <2>2, <2>3, kids \in Seq(S), w \in S
    <2>7. l2 = ListOf(n + 1, kids2, x)
      BY ONLY <1>5, <2>5, <2>6 DEF MeantList, ListOf
    <2>8. PICK list2 : list2 = Append(list, y)
      OBVIOUS
    <2>10. list2 = ListOf(n + 1, kids2, x)
      <3>1. Lengthened(n, kids, w, x, y, list, list2, kids2)
        BY ONLY <1>1, <2>2, <2>3, <2>8 DEF Lengthened
      <3> QED BY ONLY <3>1, n \in Nat, kids \in Seq(S), w \in S, ListWithNew
    <2>9. Content!Push(c, y) = Content!List(Append(list, y))
      BY ONLY <1>2, <1>4, <1>7, <2>1 DEF Pushes
    <2> QED BY ONLY <1>1, <1>3, <1>5, <2>5, <2>7, <2>8, <2>9, <2>10
  <1>8. CASE v.type \notin {"NULL", "ARRAY"}
    <2>1. r = v
      BY ONLY <1>8, AddedVal(v, w, r) DEF AddedVal
    <2>2. c.kind \notin {"NULL", "ARRAY"}
      BY ONLY <1>2, <1>8
    <2>3. Content!Push(c, y) = c
      BY ONLY <1>4, <2>2 DEF Pushes
    <2> QED BY ONLY <1>1, <2>1, <2>3
  <1> QED BY ONLY <1>6, <1>7, <1>8

(* and deleting one takes it out.                                          *)
LEMMA CutMeans ==
  ASSUME NEW d \in 1 .. MaxDepth, NEW S, S = WellFormedDoc[d - 1], NEW x, x = MeaningAt[d - 1],
         NEW v \in WellFormedDoc[d], NEW p, p \notin DOMAIN <<>>,
         NEW r \in WellFormedDoc[d], DeletedVal(v, p, r)
  PROVE  MeaningAt[d][r] = Content!Cut(MeaningAt[d][v], p)
  <1>1. PICK c, m : c = MeaningAt[d][v] /\ m = MeaningAt[d][r]
    OBVIOUS
  <1>2. /\ v \in Doc[d]
        /\ v.type \in {"NULL", "ARRAY", "OBJECT", "STRING", "BOOL", "DIGITAL"}
        /\ c.kind = v.type
        /\ v.type = "OBJECT" => c = Content!Map(MeantMap(v, x))
        /\ v.type = "ARRAY" => c = Content!List(MeantList(v, x))
        /\ v.type = "NULL" => c = Content!Nothing
        /\ v.type # "OBJECT" => c.map = <<>>
        /\ v.type # "ARRAY" => c.items = <<>>
    BY ONLY <1>1, d \in 1 .. MaxDepth, x = MeaningAt[d - 1], v \in WellFormedDoc[d], MeaningShape
  <1>3. /\ r.type = "ARRAY" => m = Content!List(MeantList(r, x))
        /\ r.type = "NULL" => m = Content!Nothing
    BY ONLY <1>1, d \in 1 .. MaxDepth, x = MeaningAt[d - 1], r \in WellFormedDoc[d], MeaningShape
  <1>4. Cuts(p)
    BY ONLY CutIs
  <1>5. CASE v.type = "ARRAY"
    <2>1. PICK list : list = MeantList(v, x)
      OBVIOUS
    <2>2. PICK n \in Nat, kids \in Seq(S) :
            kids = v.kids /\ n = Len(kids) /\ DOMAIN v.kids = 1 .. n
              /\ list = ListOf(n, kids, x)
      BY ONLY <2>1, d \in 1 .. MaxDepth, S = WellFormedDoc[d - 1], v \in WellFormedDoc[d], ItemsAre
    <2>3. DOMAIN list = 1 .. n /\ Len(list) = n
      BY ONLY <2>2, n \in Nat DEF ListOf
    <2>4. c = Content!List(list)
      BY ONLY <1>2, <1>5, <2>1
    <2>5. CASE p \notin 1 .. n
      <3>1. r = v
        BY ONLY <2>2, <2>5, DeletedVal(v, p, r) DEF DeletedVal
      <3>2. Content!Cut(c, p) = c
        BY ONLY <1>4, <2>3, <2>4, <2>5 DEF Cuts
      <3> QED BY ONLY <1>1, <3>1, <3>2
    <2>6. CASE p \in 1 .. n /\ n = 1
      <3>1. r = Null
        BY ONLY <1>5, <2>2, <2>6, DeletedVal(v, p, r) DEF DeletedVal
      <3>2. r.type = "NULL"
        BY ONLY <3>1 DEF Null, Value
      <3>3. Content!Cut(c, p) = Content!Nothing
        BY ONLY <1>4, <2>3, <2>4, <2>6 DEF Cuts
      <3> QED BY ONLY <1>1, <1>3, <3>2, <3>3
    <2>7. CASE p \in 1 .. n /\ n # 1
      <3>1. PICK kids2 : kids2 = RemoveAt(kids, p)
        OBVIOUS
      <3>2. r = Array(kids2)
        BY ONLY <1>5, <2>2, <2>7, <3>1, DeletedVal(v, p, r) DEF DeletedVal
      <3>3. r.type = "ARRAY" /\ r.kids = kids2
        BY ONLY <3>2 DEF Array, Value
      <3>4. n = Len(kids) /\ p \in 1 .. n
        BY ONLY <2>2, <2>7
      <3>5. RemoveAt(kids, p) \in Seq(S) /\ Len(RemoveAt(kids, p)) = n - 1
        BY ONLY <3>4, n \in Nat, kids \in Seq(S), LeftOut
      <3>6. DOMAIN kids2 = 1 .. n - 1
        BY ONLY <3>1, <3>5
      <3>7. MeantList(r, x) = ListOf(n - 1, kids2, x)
        BY ONLY <3>3, <3>6 DEF MeantList, ListOf
      <3>8. RemoveAt(list, p) = ListOf(n - 1, kids2, x)
        BY ONLY <2>2, <3>1, <3>4, n \in Nat, kids \in Seq(S), ListWithout
      <3>9. Content!Cut(c, p) = Content!List(RemoveAt(list, p))
        BY ONLY <1>4, <2>3, <2>4, <2>7 DEF Cuts
      <3> QED BY ONLY <1>1, <1>3, <3>3, <3>7, <3>8, <3>9
    <2> QED BY ONLY <2>5, <2>6, <2>7
  <1>6. CASE v.type # "ARRAY"
    <2>1. r = v
      BY ONLY <1>6, DeletedVal(v, p, r) DEF DeletedVal
    <2>2. Content!Cut(c, p) = c
      BY ONLY <1>2, <1>4, <1>6, p \notin DOMAIN <<>> DEF Cuts
    <2> QED BY ONLY <1>1, <2>1, <2>2
  <1> QED BY ONLY <1>5, <1>6

(* Assigning to a property replaces its meaning, or that of the object.    *)
LEMMA StoreMeans ==
  ASSUME NEW d \in 1 .. MaxDepth, NEW S, S = WellFormedDoc[d - 1], NEW x, x = MeaningAt[d - 1],
         NEW v \in WellFormedDoc[d], Distinct(v), NEW k, NEW w \in S, MeaningAt[d][w] = x[w],
         NEW r \in WellFormedDoc[d], Distinct(r), Assigned(v, k, w, r)
  PROVE  MeaningAt[d][r] = Content!Store(MeaningAt[d][v], k, x[w])
  <1>1. PICK c, m, y : c = MeaningAt[d][v] /\ m = MeaningAt[d][r] /\ y = x[w]
    OBVIOUS
  <1>2. /\ v \in Doc[d]
        /\ v.type \in {"NULL", "ARRAY", "OBJECT", "STRING", "BOOL", "DIGITAL"}
        /\ c.kind = v.type
        /\ v.type = "OBJECT" => c = Content!Map(MeantMap(v, x))
        /\ v.type = "ARRAY" => c = Content!List(MeantList(v, x))
        /\ v.type = "NULL" => c = Content!Nothing
        /\ v.type # "OBJECT" => c.map = <<>>
        /\ v.type # "ARRAY" => c.items = <<>>
    BY ONLY <1>1, d \in 1 .. MaxDepth, x = MeaningAt[d - 1], v \in WellFormedDoc[d], MeaningShape
  <1>3. r.type = "OBJECT" => m = Content!Map(MeantMap(r, x))
    BY ONLY <1>1, d \in 1 .. MaxDepth, x = MeaningAt[d - 1], r \in WellFormedDoc[d], MeaningShape
  <1>4. Stores(k, y)
    BY ONLY StoreIs
  <1>5. CASE v.type = "OBJECT"
    <2>1. PICK p, f : p = GetKeyIndex(v, k) /\ f = MeantMap(v, x)
      OBVIOUS
    <2>2. PICK n \in Nat, keys \in Seq(Escaped), kids \in Seq(S) : Shape(v, n, keys, kids, f, x)
      BY ONLY <1>5, <2>1, d \in 1 .. MaxDepth, S = WellFormedDoc[d - 1], v \in WellFormedDoc[d], Distinct(v), KeysAre
    <2>3. /\ keys = v.keys /\ kids = v.kids /\ n = Len(keys) /\ n = Len(kids)
          /\ Len(v.keys) = n /\ DOMAIN v.keys = 1 .. n
          /\ Apart(keys, n) /\ IsMap(f, n, keys, kids, x)
      BY ONLY <2>2 DEF Shape
    <2>4. c = Content!Map(f)
      BY ONLY <1>2, <1>5, <2>1
    <2>5. /\ GetKeyIndex(v, k) \in 0 .. n
          /\ GetKeyIndex(v, k) # 0 => v.keys[GetKeyIndex(v, k)] = k
          /\ GetKeyIndex(v, k) = 0 => \A i \in 1 .. n : v.keys[i] # k
      BY ONLY <1>5, <2>3, n \in Nat, KeyPlace
    <2>6. \A j : j \in DOMAIN f <=> \E i \in 1 .. n : keys[i] = j
      BY ONLY <2>3 DEF IsMap
    <2>7. CASE p # 0
      <3>1. p \in 1 .. n /\ keys[p] = k
        BY ONLY <2>1, <2>3, <2>5, <2>7, n \in Nat
      <3>2. r = [v EXCEPT !.kids[p] = w]
        BY ONLY <1>5, <2>1, <2>7, Assigned(v, k, w, r) DEF Assigned
      <3>3. PICK kids2 : kids2 = [kids EXCEPT ![p] = w]
        OBVIOUS
      <3>4. r.type = "OBJECT" /\ r.keys = keys /\ r.kids = kids2
        <4>1. v \in [type : Type, val : Chars, keys : Seq(Chars), kids : Seq(Doc[d - 1])]
          BY ONLY <1>2, d \in 1 .. MaxDepth, IsDoc
        <4> QED BY ONLY <1>5, <2>3, <3>2, <3>3, <4>1
      <3>5. kids2[p] = w /\ SameBut(kids2, kids, n, p)
        BY ONLY <2>3, <3>1, <3>3, kids \in Seq(S) DEF SameBut
      <3>6. PICK g, h : g = WithKey(f, k, y) /\ h = MeantMap(r, x)
        OBVIOUS
      <3>7. IsMap(g, n, keys, kids2, x)
        <4>1. x[kids2[p]] = y
          BY ONLY <1>1, <3>5
        <4> QED BY ONLY <2>3, <3>1, <3>5, <3>6, <4>1, n \in Nat, MapReplaced
      <3>8. IsMap(h, n, keys, kids2, x)
        <4>1. Len(r.keys) = n /\ DOMAIN r.keys = 1 .. n
          BY ONLY <2>3, <3>4
        <4>2. IsMap(MeantMap(r, x), n, r.keys, r.kids, x)
          BY ONLY <3>4, <4>1, n \in Nat, Distinct(r), MeantIsMap
        <4> QED BY ONLY <3>4, <3>6, <4>2
      <3>9. h = g
        BY ONLY <3>7, <3>8, SameMap
      <3>10. k \in DOMAIN f
        BY ONLY <2>6, <3>1
      <3>11. g = [f EXCEPT ![k] = y]
        <4>1. f = [j \in DOMAIN f |-> f[j]]
          BY ONLY <2>3 DEF IsMap
        <4>2. DOMAIN f \union {k} = DOMAIN f
          BY ONLY <3>10
        <4>3. g = [j \in DOMAIN f |-> IF j = k THEN y ELSE f[j]]
          BY ONLY <3>6, <4>2 DEF WithKey
        <4> QED BY ONLY <4>1, <4>3
      <3>12. Content!Store(c, k, y) = Content!Map(g)
        BY ONLY <1>4, <2>4, <3>10, <3>11 DEF Stores
      <3> QED BY ONLY <1>1, <1>3, <3>4, <3>6, <3>9, <3>12
    <2>8. CASE p = 0
      <3>1. k \notin DOMAIN f
        BY ONLY <2>1, <2>3, <2>5, <2>6, <2>8
      <3>2. r = w
        BY ONLY <1>5, <2>1, <2>8, Assigned(v, k, w, r) DEF Assigned
      <3>3. Content!Store(c, k, y) = y
        BY ONLY <1>4, <2>4, <3>1 DEF Stores
      <3> QED BY ONLY <1>1, <3>2, <3>3, MeaningAt[d][w] = x[w]
    <2> QED BY ONLY <2>7, <2>8
  <1>6. CASE v.type # "OBJECT"
    <2>1. r = v
      BY ONLY <1>6, Assigned(v, k, w, r) DEF Assigned
    <2>2. c.kind # "OBJECT"
      BY ONLY <1>2, <1>6
    <2>3. Content!Store(c, k, y) = c
      BY ONLY <1>4, <2>2 DEF Stores
    <2> QED BY ONLY <1>1, <2>1, <2>3
  <1> QED BY ONLY <1>5, <1>6

(* A power of ten and the next one.                                        *)
LEMMA Tens ==
  ASSUME NEW n \in Nat
  PROVE  /\ Powers[1] = 1 /\ Powers[10] = 1000000000
         /\ \A j \in 1 .. 10 : n \div Powers[j] \in Nat
         /\ \A j \in 1 .. 9 :
              n \div Powers[j] = 10 * (n \div Powers[j + 1]) + ((n \div Powers[j]) % 10)
  <1>1. /\ Powers[1] = 1 /\ Powers[2] = 10 /\ Powers[3] = 100 /\ Powers[4] = 1000
        /\ Powers[5] = 10000 /\ Powers[6] = 100000 /\ Powers[7] = 1000000
        /\ Powers[8] = 10000000 /\ Powers[9] = 100000000 /\ Powers[10] = 1000000000
    BY DEF Powers
  <1>2. \A j \in 1 .. 10 : Powers[j] \in Nat \ {0}
    BY DEF Powers
  <1>3. ASSUME NEW j \in 1 .. 10 PROVE n \div Powers[j] \in Nat
    <2>1. PICK p \in Nat : p = Powers[j] /\ p > 0
      BY ONLY <1>2, j \in 1 .. 10
    <2>2. n \div p \in Nat
      BY ONLY <2>1, n \in Nat
    <2> QED BY ONLY <2>1, <2>2
  <1>4. /\ n \div 1 = 10 * (n \div 10) + ((n \div 1) % 10)
        /\ n \div 10 = 10 * (n \div 100) + ((n \div 10) % 10)
        /\ n \div 100 = 10 * (n \div 1000) + ((n \div 100) % 10)
    OBVIOUS
  <1>5. /\ n \div 1000 = 10 * (n \div 10000) + ((n \div 1000) % 10)
        /\ n \div 10000 = 10 * (n \div 100000) + ((n \div 10000) % 10)
        /\ n \div 100000 = 10 * (n \div 1000000) + ((n \div 100000) % 10)
    OBVIOUS
  <1>6. /\ n \div 1000000 = 10 * (n \div 10000000) + ((n \div 1000000) % 10)
        /\ n \div 10000000 = 10 * (n \div 100000000) + ((n \div 10000000) % 10)
        /\ n \div 100000000 = 10 * (n \div 1000000000) + ((n \div 100000000) % 10)
    OBVIOUS
  <1>7. ASSUME NEW j \in 1 .. 9
        PROVE  n \div Powers[j] = 10 * (n \div Powers[j + 1]) + ((n \div Powers[j]) % 10)
    <2>1. \/ j = 1 /\ j + 1 = 2
          \/ j = 2 /\ j + 1 = 3
          \/ j = 3 /\ j + 1 = 4
          \/ j = 4 /\ j + 1 = 5
          \/ j = 5 /\ j + 1 = 6
          \/ j = 6 /\ j + 1 = 7
          \/ j = 7 /\ j + 1 = 8
          \/ j = 8 /\ j + 1 = 9
          \/ j = 9 /\ j + 1 = 10
      OBVIOUS
    <2>2. CASE j \in 1 .. 3
      BY ONLY <1>1, <1>4, <2>1, <2>2
    <2>3. CASE j \in 4 .. 6
      BY ONLY <1>1, <1>5, <2>1, <2>3
    <2>4. CASE j \in 7 .. 9
      BY ONLY <1>1, <1>6, <2>1, <2>4
    <2> QED BY ONLY <2>2, <2>3, <2>4, j \in 1 .. 9
  <1> QED BY ONLY <1>1, <1>3, <1>7

(* The value of a digit.                                                   *)
LEMMA DigitValue ==
  ASSUME NEW e \in 0 .. 9, NEW c, c = Numeral[e + 1]
  PROVE  (CHOOSE k \in 0 .. 9 : Numeral[k + 1] = c) = e
  <1>1. \A a, b \in 1 .. 10 : Numeral[a] = Numeral[b] => a = b
    BY DEF Numeral
  <1>2. \A k \in 0 .. 9 : Numeral[k + 1] = c => k = e
    BY ONLY <1>1, e \in 0 .. 9, c = Numeral[e + 1]
  <1>3. \E k \in 0 .. 9 : Numeral[k + 1] = c
    BY ONLY e \in 0 .. 9, c = Numeral[e + 1]
  <1>4. PICK q : q = CHOOSE k \in 0 .. 9 : Numeral[k + 1] = c
    OBVIOUS
  <1>5. q \in 0 .. 9 /\ Numeral[q + 1] = c
    BY ONLY <1>3, <1>4, Zenon
  <1> QED BY ONLY <1>2, <1>4, <1>5

(* A number is read as it was printed.                                     *)
LEMMA NumberComesBack ==
  ASSUME NEW n \in Nat, n <= 2147483647
  PROVE  Atoi(Digits(n)) = n
  <1> DEFINE W == {k \in 1 .. 9 : n < Powers[k + 1]} \union {10}
  <1>1. /\ Powers[1] = 1 /\ Powers[10] = 1000000000
        /\ \A j \in 1 .. 10 : n \div Powers[j] \in Nat
        /\ \A j \in 1 .. 9 :
             n \div Powers[j] = 10 * (n \div Powers[j + 1]) + ((n \div Powers[j]) % 10)
    BY ONLY n \in Nat, Tens
  <1>2. W \in SUBSET Nat /\ W # {}
    OBVIOUS
  <1>3. PICK width : width = Min(W)
    OBVIOUS
  <1>4. Min(W) \in W /\ \A y \in W : Min(W) <= y
    BY ONLY <1>2, MinIn
  <1>5. width \in 1 .. 10 /\ (width \in 1 .. 9 => n < Powers[width + 1])
    BY ONLY <1>3, <1>4
  <1>6. Digits(n) = [i \in 1 .. width |-> Numeral[((n \div Powers[width + 1 - i]) % 10) + 1]]
    BY <1>3 DEF Digits
  <1> HIDE DEF W
  (* No int has an eleventh digit.                                         *)
  <1>7. PICK q : q = [j \in 1 .. 11 |-> IF j = 11 THEN 0 ELSE n \div Powers[j]]
    BY ONLY Zenon
  <1>8. /\ \A j \in 1 .. 11 : q[j] \in Nat
        /\ \A j \in 1 .. 10 : q[j] = 10 * q[j + 1] + (q[j] % 10)
    <2>1. /\ \A j \in 1 .. 10 : q[j] = n \div Powers[j]
          /\ q[11] = 0
      BY ONLY <1>7
    <2>2. n \div 1000000000 \in 0 .. 9
      BY ONLY n \in Nat, n <= 2147483647, SMT
    <2>3. PICK e : e = q[10]
      OBVIOUS
    <2>4. e \in 0 .. 9
      BY ONLY <1>1, <2>1, <2>2, <2>3, SMT
    <2>5. e = 10 * 0 + (e % 10)
      BY ONLY <2>4
    <2>6. \A j \in 1 .. 11 : q[j] \in Nat
      BY ONLY <1>1, <2>1
    <2>7. \A j \in 1 .. 9 : q[j] = 10 * q[j + 1] + (q[j] % 10)
      BY ONLY <1>1, <2>1
    <2>8. q[10] = 10 * q[10 + 1] + (q[10] % 10)
      BY ONLY <2>1, <2>3, <2>5
    <2> QED BY ONLY <2>6, <2>7, <2>8
  <1>9. q[1] = n
    BY ONLY <1>1, <1>7, n \in Nat
  <1>10. q[width + 1] = 0
    <2>1. CASE width \in 1 .. 9
      <3>1. PICK p \in Nat : p = Powers[width + 1] /\ n < p
        <4>1. \A j \in 1 .. 10 : Powers[j] \in Nat
          BY DEF Powers
        <4> QED BY ONLY <1>5, <2>1, <4>1
      <3>2. n \div p = 0
        BY ONLY <3>1, n \in Nat
      <3> QED BY ONLY <1>7, <2>1, <3>1, <3>2
    <2>2. CASE width = 10
      BY ONLY <1>7, <2>2
    <2> QED BY ONLY <1>5, <2>1, <2>2
  <1>11. PICK t : t = Digits(n)
    OBVIOUS
  <1>12. t \in Seq(Digit) /\ Len(t) = width /\ \A i \in 1 .. width : t[i] \in Digit
    <2>1. Digits(n) \in Seq(Digit)
      BY ONLY n \in Nat, DigitsAre
    <2>2. DOMAIN t = 1 .. width
      BY ONLY <1>6, <1>11
    <2> QED BY ONLY <1>5, <1>11, <2>1, <2>2
  <1>13. \A i \in 1 .. width : t[i] = Numeral[(q[width + 1 - i] % 10) + 1]
    BY ONLY <1>5, <1>6, <1>7, <1>11
  <1> DEFINE V(i) == CHOOSE k \in 0 .. 9 : Numeral[k + 1] = t[i]
             L == {j \in 0 .. Len(t) : \A k \in 1 .. j : t[k] \in Digit}
  <1>14. ASSUME NEW i \in 1 .. width PROVE V(i) = q[width + 1 - i] % 10
    <2>1. PICK j \in 1 .. 10 : j = width + 1 - i
      BY ONLY <1>5
    <2>2. q[j] \in Nat
      BY ONLY <1>8
    <2>3. PICK e \in 0 .. 9 : e = q[j] % 10
      BY ONLY <2>2
    <2>4. PICK c : c = t[i]
      OBVIOUS
    <2>5. c = Numeral[e + 1]
      BY ONLY <1>13, <2>1, <2>3, <2>4
    <2>6. (CHOOSE k \in 0 .. 9 : Numeral[k + 1] = c) = e
      BY ONLY <2>5, e \in 0 .. 9, DigitValue
    <2> QED BY ONLY <2>1, <2>3, <2>4, <2>6
  <1>15. Max(L) = width
    <2>1. L \in SUBSET (0 .. width) /\ width \in L
      BY ONLY <1>5, <1>12
    <2>2. PICK m \in Nat : m = width
      BY ONLY <1>5
    <2>3. L \in SUBSET (0 .. m) /\ L # {}
      BY ONLY <2>1, <2>2
    <2> HIDE DEF L
    <2>4. Max(L) \in L /\ \A y \in L : y <= Max(L)
      BY ONLY <2>3, m \in Nat, MaxIn
    <2>5. Max(L) \in 0 .. m /\ m \in L
      BY ONLY <2>1, <2>2, <2>4
    <2>6. Max(L) <= m /\ m <= Max(L)
      BY ONLY <2>4, <2>5, m \in Nat
    <2> QED BY ONLY <2>2, <2>5, <2>6
  <1> DEFINE D(u) == [i \in 0 .. width |-> IF i = 0 THEN 0 ELSE 10 * u[i - 1] + V(i)]
             f == CHOOSE u : u = D(u)
  <1>16. Atoi(t) = f[width]
    BY ONLY <1>15, Zenon DEF Atoi
  <1> HIDE DEF L, V, f
  <1>17. PICK w : w = [i \in 0 .. width |-> q[width + 1 - i]]
    BY ONLY Zenon
  <1>18. ASSUME NEW i \in 1 .. width PROVE w[i] = 10 * w[i - 1] + V(i)
    <2>1. PICK j \in 1 .. 10 : j = width + 1 - i /\ j + 1 = width + 1 - (i - 1)
      BY ONLY <1>5
    <2>2. w[i] = q[j] /\ w[i - 1] = q[j + 1]
      BY ONLY <1>5, <1>17, <2>1, i \in 1 .. width
    <2>3. V(i) = q[j] % 10
      BY ONLY <1>14, <2>1, i \in 1 .. width
    <2> QED BY ONLY <1>8, <2>2, <2>3, j \in 1 .. 10
  <1>19. w[0] = 0 /\ w[width] = n
    <2>1. width + 1 - 0 = width + 1 /\ width + 1 - width = 1 /\ 0 \in 0 .. width /\ width \in 0 .. width
      BY ONLY <1>5
    <2> QED BY ONLY <1>9, <1>10, <1>17, <2>1
  <1>20. w = D(w)
    <2>1. \A i \in 0 .. width : w[i] = IF i = 0 THEN 0 ELSE 10 * w[i - 1] + V(i)
      BY ONLY <1>5, <1>18, <1>19
    <2> QED BY ONLY <1>17, <2>1
  <1>21. f = D(f)
    BY ONLY <1>20 DEF f
  <1>22. f[0] = 0 /\ \A i \in 1 .. width : f[i] = 10 * f[i - 1] + V(i)
    <2>1. D(f)[0] = 0 /\ \A i \in 1 .. width : D(f)[i] = 10 * f[i - 1] + V(i)
      BY ONLY <1>5
    <2> HIDE DEF D
    <2> QED BY ONLY <1>21, <2>1
  <1> HIDE DEF D
  <1>26. PICK g : g = f
    OBVIOUS
  <1>23. PICK m \in Nat : m = width
    BY ONLY <1>5
  <1>24. g[0] = w[0] /\ \A i \in 1 .. m : g[i - 1] = w[i - 1] => g[i] = w[i]
    BY ONLY <1>18, <1>19, <1>22, <1>23, <1>26
  <1>25. g[m] = w[m]
    BY ONLY <1>24, m \in Nat, SameFromTheLeft
  <1> QED BY ONLY <1>11, <1>16, <1>19, <1>23, <1>25, <1>26

(* A text that starts with no digit is the number 0.                       *)
LEMMA NotANumber ==
  ASSUME NEW t, Len(t) = 1, t[1] \notin Digit
  PROVE  Atoi(t) = 0
  <1> DEFINE L == {j \in 0 .. Len(t) : \A k \in 1 .. j : t[k] \in Digit}
  <1>1. Max(L) = 0
    <2>1. L = {0}
      <3>1. \A j \in 0 .. 1 : j = 0 \/ j = 1
        OBVIOUS
      <3>2. 0 \in L
        BY ONLY Len(t) = 1
      <3>3. 1 \notin L
        BY ONLY t[1] \notin Digit
      <3> QED BY ONLY <3>1, <3>2, <3>3, Len(t) = 1
    <2>2. PICK m \in Nat : m = 0
      OBVIOUS
    <2>3. L \in SUBSET (0 .. m) /\ L # {}
      BY ONLY <2>1, <2>2
    <2> HIDE DEF L
    <2>4. Max(L) \in L
      BY ONLY <2>3, m \in Nat, MaxIn
    <2> QED BY ONLY <2>1, <2>4
  <1> DEFINE V(i) == CHOOSE k \in 0 .. 9 : Numeral[k + 1] = t[i]
             D(u) == [i \in 0 .. 0 |-> IF i = 0 THEN 0 ELSE 10 * u[i - 1] + V(i)]
             f == CHOOSE u : u = D(u)
  <1>2. Atoi(t) = f[0]
    BY ONLY <1>1, Zenon DEF Atoi
  <1> HIDE DEF L, V, f
  <1>3. PICK w : w = [i \in 0 .. 0 |-> 0]
    OBVIOUS
  <1>4. w = D(w)
    BY ONLY <1>3
  <1>5. f = D(f)
    BY ONLY <1>4 DEF f
  <1>6. D(f)[0] = 0
    OBVIOUS
  <1> HIDE DEF D
  <1> QED BY ONLY <1>2, <1>5, <1>6

(* What is read for a key that is there once.                              *)
LEMMA FoundAt ==
  ASSUME NEW r, r.type = "OBJECT", NEW n \in Nat, Len(r.keys) = n, DOMAIN r.keys = 1 .. n,
         Distinct(r), NEW p \in 1 .. n, NEW k, r.keys[p] = k, NEW w, r.kids[p] = w
  PROVE  At(r, k) = w
  <1>1. /\ GetKeyIndex(r, k) \in 0 .. n
        /\ GetKeyIndex(r, k) # 0 => r.keys[GetKeyIndex(r, k)] = k
        /\ GetKeyIndex(r, k) = 0 => \A i \in 1 .. n : r.keys[i] # k
    BY ONLY n \in Nat, Len(r.keys) = n, r.type = "OBJECT", KeyPlace
  <1>2. PICK q : q = GetKeyIndex(r, k)
    OBVIOUS
  <1>3. q \in 1 .. n /\ r.keys[q] = k
    BY ONLY <1>1, <1>2, p \in 1 .. n, r.keys[p] = k, n \in Nat
  <1>4. q = p
    BY ONLY <1>3, p \in 1 .. n, r.keys[p] = k, DOMAIN r.keys = 1 .. n, Distinct(r) DEF Distinct
  <1>5. q # 0
    BY ONLY <1>3, n \in Nat
  <1>6. IsKeyExist(r, k) /\ r.kids[GetKeyIndex(r, k)] = w
    BY ONLY <1>2, <1>4, <1>5, r.kids[p] = w DEF IsKeyExist
  <1>7. ~(r.type # "OBJECT")
    BY ONLY r.type = "OBJECT"
  <1> QED BY ONLY <1>6, <1>7, Zenon DEF At

(* A property that was added is found.                                     *)
LEMMA AddedIsFound ==
  ASSUME NEW d \in 1 .. MaxDepth, NEW S, S = WellFormedDoc[d - 1],
         NEW v \in WellFormedDoc[d], Distinct(v), v.type \in {"NULL", "OBJECT"},
         NEW k \in Escaped, NEW w \in S,
         NEW r \in WellFormedDoc[d], Distinct(r), AddedKey(v, k, w, r)
  PROVE  At(r, k) = w
  <1>1. CASE v.type = "NULL"
    <2>1. PICK keys, kids : keys = <<k>> /\ kids = <<w>>
      OBVIOUS
    <2>2. r = Object(<<k>>, <<w>>)
      BY ONLY <1>1, AddedKey(v, k, w, r) DEF AddedKey
    <2>3. r.type = "OBJECT" /\ r.keys = keys /\ r.kids = kids
      BY ONLY <2>1, <2>2 DEF Object, Value
    <2>4. PICK one \in Nat : one = 1
      OBVIOUS
    <2>5. Len(keys) = one /\ DOMAIN keys = 1 .. one /\ keys[one] = k /\ kids[one] = w /\ one \in 1 .. one
      BY ONLY <2>1, <2>4
    <2>6. Len(r.keys) = one /\ DOMAIN r.keys = 1 .. one /\ r.keys[one] = k /\ r.kids[one] = w
      BY ONLY <2>3, <2>5
    <2> QED BY ONLY <2>3, <2>5, <2>6, one \in Nat, Distinct(r), FoundAt
  <1>2. CASE v.type = "OBJECT"
    <2>1. PICK p, x, f : p = GetKeyIndex(v, k) /\ f = MeantMap(v, x)
      OBVIOUS
    <2>2. PICK n \in Nat, keys \in Seq(Escaped), kids \in Seq(S) : Shape(v, n, keys, kids, f, x)
      BY ONLY <1>2, <2>1, d \in 1 .. MaxDepth, S = WellFormedDoc[d - 1], v \in WellFormedDoc[d], Distinct(v), KeysAre
    <2>3. /\ keys = v.keys /\ kids = v.kids /\ n = Len(keys) /\ n = Len(kids)
          /\ Len(v.keys) = n /\ DOMAIN v.keys = 1 .. n
      BY ONLY <2>2 DEF Shape
    <2>4. /\ GetKeyIndex(v, k) \in 0 .. n
          /\ GetKeyIndex(v, k) # 0 => v.keys[GetKeyIndex(v, k)] = k
          /\ GetKeyIndex(v, k) = 0 => \A i \in 1 .. n : v.keys[i] # k
      BY ONLY <1>2, <2>3, n \in Nat, KeyPlace
    <2>5. CASE p # 0
      <3>1. p \in 1 .. n /\ keys[p] = k
        BY ONLY <2>1, <2>3, <2>4, <2>5, n \in Nat
      <3>2. r = [v EXCEPT !.kids[p] = w]
        BY ONLY <1>2, <2>1, <2>5, AddedKey(v, k, w, r) DEF AddedKey
      <3>3. v \in Doc[d]
        BY ONLY d \in 1 .. MaxDepth, S = WellFormedDoc[d - 1], v \in WellFormedDoc[d], Kinds
      <3>4. v \in [type : Type, val : Chars, keys : Seq(Chars), kids : Seq(Doc[d - 1])]
        BY ONLY <3>3, d \in 1 .. MaxDepth, IsDoc
      <3>5. r.type = "OBJECT" /\ r.keys = keys /\ r.kids = [kids EXCEPT ![p] = w]
        BY ONLY <1>2, <2>3, <3>2, <3>4
      <3>6. r.kids[p] = w
        BY ONLY <2>3, <3>1, <3>5, kids \in Seq(S)
      <3>7. Len(r.keys) = n /\ DOMAIN r.keys = 1 .. n /\ r.keys[p] = k /\ p \in 1 .. n
        BY ONLY <2>3, <3>1, <3>5
      <3> QED BY ONLY <3>5, <3>6, <3>7, n \in Nat, Distinct(r), FoundAt
    <2>6. CASE p = 0
      <3>1. r = Object(Append(keys, k), Append(kids, w))
        BY ONLY <1>2, <2>1, <2>3, <2>6, AddedKey(v, k, w, r) DEF AddedKey
      <3>2. r.type = "OBJECT" /\ r.keys = Append(keys, k) /\ r.kids = Append(kids, w)
        BY ONLY <3>1 DEF Object, Value
      <3>3. PICK e \in Nat : e = n + 1 /\ e \in 1 .. e
        BY ONLY n \in Nat
      <3>4. Len(r.keys) = e /\ DOMAIN r.keys = 1 .. e /\ r.keys[e] = k
        BY ONLY <2>3, <3>2, <3>3, keys \in Seq(Escaped), k \in Escaped
      <3>5. r.kids[e] = w
        BY ONLY <2>3, <3>2, <3>3, kids \in Seq(S), w \in S
      <3> QED BY ONLY <3>2, <3>3, <3>4, <3>5, e \in Nat, Distinct(r), FoundAt
    <2> QED BY ONLY <2>5, <2>6
  <1> QED BY ONLY <1>1, <1>2, v.type \in {"NULL", "OBJECT"}

-----------------------------------------------------------------------------
(* The document in the hands of its users.                                 *)

(* The document stays one that can be written and read, and none of its    *)
(* keys is there twice.                                                    *)
Inv == doc \in WellFormedDoc[3] /\ Distinct(doc)

(* The levels of the document and of its children.                         *)
LEMMA DocLevel ==
  \E d \in 1 .. MaxDepth : \E S : d = 3 /\ S = WellFormedDoc[d - 1] /\ WellFormedDoc[1] \subseteq S
  <1>1. PICK d \in 2 .. 3 : d = 3
    OBVIOUS
  <1>2. d \in 1 .. MaxDepth /\ WellFormedDoc[1] \subseteq WellFormedDoc[d - 1]
    BY ONLY d \in 2 .. 3, ChangedLevel
  <1> QED BY ONLY <1>1, <1>2

(* Its keys stay distinct when a property is added,                        *)
LEMMA AddKeyDistinct ==
  ASSUME NEW v \in WellFormedDoc[3], Distinct(v), NEW k, NEW t, NEW w, Says(t, w)
  PROVE  Distinct(AddElementKey(v, k, t))
  <1>0. PICK d \in 1 .. MaxDepth : \E S : d = 3 /\ S = WellFormedDoc[d - 1]
    BY ONLY DocLevel
  <1>1. PICK S : d = 3 /\ S = WellFormedDoc[d - 1]
    BY ONLY <1>0
  <1>2. v \in WellFormedDoc[d]
    BY ONLY <1>1, v \in WellFormedDoc[3]
  <1>3. v.type # "MAX"
    BY ONLY <1>1, <1>2, d \in 1 .. MaxDepth, ByType
  <1>4. PICK r : r = AddElementKey(v, k, t)
    OBVIOUS
  <1>5. AddedKey(v, k, w, AddElementKey(v, k, t))
    BY ONLY <1>3, Says(t, w), AddElementKeyIs
  <1>6. AddedKey(v, k, w, r)
    BY ONLY <1>4, <1>5
  <1>7. Distinct(r)
    BY ONLY <1>1, <1>2, <1>6, d \in 1 .. MaxDepth, Distinct(v), AddedKeyDistinct
  <1> QED BY ONLY <1>4, <1>7

(* deleted                                                                 *)
LEMMA DelKeyDistinct ==
  ASSUME NEW v \in WellFormedDoc[3], Distinct(v), NEW k
  PROVE  Distinct(DelProperty(v, k))
  <1>0. PICK d \in 1 .. MaxDepth : \E S : d = 3 /\ S = WellFormedDoc[d - 1]
    BY ONLY DocLevel
  <1>1. PICK S : d = 3 /\ S = WellFormedDoc[d - 1]
    BY ONLY <1>0
  <1>2. v \in WellFormedDoc[d]
    BY ONLY <1>1, v \in WellFormedDoc[3]
  <1>3. PICK r : r = DelProperty(v, k)
    OBVIOUS
  <1>4. DeletedKey(v, k, r)
    BY ONLY <1>3, DelPropertyIs
  <1>5. Distinct(r)
    BY ONLY <1>1, <1>2, <1>4, d \in 1 .. MaxDepth, Distinct(v), DeletedKeyDistinct
  <1> QED BY ONLY <1>3, <1>5

(* or assigned.                                                            *)
LEMMA AssignDistinct ==
  ASSUME NEW v \in WellFormedDoc[3], Distinct(v), NEW k, NEW w \in WellFormedDoc[1]
  PROVE  Distinct(Assign(v, k, w))
  <1>0. PICK d \in 1 .. MaxDepth : \E S : d = 3 /\ S = WellFormedDoc[d - 1]
    BY ONLY DocLevel
  <1>1. PICK S : d = 3 /\ S = WellFormedDoc[d - 1]
    BY ONLY <1>0
  <1>2. v \in WellFormedDoc[d]
    BY ONLY <1>1, v \in WellFormedDoc[3]
  <1>3. PICK r : r = Assign(v, k, w)
    OBVIOUS
  <1>4. Assigned(v, k, w, r)
    BY ONLY <1>3, AssignIs
  <1>5. Distinct(r)
    BY ONLY <1>1, <1>2, <1>4, d \in 1 .. MaxDepth, Distinct(v), w \in WellFormedDoc[1], AssignedDistinct
  <1> QED BY ONLY <1>3, <1>5

(* So the invariant is kept when the document or a child of it changes.    *)
LEMMA Changing ==
  ASSUME Inv, NEW a \in WellFormedDoc[3], Distinct(a), Changed(doc, a, doc', WellFormedDoc[2])
  PROVE  Inv'
  <1>1. PICK v, r : v = doc /\ r = doc'
    OBVIOUS
  <1>2. v \in WellFormedDoc[3] /\ Changed(v, a, r, WellFormedDoc[2])
    BY ONLY <1>1, Inv, Changed(doc, a, doc', WellFormedDoc[2]) DEF Inv
  <1>3. r \in WellFormedDoc[3]
    BY ONLY <1>2, a \in WellFormedDoc[3], AppliedKeeps
  <1>4. Distinct(r)
    <2>1. CASE r = a
      BY ONLY <2>1, Distinct(a)
    <2>2. ASSUME NEW i, NEW w, r = [v EXCEPT !.kids[i] = w]
          PROVE  Distinct(r)
      <3>0. PICK d \in 1 .. MaxDepth : \E S : d = 3 /\ S = WellFormedDoc[d - 1]
        BY ONLY DocLevel
      <3>1. PICK S : d = 3 /\ S = WellFormedDoc[d - 1]
        BY ONLY <3>0
      <3>2. v \in WellFormedDoc[d]
        BY ONLY <1>2, <3>1
      <3>3. v \in Doc[d]
        BY ONLY <3>1, <3>2, d \in 1 .. MaxDepth, Kinds
      <3>4. v \in [type : Type, val : Chars, keys : Seq(Chars), kids : Seq(Doc[d - 1])]
        BY ONLY <3>3, d \in 1 .. MaxDepth, IsDoc
      <3>5. r.keys = v.keys
        BY ONLY <2>2, <3>4
      <3>6. Distinct(v)
        BY ONLY <1>1, Inv DEF Inv
      <3> QED BY ONLY <3>5, <3>6 DEF Distinct
    <2>3. r = a \/ \E i, w : r = [v EXCEPT !.kids[i] = w]
      <3>1. \A i \in DOMAIN v.kids : v.kids[i] \in WellFormedDoc[2]
        <4>0. PICK d \in 1 .. MaxDepth : \E S : d = 3 /\ S = WellFormedDoc[d - 1] /\ S = WellFormedDoc[2]
          BY ONLY DocLevel
        <4>1. PICK S : d = 3 /\ S = WellFormedDoc[d - 1] /\ S = WellFormedDoc[2]
          BY ONLY <4>0
        <4>2. v \in WellFormedDoc[d]
          BY ONLY <1>2, <4>1
        <4>3. v.kids \in Seq(S)
          BY ONLY <4>1, <4>2, d \in 1 .. MaxDepth, ByType
        <4> QED BY ONLY <4>1, <4>3
      <3> QED BY ONLY <1>2, <3>1, Zenon DEF Changed
    <2> QED BY ONLY <2>1, <2>2, <2>3
  <1> QED BY ONLY <1>1, <1>3, <1>4 DEF Inv

(* An operation, by what it makes of values of both levels.                *)
LEMMA Applying ==
  ASSUME Inv, NEW a, a \in WellFormedDoc[3], Distinct(a), NEW f,
         \A i \in DOMAIN doc.kids : doc.kids[i] \in WellFormedDoc[2] => f[i] \in WellFormedDoc[2],
         doc' = a \/ \E i \in DOMAIN doc.kids : doc' = [doc EXCEPT !.kids[i] = f[i]]
  PROVE  Inv'
  <1>1. Changed(doc, a, doc', WellFormedDoc[2])
    BY Zenon DEF Changed
  <1> QED BY ONLY <1>1, Inv, a \in WellFormedDoc[3], Distinct(a), Changing

(* The steps keep the invariant, one after the other.                      *)
LEMMA DeletesProperty == ASSUME Inv, DeleteProperty PROVE Inv'
  <1>1. PICK k \in Key :
          \/ doc' = DelProperty(doc, k)
          \/ \E i \in DOMAIN doc.kids : doc' = [doc EXCEPT !.kids[i] = DelProperty(doc.kids[i], k)]
    BY DEF DeleteProperty, Apply, ApplyTo
  <1>2. PICK two \in 2 .. 3, three \in 2 .. 3 : two = 2 /\ three = 3
    OBVIOUS
  <1>3. \A u \in WellFormedDoc[two] : DelProperty(u, k) \in WellFormedDoc[two]
    BY ONLY DelKeyKeeps
  <1>4. \A u \in WellFormedDoc[three] : DelProperty(u, k) \in WellFormedDoc[three]
    BY ONLY DelKeyKeeps
  <1>5. PICK a : a = DelProperty(doc, k)
    OBVIOUS
  <1>6. a \in WellFormedDoc[3]
    BY ONLY <1>2, <1>4, <1>5, Inv DEF Inv
  <1>12. Distinct(a)
    BY ONLY <1>5, Inv, DelKeyDistinct DEF Inv
  <1>7. PICK f : f = [i \in DOMAIN doc.kids |-> DelProperty(doc.kids[i], k)]
    OBVIOUS
  <1>8. \A i \in DOMAIN doc.kids : doc.kids[i] \in WellFormedDoc[2] => f[i] \in WellFormedDoc[2]
    BY ONLY <1>2, <1>3, <1>7
  <1>9. doc' = a \/ \E i \in DOMAIN doc.kids : doc' = [doc EXCEPT !.kids[i] = f[i]]
    BY ONLY <1>1, <1>5, <1>7
  <1> QED BY ONLY <1>6, <1>8, <1>9, <1>12, Inv, Applying

(* A value is deleted.                                                     *)
LEMMA DeletesVal == ASSUME Inv, DeleteVal PROVE Inv'
  <1>1. PICK j \in 1 .. MaxKids :
          \/ doc' = DelVal(doc, j)
          \/ \E i \in DOMAIN doc.kids : doc' = [doc EXCEPT !.kids[i] = DelVal(doc.kids[i], j)]
    BY DEF DeleteVal, Apply, ApplyTo
  <1>2. PICK two \in 2 .. 3, three \in 2 .. 3 : two = 2 /\ three = 3
    OBVIOUS
  <1>3. \A u \in WellFormedDoc[two] : DelVal(u, j) \in WellFormedDoc[two]
    BY ONLY DelPlaceKeeps
  <1>4. \A u \in WellFormedDoc[three] : DelVal(u, j) \in WellFormedDoc[three]
    BY ONLY DelPlaceKeeps
  <1>5. PICK a : a = DelVal(doc, j)
    OBVIOUS
  <1>6. a \in WellFormedDoc[3]
    BY ONLY <1>2, <1>4, <1>5, Inv DEF Inv
  <1>12. Distinct(a)
    BY ONLY <1>5, Inv, DelValIs, ValDistinct DEF Inv
  <1>7. PICK f : f = [i \in DOMAIN doc.kids |-> DelVal(doc.kids[i], j)]
    OBVIOUS
  <1>8. \A i \in DOMAIN doc.kids : doc.kids[i] \in WellFormedDoc[2] => f[i] \in WellFormedDoc[2]
    BY ONLY <1>2, <1>3, <1>7
  <1>9. doc' = a \/ \E i \in DOMAIN doc.kids : doc' = [doc EXCEPT !.kids[i] = f[i]]
    BY ONLY <1>1, <1>5, <1>7
  <1> QED BY ONLY <1>6, <1>8, <1>9, <1>12, Inv, Applying

(* Text s, which says w, is made the value of a property, or added to an   *)
(* array.                                                                  *)
LEMMA AddsKey ==
  ASSUME Inv, NEW k \in Key, NEW s, NEW w \in WellFormedDoc[1], Says(s, w),
         \/ doc' = AddElementKey(doc, k, s)
         \/ \E i \in DOMAIN doc.kids : doc' = [doc EXCEPT !.kids[i] = AddElementKey(doc.kids[i], k, s)]
  PROVE  Inv'
  <1>1. PICK two \in 2 .. 3, three \in 2 .. 3 : two = 2 /\ three = 3
    OBVIOUS
  <1>2. \A d \in 2 .. 3 : \A u \in WellFormedDoc[d] : AddElementKey(u, k, s) \in WellFormedDoc[d]
    BY ONLY Says(s, w), k \in Key, w \in WellFormedDoc[1], AddKeyKeeps
  <1>3. \A u \in WellFormedDoc[two] : AddElementKey(u, k, s) \in WellFormedDoc[two]
    BY ONLY <1>2
  <1>4. \A u \in WellFormedDoc[three] : AddElementKey(u, k, s) \in WellFormedDoc[three]
    BY ONLY <1>2
  <1>5. PICK a : a = AddElementKey(doc, k, s)
    OBVIOUS
  <1>6. a \in WellFormedDoc[3]
    BY ONLY <1>1, <1>4, <1>5, Inv DEF Inv
  <1>12. Distinct(a)
    BY ONLY <1>5, Inv, Says(s, w), AddKeyDistinct DEF Inv
  <1>7. PICK f : f = [i \in DOMAIN doc.kids |-> AddElementKey(doc.kids[i], k, s)]
    OBVIOUS
  <1>8. \A i \in DOMAIN doc.kids : doc.kids[i] \in WellFormedDoc[2] => f[i] \in WellFormedDoc[2]
    BY ONLY <1>1, <1>3, <1>7
  <1>9. doc' = a \/ \E i \in DOMAIN doc.kids : doc' = [doc EXCEPT !.kids[i] = f[i]]
    BY <1>5, <1>7
  <1> QED BY ONLY <1>6, <1>8, <1>9, <1>12, Inv, Applying

(* A text is added as a value.                                             *)
LEMMA AddsVal ==
  ASSUME Inv, NEW s, NEW w \in WellFormedDoc[1], Says(s, w),
         \/ doc' = AddElementVal(doc, s)
         \/ \E i \in DOMAIN doc.kids : doc' = [doc EXCEPT !.kids[i] = AddElementVal(doc.kids[i], s)]
         \/ doc' = doc
         \/ \E i \in DOMAIN doc.kids : doc' = [doc EXCEPT !.kids[i] = doc.kids[i]]
  PROVE  Inv'
  <1>1. PICK two \in 2 .. 3, three \in 2 .. 3 : two = 2 /\ three = 3
    OBVIOUS
  <1>2. \A d \in 2 .. 3 : \A u \in WellFormedDoc[d] : AddElementVal(u, s) \in WellFormedDoc[d]
    BY ONLY Says(s, w), w \in WellFormedDoc[1], AddValKeeps
  <1>3. \A u \in WellFormedDoc[two] : AddElementVal(u, s) \in WellFormedDoc[two]
    BY ONLY <1>2
  <1>4. \A u \in WellFormedDoc[three] : AddElementVal(u, s) \in WellFormedDoc[three]
    BY ONLY <1>2
  <1>5. CASE \/ doc' = AddElementVal(doc, s)
             \/ \E i \in DOMAIN doc.kids : doc' = [doc EXCEPT !.kids[i] = AddElementVal(doc.kids[i], s)]
    <2>1. PICK a : a = AddElementVal(doc, s)
      OBVIOUS
    <2>2. a \in WellFormedDoc[3]
      BY ONLY <1>1, <1>4, <2>1, Inv DEF Inv
    <2>6. Distinct(a)
      BY ONLY <2>1, Inv, Says(s, w), AddElementValIs, ValDistinct DEF Inv
    <2>3. PICK f : f = [i \in DOMAIN doc.kids |-> AddElementVal(doc.kids[i], s)]
      OBVIOUS
    <2>4. \A i \in DOMAIN doc.kids : doc.kids[i] \in WellFormedDoc[2] => f[i] \in WellFormedDoc[2]
      BY ONLY <1>1, <1>3, <2>3
    <2>5. doc' = a \/ \E i \in DOMAIN doc.kids : doc' = [doc EXCEPT !.kids[i] = f[i]]
      BY ONLY <1>5, <2>1, <2>3
    <2> QED BY ONLY <2>2, <2>4, <2>5, <2>6, Inv, Applying
  <1>6. CASE \/ doc' = doc
             \/ \E i \in DOMAIN doc.kids : doc' = [doc EXCEPT !.kids[i] = doc.kids[i]]
    <2>1. PICK a : a = doc
      OBVIOUS
    <2>2. a \in WellFormedDoc[3]
      BY ONLY <2>1, Inv DEF Inv
    <2>6. Distinct(a)
      BY ONLY <2>1, Inv DEF Inv
    <2>3. PICK f : f = [i \in DOMAIN doc.kids |-> doc.kids[i]]
      OBVIOUS
    <2>4. \A i \in DOMAIN doc.kids : doc.kids[i] \in WellFormedDoc[2] => f[i] \in WellFormedDoc[2]
      BY ONLY <2>3
    <2>5. doc' = a \/ \E i \in DOMAIN doc.kids : doc' = [doc EXCEPT !.kids[i] = f[i]]
      BY ONLY <1>6, <2>1, <2>3
    <2> QED BY ONLY <2>2, <2>4, <2>5, <2>6, Inv, Applying
  <1> QED BY <1>5, <1>6

(* A property with a string is added.                                      *)
LEMMA AddsTextProperty == ASSUME Inv, AddTextProperty PROVE Inv'
  <1>1. PICK k \in Key, t \in Text, b \in BOOLEAN :
          /\ MayStore(t, b)
          /\ \/ doc' = AddProperty(doc, k, t, b)
             \/ \E i \in DOMAIN doc.kids : doc' = [doc EXCEPT !.kids[i] = AddProperty(doc.kids[i], k, t, b)]
    BY DEF AddTextProperty, Apply, ApplyTo
  <1>2. t \in Chars
    BY ONLY TextAssumption, t \in Text
  <1>3. PICK w \in WellFormedDoc[1] : Says(Quoted(Stored(t, b)), w)
    BY ONLY <1>1, <1>2, TextSays, b \in BOOLEAN
  <1>4. PICK s : s = Quoted(Stored(t, b))
    OBVIOUS
  <1>5. \/ doc' = AddElementKey(doc, k, s)
        \/ \E i \in DOMAIN doc.kids : doc' = [doc EXCEPT !.kids[i] = AddElementKey(doc.kids[i], k, s)]
    BY ONLY <1>1, <1>4 DEF AddProperty
  <1> QED BY ONLY <1>3, <1>4, <1>5, Inv, k \in Key, AddsKey

(* A property with a number or document is added.                          *)
LEMMA AddsOtherProperty == ASSUME Inv, AddOtherProperty PROVE Inv'
  <1>1. PICK k \in Key :
          \/ \E n \in Number :
               \/ doc' = AddPropertyInt(doc, k, n)
               \/ \E i \in DOMAIN doc.kids : doc' = [doc EXCEPT !.kids[i] = AddPropertyInt(doc.kids[i], k, n)]
          \/ \E w \in Part :
               \/ doc' = AddPropertyJson(doc, k, w)
               \/ \E i \in DOMAIN doc.kids : doc' = [doc EXCEPT !.kids[i] = AddPropertyJson(doc.kids[i], k, w)]
    BY DEF AddOtherProperty, Apply, ApplyTo
  <1>2. ASSUME NEW n \in Number,
               \/ doc' = AddPropertyInt(doc, k, n)
               \/ \E i \in DOMAIN doc.kids : doc' = [doc EXCEPT !.kids[i] = AddPropertyInt(doc.kids[i], k, n)]
        PROVE  Inv'
    <2>1. PICK w \in WellFormedDoc[1] : Says(Printed(n), w)
      BY ONLY NumberAssumption, NumberSays, n \in Number
    <2>2. PICK s : s = Printed(n)
      OBVIOUS
    <2>3. \/ doc' = AddElementKey(doc, k, s)
          \/ \E i \in DOMAIN doc.kids : doc' = [doc EXCEPT !.kids[i] = AddElementKey(doc.kids[i], k, s)]
      BY ONLY <1>2, <2>2 DEF AddPropertyInt
    <2> QED BY ONLY <2>1, <2>2, <2>3, Inv, k \in Key, AddsKey
  <1>3. ASSUME NEW w \in Part,
               \/ doc' = AddPropertyJson(doc, k, w)
               \/ \E i \in DOMAIN doc.kids : doc' = [doc EXCEPT !.kids[i] = AddPropertyJson(doc.kids[i], k, w)]
        PROVE  Inv'
    <2>1. w \in WellFormedDoc[1] /\ Says(CStr(w), w)
      BY ONLY PartSays, w \in Part
    <2>2. PICK s : s = CStr(w)
      OBVIOUS
    <2>3. \/ doc' = AddElementKey(doc, k, s)
          \/ \E i \in DOMAIN doc.kids : doc' = [doc EXCEPT !.kids[i] = AddElementKey(doc.kids[i], k, s)]
      BY ONLY <1>3, <2>2 DEF AddPropertyJson
    <2> QED BY ONLY <2>1, <2>2, <2>3, Inv, k \in Key, AddsKey
  <1> QED BY ONLY <1>1, <1>2, <1>3

(* A string is added as a value.                                           *)
LEMMA AddsTextVal == ASSUME Inv, AddTextVal PROVE Inv'
  <1>1. PICK t \in Text, b \in BOOLEAN :
          /\ MayStore(t, b)
          /\ \/ doc' = AddVal(doc, t, b)
             \/ \E i \in DOMAIN doc.kids : doc' = [doc EXCEPT !.kids[i] = AddVal(doc.kids[i], t, b)]
             \/ doc' = AddValNoRepeat(doc, t, b)
             \/ \E i \in DOMAIN doc.kids : doc' = [doc EXCEPT !.kids[i] = AddValNoRepeat(doc.kids[i], t, b)]
    BY DEF AddTextVal, Apply, ApplyTo
  <1>2. t \in Chars
    BY ONLY TextAssumption, t \in Text
  <1>3. PICK w \in WellFormedDoc[1] : Says(Quoted(Stored(t, b)), w)
    BY ONLY <1>1, <1>2, TextSays, b \in BOOLEAN
  <1>4. PICK s : s = Quoted(Stored(t, b))
    OBVIOUS
  <1>5. \A u : AddVal(u, t, b) = AddElementVal(u, s)
    BY ONLY <1>4 DEF AddVal
  <1>6. \A u : AddValNoRepeat(u, t, b) = u \/ AddValNoRepeat(u, t, b) = AddElementVal(u, s)
    BY ONLY <1>5 DEF AddValNoRepeat
  <1>7. \/ doc' = AddElementVal(doc, s)
        \/ \E i \in DOMAIN doc.kids : doc' = [doc EXCEPT !.kids[i] = AddElementVal(doc.kids[i], s)]
        \/ doc' = doc
        \/ \E i \in DOMAIN doc.kids : doc' = [doc EXCEPT !.kids[i] = doc.kids[i]]
    BY ONLY <1>1, <1>5, <1>6
  <1> QED BY ONLY <1>3, <1>4, <1>7, Inv, AddsVal

(* A number or document is added as a value.                               *)
LEMMA AddsOtherVal == ASSUME Inv, AddOtherVal PROVE Inv'
  <1>1. \/ \E n \in Number :
             \/ doc' = AddElementVal(doc, Printed(n))
             \/ \E i \in DOMAIN doc.kids : doc' = [doc EXCEPT !.kids[i] = AddElementVal(doc.kids[i], Printed(n))]
        \/ \E w \in Part :
             \/ doc' = AddValJson(doc, w)
             \/ \E i \in DOMAIN doc.kids : doc' = [doc EXCEPT !.kids[i] = AddValJson(doc.kids[i], w)]
    BY DEF AddOtherVal, Apply, ApplyTo
  <1>2. ASSUME NEW n \in Number,
               \/ doc' = AddElementVal(doc, Printed(n))
               \/ \E i \in DOMAIN doc.kids : doc' = [doc EXCEPT !.kids[i] = AddElementVal(doc.kids[i], Printed(n))]
        PROVE  Inv'
    <2>1. PICK w \in WellFormedDoc[1] : Says(Printed(n), w)
      BY ONLY NumberAssumption, NumberSays, n \in Number
    <2>2. PICK s : s = Printed(n)
      OBVIOUS
    <2>3. \/ doc' = AddElementVal(doc, s)
          \/ \E i \in DOMAIN doc.kids : doc' = [doc EXCEPT !.kids[i] = AddElementVal(doc.kids[i], s)]
      BY ONLY <1>2, <2>2
    <2> QED BY ONLY <2>1, <2>2, <2>3, Inv, AddsVal
  <1>3. ASSUME NEW w \in Part,
               \/ doc' = AddValJson(doc, w)
               \/ \E i \in DOMAIN doc.kids : doc' = [doc EXCEPT !.kids[i] = AddValJson(doc.kids[i], w)]
        PROVE  Inv'
    <2>1. w \in WellFormedDoc[1] /\ Says(CStr(w), w)
      BY ONLY PartSays, w \in Part
    <2>2. PICK s : s = CStr(w)
      OBVIOUS
    <2>3. \/ doc' = AddElementVal(doc, s)
          \/ \E i \in DOMAIN doc.kids : doc' = [doc EXCEPT !.kids[i] = AddElementVal(doc.kids[i], s)]
      BY ONLY <1>3, <2>2 DEF AddValJson
    <2> QED BY ONLY <2>1, <2>2, <2>3, Inv, AddsVal
  <1> QED BY ONLY <1>1, <1>2, <1>3

(* A string is assigned.                                                   *)
LEMMA AssignsText == ASSUME Inv, AssignText PROVE Inv'
  <1>1. PICK k \in Key, t \in Text, b \in BOOLEAN :
          /\ MayStore(t, b)
          /\ \/ doc' = Assign(doc, k, SetStr(t, b))
             \/ \E i \in DOMAIN doc.kids : doc' = [doc EXCEPT !.kids[i] = Assign(doc.kids[i], k, SetStr(t, b))]
    BY DEF AssignText, Apply, ApplyTo
  <1>10. t \in Chars
    BY ONLY TextAssumption, t \in Text
  <1>11. PICK w \in WellFormedDoc[1] : w = SetStr(t, b) /\ Says(Quoted(Stored(t, b)), w)
    BY ONLY <1>1, <1>10, TextSays, b \in BOOLEAN
  <1>13. \A d \in 2 .. 3 : \A u \in WellFormedDoc[d] : Assign(u, k, w) \in WellFormedDoc[d]
    BY ONLY w \in WellFormedDoc[1], AssignsKeeps
  <1>14. \A d \in 2 .. 3 : \A u \in WellFormedDoc[d] : Assign(u, k, SetStr(t, b)) \in WellFormedDoc[d]
    BY ONLY <1>11, <1>13
  <1>2. PICK two \in 2 .. 3, three \in 2 .. 3 : two = 2 /\ three = 3
    OBVIOUS
  <1>3. \A u \in WellFormedDoc[two] : Assign(u, k, SetStr(t, b)) \in WellFormedDoc[two]
    BY ONLY <1>14
  <1>4. \A u \in WellFormedDoc[three] : Assign(u, k, SetStr(t, b)) \in WellFormedDoc[three]
    BY ONLY <1>14
  <1>5. PICK a : a = Assign(doc, k, SetStr(t, b))
    OBVIOUS
  <1>6. a \in WellFormedDoc[3]
    BY ONLY <1>2, <1>4, <1>5, Inv DEF Inv
  <1>12. Distinct(a)
    BY ONLY <1>5, <1>11, Inv, AssignDistinct DEF Inv
  <1>7. PICK f : f = [i \in DOMAIN doc.kids |-> Assign(doc.kids[i], k, SetStr(t, b))]
    OBVIOUS
  <1>8. \A i \in DOMAIN doc.kids : doc.kids[i] \in WellFormedDoc[2] => f[i] \in WellFormedDoc[2]
    BY ONLY <1>2, <1>3, <1>7
  <1>9. doc' = a \/ \E i \in DOMAIN doc.kids : doc' = [doc EXCEPT !.kids[i] = f[i]]
    BY ONLY <1>1, <1>5, <1>7
  <1> QED BY ONLY <1>6, <1>8, <1>9, <1>12, Inv, Applying

(* A well-formed document is read as it was written.                       *)
LEMMA InvReads == ASSUME Inv PROVE doc \in WellFormedDoc[MaxDepth] /\ Says(CStr(doc), doc)
  <1>1. PICK v : v = doc
    OBVIOUS
  <1>2. PICK d \in 0 .. MaxDepth, m \in 0 .. MaxDepth : d = 3 /\ m = MaxDepth /\ d <= m
    BY DepthAssumption, LevelAssumption
  <1>3. v \in WellFormedDoc[d]
    BY ONLY <1>1, <1>2, Inv DEF Inv
  <1>4. WellFormedDoc[d] \subseteq WellFormedDoc[m]
    BY ONLY <1>2, LevelIn
  <1>5. Says(CStr(v), v)
    BY ONLY <1>3, d \in 0 .. MaxDepth, WrittenSays
  <1> QED BY ONLY <1>1, <1>2, <1>3, <1>4, <1>5

(* The document is written and read again.                                 *)
LEMMA Passes == ASSUME Inv, Pass PROVE Inv'
  <1>1. Says(CStr(doc), doc)
    BY ONLY Inv, InvReads
  <1>2. InitText(CStr(doc), TRUE) = doc /\ Copy(doc) = doc
    BY ONLY <1>1 DEF Says, Copy
  <1>3. doc' = doc
    BY ONLY Pass, <1>2 DEF Pass
  <1> QED BY ONLY <1>3, Inv DEF Inv, Distinct

(* The document starts in the invariant.                                   *)
LEMMA Starts == DocInit => Inv
  <1>1. SUFFICES ASSUME DocInit PROVE Inv
    OBVIOUS
  <1>2. PICK v \in Part : v = doc
    BY ONLY <1>1, Zenon DEF DocInit
  <1>3. PICK d \in 2 .. 3 : d = 3
    OBVIOUS
  <1>4. v \in WellFormedDoc[d]
    BY ONLY PartIn, ChangedLevel, v \in Part, d \in 2 .. 3
  <1>5. Distinct(v)
    BY ONLY v \in Part, PartIn, LowestIsEmpty, NoKeys
  <1> QED BY ONLY <1>2, <1>3, <1>4, <1>5 DEF Inv

(* The documents that callers make can always be written and read.         *)
THEOREM StaysWellFormed == DocSpec => []Inv
  <1>1. Inv /\ [DocNext]_doc => Inv'
    <2>1. ASSUME Inv, DocNext PROVE Inv'
      BY ONLY <2>1, DeletesProperty, DeletesVal, AddsTextProperty, AddsOtherProperty,
              AddsTextVal, AddsOtherVal, AssignsText, Passes DEF DocNext
    <2>2. ASSUME Inv, UNCHANGED doc PROVE Inv'
      BY ONLY <2>2 DEF Inv, Distinct
    <2> QED BY ONLY <2>1, <2>2
  <1> QED BY ONLY Starts, <1>1, PTL DEF DocSpec

(* A well-formed document is read as it was written,                       *)
LEMMA ReadsBackThen == Inv => ReadsBack
  <1>1. SUFFICES ASSUME Inv PROVE ReadsBack
    OBVIOUS
  <1>2. InitText(CStr(doc), TRUE) = doc /\ Copy(doc) = doc
    BY ONLY Inv, InvReads DEF Copy, Says
  <1>3. ASSUME NEW t \in Text PROVE ToStr(Parse(CStr(SetStr(t, TRUE)))) = t
    <2>1. PICK b \in BOOLEAN : b = TRUE /\ MayStore(t, b)
      BY ONLY TRUE \in BOOLEAN DEF MayStore
    <2>2. t \in Chars
      BY ONLY TextAssumption, t \in Text
    <2>3. SetStr(t, b) \in WellFormedDoc[1] /\ Decode(Stored(t, b)) = t
      BY ONLY <2>1, <2>2, TextSays, StoredIsEscaped
    <2>4. PICK one \in 0 .. MaxDepth : one = 1
      BY Level1
    <2>5. PICK v \in WellFormedDoc[one] : v = SetStr(t, b)
      BY ONLY <2>3, <2>4
    <2>6. Says(CStr(v), v)
      BY ONLY WrittenSays, one \in 0 .. MaxDepth, v \in WellFormedDoc[one]
    <2>7. Parse(CStr(v)) = v
      BY ONLY <2>6 DEF Says, InitText
    <2>8. v.type = "STRING" /\ v.val = Stored(t, b)
      BY ONLY <2>5 DEF SetStr, Str, Value
    <2>9. ToStr(v) = t
      BY ONLY <2>3, <2>8 DEF ToStr
    <2> QED BY ONLY <2>1, <2>5, <2>7, <2>9
  <1> QED BY ONLY <1>2, <1>3 DEF ReadsBack

(* A document is the same after it was written and read, and every text    *)
(* comes out of a string as it was put in.                                 *)
THEOREM ComesBack == DocSpec => []ReadsBack
  BY ONLY StaysWellFormed, ReadsBackThen, PTL

(* and its text fits into the buffer.                                      *)
LEMMA BufferFitsThen == Inv => BufferFits
  <1>1. SUFFICES ASSUME Inv PROVE BufferFits
    OBVIOUS
  <1>2. doc \in Doc[MaxDepth]
    BY ONLY Inv, InvReads, WrittenIsRead
  <1>3. GetStrLen(doc) = Len(CStr(doc))
    BY ONLY <1>2, WritingFits
  <1>4. \A t \in Text : EncodeCheck(t) = IF Encode(t) = t THEN -1 ELSE Len(Encode(t)) + 1
    BY ONLY TextAssumption, EscapingFits
  <1> QED BY ONLY <1>3, <1>4 DEF BufferFits

(* No document and no text is cut off where it is written.                 *)
THEOREM NothingIsCutOff == DocSpec => []BufferFits
  BY ONLY StaysWellFormed, BufferFitsThen, PTL

(* The level of all documents, and the levels below.                       *)
TopLevel(d, S, x) ==
  /\ d = MaxDepth /\ S = WellFormedDoc[d - 1] /\ x = MeaningAt[d - 1]
  /\ doc \in WellFormedDoc[d] /\ Distinct(doc)

(* A value without children may be a child of the document, and means      *)
(* there what it means alone.                                              *)
MayBeAdded(d, S, x, w) ==
  w \in S /\ w \in WellFormedDoc[d] /\ x[w] = Meaning(w) /\ MeaningAt[d][w] = x[w]

(* The document is at the level of all documents.                          *)
LEMMA AtTheTop ==
  ASSUME Inv
  PROVE  \E d \in 1 .. MaxDepth : \E S, x :
           TopLevel(d, S, x) /\ \A w \in WellFormedDoc[1] : MayBeAdded(d, S, x, w)
  <1>1. PICK d \in 1 .. MaxDepth, e \in 1 .. MaxDepth, one \in 0 .. MaxDepth :
          /\ d = MaxDepth /\ e = d - 1 /\ one = 1
          /\ d \in 0 .. MaxDepth /\ e \in 0 .. MaxDepth /\ one <= d /\ one <= e
    BY DepthAssumption, LevelAssumption
  <1>2. PICK S, x : S = WellFormedDoc[d - 1] /\ x = MeaningAt[d - 1]
    OBVIOUS
  <1>3. doc \in WellFormedDoc[d] /\ Distinct(doc)
    BY ONLY <1>1, Inv, InvReads DEF Inv
  <1>4. ASSUME NEW w \in WellFormedDoc[1] PROVE MayBeAdded(d, S, x, w)
    <2>1. WellFormedDoc[one] \subseteq WellFormedDoc[d] /\ WellFormedDoc[one] \subseteq WellFormedDoc[e]
      BY ONLY <1>1, LevelIn
    <2>2. MeaningAt[d][w] = Flat(w) /\ MeaningAt[e][w] = Flat(w)
      BY ONLY d \in 1 .. MaxDepth, e \in 1 .. MaxDepth, w \in WellFormedDoc[1], FlatMeans
    <2> QED BY ONLY <1>1, <1>2, <2>1, <2>2, w \in WellFormedDoc[1] DEF MayBeAdded, Meaning
  <1> QED BY ONLY <1>1, <1>2, <1>3, <1>4 DEF TopLevel

(* What the operations do to the meaning of the document: a text that says *)
(* w is made the value of a property,                                      *)
LEMMA AddsMeaning ==
  ASSUME Inv, NEW k \in Key, NEW s, NEW w \in WellFormedDoc[1], Says(s, w)
  PROVE  Meaning(AddElementKey(doc, k, s)) = Content!Put(Meaning(doc), k, Meaning(w))
  <1>0. PICK d \in 1 .. MaxDepth : \E S, x : TopLevel(d, S, x) /\ MayBeAdded(d, S, x, w)
    BY ONLY Inv, AtTheTop, w \in WellFormedDoc[1]
  <1>1. PICK S, x : TopLevel(d, S, x) /\ MayBeAdded(d, S, x, w)
    BY ONLY <1>0
  <1>2. PICK v \in WellFormedDoc[d] : v = doc /\ Distinct(v)
    BY ONLY <1>1 DEF TopLevel
  <1>3. S = WellFormedDoc[d - 1] /\ x = MeaningAt[d - 1] /\ w \in S
    BY ONLY <1>1 DEF TopLevel, MayBeAdded
  <1>4. v.type # "MAX"
    BY ONLY <1>3, d \in 1 .. MaxDepth, v \in WellFormedDoc[d], ByType
  <1>5. PICK r : r = AddElementKey(v, k, s)
    OBVIOUS
  <1>6. AddedKey(v, k, w, r)
    BY ONLY <1>4, <1>5, Says(s, w), AddElementKeyIs
  <1>7. k \in Escaped
    BY ONLY k \in Key, KeyIsEscaped
  <1>8. r \in WellFormedDoc[d]
    BY ONLY <1>3, <1>6, <1>7, d \in 1 .. MaxDepth, v \in WellFormedDoc[d], AddElementKeyKeeps
  <1>9. Distinct(r)
    BY ONLY <1>2, <1>3, <1>6, d \in 1 .. MaxDepth, v \in WellFormedDoc[d], AddedKeyDistinct
  <1>10. MeaningAt[d][r] = Content!Put(MeaningAt[d][v], k, x[w])
    BY ONLY <1>2, <1>3, <1>6, <1>7, <1>8, <1>9, d \in 1 .. MaxDepth, v \in WellFormedDoc[d], PutMeans
  <1>11. d = MaxDepth /\ x[w] = Meaning(w)
    BY ONLY <1>1 DEF TopLevel, MayBeAdded
  <1> QED BY ONLY <1>2, <1>5, <1>10, <1>11 DEF Meaning

(* and is found there;                                                     *)
LEMMA AddsFound ==
  ASSUME Inv, NEW k \in Key, NEW s, NEW w \in WellFormedDoc[1], Says(s, w),
         doc.type \in {"NULL", "OBJECT"}
  PROVE  At(AddElementKey(doc, k, s), k) = w
  <1>0. PICK d \in 1 .. MaxDepth : \E S, x : TopLevel(d, S, x) /\ MayBeAdded(d, S, x, w)
    BY ONLY Inv, AtTheTop, w \in WellFormedDoc[1]
  <1>1. PICK S, x : TopLevel(d, S, x) /\ MayBeAdded(d, S, x, w)
    BY ONLY <1>0
  <1>2. PICK v \in WellFormedDoc[d] : v = doc /\ Distinct(v)
    BY ONLY <1>1 DEF TopLevel
  <1>3. S = WellFormedDoc[d - 1] /\ w \in S
    BY ONLY <1>1 DEF TopLevel, MayBeAdded
  <1>4. v.type \in {"NULL", "OBJECT"} /\ v.type # "MAX"
    BY ONLY <1>2, doc.type \in {"NULL", "OBJECT"}
  <1>5. PICK r : r = AddElementKey(v, k, s)
    OBVIOUS
  <1>6. AddedKey(v, k, w, r)
    BY ONLY <1>4, <1>5, Says(s, w), AddElementKeyIs
  <1>7. k \in Escaped
    BY ONLY k \in Key, KeyIsEscaped
  <1>8. r \in WellFormedDoc[d]
    BY ONLY <1>3, <1>6, <1>7, d \in 1 .. MaxDepth, v \in WellFormedDoc[d], AddElementKeyKeeps
  <1>9. Distinct(r)
    BY ONLY <1>2, <1>3, <1>6, d \in 1 .. MaxDepth, v \in WellFormedDoc[d], AddedKeyDistinct
  <1>10. At(r, k) = w
    BY ONLY <1>2, <1>3, <1>4, <1>6, <1>7, <1>8, <1>9, d \in 1 .. MaxDepth, v \in WellFormedDoc[d],
            AddedIsFound
  <1> QED BY ONLY <1>2, <1>5, <1>10

(* a property is deleted;                                                  *)
LEMMA DropsMeaning ==
  ASSUME Inv, NEW k
  PROVE  Meaning(DelProperty(doc, k)) = Content!Drop(Meaning(doc), k)
  <1>0. PICK d \in 1 .. MaxDepth : \E S, x : TopLevel(d, S, x)
    BY ONLY Inv, AtTheTop
  <1>1. PICK S, x : TopLevel(d, S, x)
    BY ONLY <1>0
  <1>2. PICK v \in WellFormedDoc[d] : v = doc /\ Distinct(v)
    BY ONLY <1>1 DEF TopLevel
  <1>3. S = WellFormedDoc[d - 1] /\ x = MeaningAt[d - 1]
    BY ONLY <1>1 DEF TopLevel
  <1>4. PICK r : r = DelProperty(v, k)
    OBVIOUS
  <1>5. DeletedKey(v, k, r)
    BY ONLY <1>4, DelPropertyIs
  <1>6. r \in WellFormedDoc[d]
    BY ONLY <1>3, <1>5, d \in 1 .. MaxDepth, v \in WellFormedDoc[d], DelPropertyKeeps
  <1>7. Distinct(r)
    BY ONLY <1>2, <1>3, <1>5, d \in 1 .. MaxDepth, v \in WellFormedDoc[d], DeletedKeyDistinct
  <1>8. MeaningAt[d][r] = Content!Drop(MeaningAt[d][v], k)
    BY ONLY <1>2, <1>3, <1>5, <1>6, <1>7, d \in 1 .. MaxDepth, v \in WellFormedDoc[d], DropMeans
  <1>9. d = MaxDepth
    BY ONLY <1>1 DEF TopLevel
  <1> QED BY ONLY <1>2, <1>4, <1>8, <1>9 DEF Meaning

(* a text that says w is added as a value;                                 *)
LEMMA PushesMeaning ==
  ASSUME Inv, NEW s, NEW w \in WellFormedDoc[1], Says(s, w)
  PROVE  Meaning(AddElementVal(doc, s)) = Content!Push(Meaning(doc), Meaning(w))
  <1>0. PICK d \in 1 .. MaxDepth : \E S, x : TopLevel(d, S, x) /\ MayBeAdded(d, S, x, w)
    BY ONLY Inv, AtTheTop, w \in WellFormedDoc[1]
  <1>1. PICK S, x : TopLevel(d, S, x) /\ MayBeAdded(d, S, x, w)
    BY ONLY <1>0
  <1>2. PICK v \in WellFormedDoc[d] : v = doc
    BY ONLY <1>1 DEF TopLevel
  <1>3. S = WellFormedDoc[d - 1] /\ x = MeaningAt[d - 1] /\ w \in S
    BY ONLY <1>1 DEF TopLevel, MayBeAdded
  <1>4. PICK r : r = AddElementVal(v, s)
    OBVIOUS
  <1>5. AddedVal(v, w, r)
    BY ONLY <1>4, Says(s, w), AddElementValIs
  <1>6. r \in WellFormedDoc[d]
    BY ONLY <1>3, <1>5, d \in 1 .. MaxDepth, v \in WellFormedDoc[d], AddElementValKeeps
  <1>7. MeaningAt[d][r] = Content!Push(MeaningAt[d][v], x[w])
    BY ONLY <1>3, <1>5, <1>6, d \in 1 .. MaxDepth, v \in WellFormedDoc[d], PushMeans
  <1>8. d = MaxDepth /\ x[w] = Meaning(w)
    BY ONLY <1>1 DEF TopLevel, MayBeAdded
  <1> QED BY ONLY <1>2, <1>4, <1>7, <1>8 DEF Meaning

(* a value is deleted;                                                     *)
LEMMA CutsMeaning ==
  ASSUME Inv, NEW i \in 1 .. MaxKids
  PROVE  Meaning(DelVal(doc, i)) = Content!Cut(Meaning(doc), i)
  <1>0. PICK d \in 1 .. MaxDepth : \E S, x : TopLevel(d, S, x)
    BY ONLY Inv, AtTheTop
  <1>1. PICK S, x : TopLevel(d, S, x)
    BY ONLY <1>0
  <1>2. PICK v \in WellFormedDoc[d] : v = doc
    BY ONLY <1>1 DEF TopLevel
  <1>3. S = WellFormedDoc[d - 1] /\ x = MeaningAt[d - 1]
    BY ONLY <1>1 DEF TopLevel
  <1>4. PICK r : r = DelVal(v, i)
    OBVIOUS
  <1>5. DeletedVal(v, i, r)
    BY ONLY <1>4, DelValIs
  <1>6. r \in WellFormedDoc[d]
    BY ONLY <1>3, <1>5, d \in 1 .. MaxDepth, v \in WellFormedDoc[d], DelValKeeps
  <1>7. i \notin DOMAIN <<>>
    OBVIOUS
  <1>8. MeaningAt[d][r] = Content!Cut(MeaningAt[d][v], i)
    BY ONLY <1>3, <1>5, <1>6, <1>7, d \in 1 .. MaxDepth, v \in WellFormedDoc[d], CutMeans
  <1>9. d = MaxDepth
    BY ONLY <1>1 DEF TopLevel
  <1> QED BY ONLY <1>2, <1>4, <1>8, <1>9 DEF Meaning

(* a value is assigned.                                                    *)
LEMMA StoresMeaning ==
  ASSUME Inv, NEW k, NEW w \in WellFormedDoc[1]
  PROVE  Meaning(Assign(doc, k, w)) = Content!Store(Meaning(doc), k, Meaning(w))
  <1>0. PICK d \in 1 .. MaxDepth : \E S, x : TopLevel(d, S, x) /\ MayBeAdded(d, S, x, w)
    BY ONLY Inv, AtTheTop, w \in WellFormedDoc[1]
  <1>1. PICK S, x : TopLevel(d, S, x) /\ MayBeAdded(d, S, x, w)
    BY ONLY <1>0
  <1>2. PICK v \in WellFormedDoc[d] : v = doc /\ Distinct(v)
    BY ONLY <1>1 DEF TopLevel
  <1>3. /\ S = WellFormedDoc[d - 1] /\ x = MeaningAt[d - 1]
        /\ w \in S /\ w \in WellFormedDoc[d] /\ MeaningAt[d][w] = x[w]
    BY ONLY <1>1 DEF TopLevel, MayBeAdded
  <1>4. PICK r : r = Assign(v, k, w)
    OBVIOUS
  <1>5. Assigned(v, k, w, r)
    BY ONLY <1>4, AssignIs
  <1>6. r \in WellFormedDoc[d]
    BY ONLY <1>3, <1>5, d \in 1 .. MaxDepth, v \in WellFormedDoc[d], AssignKeeps
  <1>7. Distinct(r)
    BY ONLY <1>2, <1>3, <1>5, d \in 1 .. MaxDepth, v \in WellFormedDoc[d], w \in WellFormedDoc[1],
            AssignedDistinct
  <1>8. MeaningAt[d][r] = Content!Store(MeaningAt[d][v], k, x[w])
    BY ONLY <1>2, <1>3, <1>5, <1>6, <1>7, d \in 1 .. MaxDepth, v \in WellFormedDoc[d], StoreMeans
  <1>9. d = MaxDepth /\ x[w] = Meaning(w)
    BY ONLY <1>1 DEF TopLevel, MayBeAdded
  <1> QED BY ONLY <1>2, <1>4, <1>8, <1>9 DEF Meaning

(* A string means the text that was stored, whether it had to be escaped   *)
(* or not.                                                                 *)
TextMeans(t, s, w) ==
  /\ w \in WellFormedDoc[1] /\ w = SetStr(t, TRUE) /\ s = Quoted(Stored(t, TRUE)) /\ Says(s, w)
  /\ Meaning(w) = Content!Leaf("STRING", t)

(* Every text that callers store has such a value.                         *)
LEMMA TextMeaning == ASSUME NEW t \in Text PROVE \E s, w : TextMeans(t, s, w)
  <1>1. PICK b \in BOOLEAN : b = TRUE /\ MayStore(t, b)
    BY ONLY TRUE \in BOOLEAN DEF MayStore
  <1>2. t \in Chars
    BY ONLY TextAssumption, t \in Text
  <1>3. PICK w \in WellFormedDoc[1] : w = SetStr(t, b) /\ Says(Quoted(Stored(t, b)), w)
    BY ONLY <1>1, <1>2, TextSays
  <1>4. Decode(Stored(t, b)) = t
    BY ONLY <1>1, <1>2, StoredIsEscaped
  <1>5. w.type = "STRING" /\ w.val = Stored(t, b)
    BY ONLY <1>3 DEF SetStr, Str, Value
  <1>6. ToStr(w) = t
    BY ONLY <1>4, <1>5 DEF ToStr
  <1>7. PICK d \in 1 .. MaxDepth : d = MaxDepth
    BY ONLY Level1
  <1>8. MeaningAt[d][w] = Flat(w)
    BY ONLY d \in 1 .. MaxDepth, w \in WellFormedDoc[1], FlatMeans
  <1>9. w.type # "OBJECT" /\ w.type # "ARRAY" /\ w.type # "NULL"
    BY ONLY <1>5
  <1>10. Flat(w) = Content!Leaf(w.type, ToStr(w))
    BY ONLY <1>9, Zenon DEF Flat
  <1>11. Meaning(w) = Content!Leaf("STRING", t)
    BY ONLY <1>5, <1>6, <1>7, <1>8, <1>10 DEF Meaning
  <1> QED BY ONLY <1>1, <1>3, <1>11 DEF TextMeans

(* A number is found again, unless the document holds no properties.       *)
LEMMA NumberFound ==
  ASSUME Inv, NEW k \in Key, NEW n \in Number
  PROVE  ToInt(At(AddPropertyInt(doc, k, n), k)) =
           IF Meaning(doc).kind \in {"NULL", "OBJECT"} THEN n ELSE 0
  <1>1. n \in Nat /\ n <= 999999999
    BY ONLY NumberAssumption, n \in Number
  <1>2. SetInt(n) \in WellFormedDoc[1] /\ Says(Printed(n), SetInt(n))
    BY ONLY <1>1, NumberSays
  <1>7. PICK w \in WellFormedDoc[1] : w = SetInt(n)
    BY ONLY <1>2
  <1>8. PICK s : s = Printed(n)
    OBVIOUS
  <1>3. s = Printed(n) /\ w = SetInt(n) /\ Says(s, w)
    BY ONLY <1>2, <1>7, <1>8
  <1>4. Meaning(doc).kind = doc.type
    <2>0. PICK d \in 1 .. MaxDepth : \E S, x : TopLevel(d, S, x)
      BY ONLY Inv, AtTheTop
    <2>1. PICK S, x : TopLevel(d, S, x)
      BY ONLY <2>0
    <2>2. PICK v \in WellFormedDoc[d] : v = doc
      BY ONLY <2>1 DEF TopLevel
    <2>5. PICK m : m = MeaningAt[d][v]
      OBVIOUS
    <2>3. d = MaxDepth /\ x = MeaningAt[d - 1]
      BY ONLY <2>1 DEF TopLevel
    <2>4. m.kind = v.type
      BY ONLY <2>3, <2>5, v \in WellFormedDoc[d], d \in 1 .. MaxDepth, MeaningShape
    <2> QED BY ONLY <2>2, <2>3, <2>4, <2>5 DEF Meaning
  <1>5. CASE doc.type \in {"NULL", "OBJECT"}
    <2>1. At(AddElementKey(doc, k, s), k) = w
      BY ONLY <1>3, <1>5, Inv, k \in Key, AddsFound
    <2>2. w.val = Digits(n)
      BY ONLY <1>1, <1>3, PrintedIs DEF SetInt, Value
    <2>3. n <= 2147483647
      BY ONLY <1>1, SMT
    <2>4. Atoi(Digits(n)) = n
      BY ONLY <1>1, <2>3, NumberComesBack
    <2> QED BY ONLY <1>3, <1>4, <1>5, <2>1, <2>2, <2>4 DEF AddPropertyInt, ToInt
  <1>6. CASE doc.type \notin {"NULL", "OBJECT"}
    <2>1. PICK r : r = AddElementKey(doc, k, s)
      OBVIOUS
    <2>2. doc.type # "MAX"
      <3>0. PICK d \in 1 .. MaxDepth : \E S, x : TopLevel(d, S, x)
        BY ONLY Inv, AtTheTop
      <3>1. PICK S, x : TopLevel(d, S, x)
        BY ONLY <3>0
      <3>2. PICK v \in WellFormedDoc[d] : v = doc
        BY ONLY <3>1 DEF TopLevel
      <3>3. S = WellFormedDoc[d - 1]
        BY ONLY <3>1 DEF TopLevel
      <3> QED BY ONLY <3>2, <3>3, d \in 1 .. MaxDepth, ByType
    <2>3. AddedKey(doc, k, w, r)
      BY ONLY <1>3, <2>1, <2>2, AddElementKeyIs
    <2>4. r = doc
      BY ONLY <1>6, <2>3 DEF AddedKey
    <2>5. At(r, k) = Null
      <3>1. r.type # "OBJECT"
        BY ONLY <1>6, <2>4
      <3>2. ~ IsKeyExist(r, k)
        BY ONLY <3>1 DEF IsKeyExist, GetKeyIndex
      <3> QED BY ONLY <3>1, <3>2, Zenon DEF At
    <2>6. PICK t : t = Null.val /\ Len(t) = 1 /\ t[1] = "null"
      <3>1. Null.val = <<"null">>
        BY ONLY DEF Null, Value
      <3>2. Len(<<"null">>) = 1 /\ <<"null">>[1] = "null"
        OBVIOUS
      <3> QED BY ONLY <3>1, <3>2
    <2>7. t[1] \notin Digit
      BY ONLY <2>6 DEF Digit
    <2>8. Atoi(t) = 0
      BY ONLY <2>6, <2>7, NotANumber
    <2> QED BY ONLY <1>3, <1>4, <1>6, <2>1, <2>5, <2>6, <2>8 DEF AddPropertyInt, ToInt
  <1> QED BY ONLY <1>5, <1>6

(* Each operation does to the meaning of a well-formed document what       *)
(* module JsonContent says.                                                *)
LEMMA ActsAsContentThen == Inv => ActsAsContent
  <1>1. SUFFICES ASSUME Inv PROVE ActsAsContent
    OBVIOUS
  <1>2. ASSUME NEW k \in Key, NEW t \in Text
        PROVE  /\ Meaning(AddProperty(doc, k, t, TRUE)) =
                    Content!Put(Meaning(doc), k, Content!Leaf("STRING", t))
               /\ Meaning(Assign(doc, k, SetStr(t, TRUE))) =
                    Content!Store(Meaning(doc), k, Content!Leaf("STRING", t))
    <2>1. PICK s, w : TextMeans(t, s, w)
      BY ONLY TextMeaning, t \in Text
    <2>2. /\ w \in WellFormedDoc[1] /\ w = SetStr(t, TRUE) /\ s = Quoted(Stored(t, TRUE))
          /\ Says(s, w) /\ Meaning(w) = Content!Leaf("STRING", t)
      BY ONLY <2>1 DEF TextMeans
    <2>3. Meaning(AddElementKey(doc, k, s)) = Content!Put(Meaning(doc), k, Meaning(w))
      BY ONLY <2>2, <1>1, k \in Key, AddsMeaning
    <2>4. Meaning(Assign(doc, k, w)) = Content!Store(Meaning(doc), k, Meaning(w))
      BY ONLY <2>2, <1>1, StoresMeaning
    <2> QED BY ONLY <2>2, <2>3, <2>4 DEF AddProperty
  <1>3. ASSUME NEW k \in Key, NEW w \in Part
        PROVE  Meaning(AddPropertyJson(doc, k, w)) = Content!Put(Meaning(doc), k, Meaning(w))
    <2>1. PICK s : s = CStr(w)
      OBVIOUS
    <2>2. w \in WellFormedDoc[1] /\ Says(s, w)
      BY ONLY <2>1, PartSays, w \in Part
    <2>3. Meaning(AddElementKey(doc, k, s)) = Content!Put(Meaning(doc), k, Meaning(w))
      BY ONLY <2>2, <1>1, k \in Key, AddsMeaning
    <2> QED BY ONLY <2>1, <2>3 DEF AddPropertyJson
  <1>4. \A k \in Key, n \in Number :
          ToInt(At(AddPropertyInt(doc, k, n), k)) =
            IF Meaning(doc).kind \in {"NULL", "OBJECT"} THEN n ELSE 0
    BY ONLY <1>1, NumberFound
  <1>5. \A k \in Key : Meaning(DelProperty(doc, k)) = Content!Drop(Meaning(doc), k)
    BY ONLY <1>1, DropsMeaning
  <1>6. ASSUME NEW t \in Text
        PROVE  Meaning(AddVal(doc, t, TRUE)) = Content!Push(Meaning(doc), Content!Leaf("STRING", t))
    <2>1. PICK s, w : TextMeans(t, s, w)
      BY ONLY TextMeaning, t \in Text
    <2>2. /\ w \in WellFormedDoc[1] /\ s = Quoted(Stored(t, TRUE))
          /\ Says(s, w) /\ Meaning(w) = Content!Leaf("STRING", t)
      BY ONLY <2>1 DEF TextMeans
    <2>3. Meaning(AddElementVal(doc, s)) = Content!Push(Meaning(doc), Meaning(w))
      BY ONLY <2>2, <1>1, PushesMeaning
    <2> QED BY ONLY <2>2, <2>3 DEF AddVal
  <1>7. ASSUME NEW w \in Part
        PROVE  Meaning(AddValJson(doc, w)) = Content!Push(Meaning(doc), Meaning(w))
    <2>1. PICK s : s = CStr(w)
      OBVIOUS
    <2>2. w \in WellFormedDoc[1] /\ Says(s, w)
      BY ONLY <2>1, PartSays, w \in Part
    <2>3. Meaning(AddElementVal(doc, s)) = Content!Push(Meaning(doc), Meaning(w))
      BY ONLY <2>2, <1>1, PushesMeaning
    <2> QED BY ONLY <2>1, <2>3 DEF AddValJson
  <1>8. \A i \in 1 .. MaxKids : Meaning(DelVal(doc, i)) = Content!Cut(Meaning(doc), i)
    BY ONLY <1>1, CutsMeaning
  <1> QED BY ONLY <1>2, <1>3, <1>4, <1>5, <1>6, <1>7, <1>8, Zenon DEF ActsAsContent

(* Whatever was done to a document before, each operation does to its      *)
(* meaning what module JsonContent says.                                   *)
THEOREM ActsAsSaid == DocSpec => []ActsAsContent
  BY ONLY StaysWellFormed, ActsAsContentThen, PTL
=============================================================================
