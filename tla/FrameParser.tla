----------------------------- MODULE FrameParser -----------------------------
(***************************************************************************)
(* TCPSession::OnReceivedData of LinuxServer/network/TCPServerHandle.cpp:  *)
(* the receive buffer that cuts the byte stream of a connection to port    *)
(* 15566 into frames again.  (The displays and the phones have copies of   *)
(* this function in their own TCPHandle.cpp.)                              *)
(*                                                                         *)
(* The bytes of the stream are numbered; frame f, a header and a payload,  *)
(* is the bytes from Start[f] up to Start[f + 1].  recv cuts the stream    *)
(* anywhere.  The first ulReceivedDataLen bytes of pReceivedBuffer are     *)
(* consecutive bytes of the stream, so that the number of the first one,   *)
(* "base", says what the buffer holds.  malloc does not fail here.         *)
(***************************************************************************)
EXTENDS Integers, Sequences

CONSTANTS
  SOCKET_DATA_CONNECT_FLAG,  (* the size of a header                        *)
  LENGTH_FIELD,              (* the size of its first field, the length of  *)
                             (* the payload                                 *)
  BASE_STRING_LEN_MAX,       (* what a recv takes at most, and the slack    *)
                             (* given to the buffer when it grows           *)
  MaxLength,                 (* the largest number a length field can hold  *)
  Frames,                    (* the number of frames the peer sends         *)
  Start                      (* where each of them starts, and the last one *)
                             (* ends                                        *)

ASSUME SizeAssumption ==
  /\ SOCKET_DATA_CONNECT_FLAG \in Nat
  /\ LENGTH_FIELD \in 1 .. SOCKET_DATA_CONNECT_FLAG
  /\ BASE_STRING_LEN_MAX \in Nat \ {0}
  /\ MaxLength \in Nat
ASSUME StreamAssumption ==
  /\ Frames \in Nat
  /\ Start \in [0 .. Frames -> Nat]
  /\ Start[0] = 0
  /\ \A f \in 0 .. Frames - 1 :
       Start[f + 1] - Start[f] - SOCKET_DATA_CONNECT_FLAG \in 0 .. MaxLength

Payload(f) == Start[f + 1] - Start[f] - SOCKET_DATA_CONNECT_FLAG

VARIABLES
  rpc,                     (* "recv", or "loop" inside OnReceivedData       *)
  arrived,                 (* bytes of the stream that recv has returned    *)
  ulReceivedBufferLength,  (* the size of pReceivedBuffer, 0 when it is NULL *)
  ulReceivedDataLen,       (* the bytes in it                               *)
  base,                    (* the number of the first one                   *)
  pFrameData,              (* where in the buffer the loop has got to       *)
  nReceivedDataLen,        (* the bytes from there on                       *)
  delivered                (* history: the calls of OnReceivedFrame, each   *)
                           (* with the bytes it was given                   *)

vars == <<rpc, arrived, ulReceivedBufferLength, ulReceivedDataLen, base,
          pFrameData, nReceivedDataLen, delivered>>

Init ==
  /\ rpc = "recv"
  /\ arrived = 0
  /\ ulReceivedBufferLength = 0
  /\ ulReceivedDataLen = 0
  /\ base = 0
  /\ pFrameData = 0
  /\ nReceivedDataLen = 0
  /\ delivered = <<>>

-----------------------------------------------------------------------------
(* Lines 523-549: a first buffer, and a larger one when n more bytes do    *)
(* not fit.                                                                *)
Allocated(n) ==
  IF ulReceivedBufferLength = 0 THEN BASE_STRING_LEN_MAX + n
  ELSE ulReceivedBufferLength

(* Variant: the bytes already in the buffer are not counted.               *)
Enlarged_NewOnly(n) ==
  IF n > Allocated(n) THEN ulReceivedDataLen + n + BASE_STRING_LEN_MAX
  ELSE Allocated(n)

Enlarged(n) ==
  IF ulReceivedDataLen + n > Allocated(n) THEN ulReceivedDataLen + n + BASE_STRING_LEN_MAX
  ELSE Allocated(n)

(* recv returns n bytes; lines 551-555 put them behind the others.         *)
Receive(n) ==
  /\ rpc = "recv"
  /\ arrived + n <= Start[Frames]
  /\ arrived' = arrived + n
  /\ ulReceivedBufferLength' = Enlarged(n)
  /\ ulReceivedDataLen' = ulReceivedDataLen + n
  /\ pFrameData' = 0
  /\ nReceivedDataLen' = ulReceivedDataLen + n
  /\ rpc' = "loop"
  /\ UNCHANGED <<base, delivered>>

(* Line 558: what the length field at pFrameData may read as.  It is the   *)
(* length of the frame that starts there, if the field is in the buffer;   *)
(* otherwise anything is there.                                            *)
LengthAt ==
  {len \in 0 .. MaxLength :
     nReceivedDataLen >= LENGTH_FIELD =>
       \A f \in 0 .. Frames - 1 : Start[f] = base + pFrameData => len = Payload(f)}

(* Lines 556-570: the loop tests the length of the whole buffer and then   *)
(* that the frame is complete.                                             *)
Deliver ==
  /\ rpc = "loop"
  /\ ulReceivedDataLen > SOCKET_DATA_CONNECT_FLAG
  /\ \E len \in LengthAt :
       /\ len + SOCKET_DATA_CONNECT_FLAG <= nReceivedDataLen
       /\ delivered' =
            Append(delivered, [from |-> base + pFrameData + SOCKET_DATA_CONNECT_FLAG,
                               len  |-> len])
       /\ pFrameData' = pFrameData + SOCKET_DATA_CONNECT_FLAG + len
       /\ nReceivedDataLen' = nReceivedDataLen - SOCKET_DATA_CONNECT_FLAG - len
  /\ UNCHANGED <<rpc, arrived, ulReceivedBufferLength, ulReceivedDataLen, base>>

(* Variant: the loop goes on only when more than a header is left.         *)
LoopEnds_Early ==
  \/ nReceivedDataLen <= SOCKET_DATA_CONNECT_FLAG + 1
  \/ \E len \in LengthAt : len + SOCKET_DATA_CONNECT_FLAG > nReceivedDataLen

(* Lines 571-584: the loop ends and the rest moves to the front.           *)
LoopEnds ==
  \/ ulReceivedDataLen <= SOCKET_DATA_CONNECT_FLAG
  \/ \E len \in LengthAt : len + SOCKET_DATA_CONNECT_FLAG > nReceivedDataLen

(* Variant: the rest stays where it is.                                    *)
KeepRest_NoMove ==
  /\ rpc = "loop"
  /\ LoopEnds
  /\ ulReceivedDataLen' = nReceivedDataLen
  /\ rpc' = "recv"
  /\ UNCHANGED <<arrived, ulReceivedBufferLength, base, pFrameData, nReceivedDataLen,
                 delivered>>

KeepRest ==
  /\ rpc = "loop"
  /\ LoopEnds
  /\ ulReceivedDataLen' = nReceivedDataLen
  /\ base' = base + pFrameData
  /\ rpc' = "recv"
  /\ UNCHANGED <<arrived, ulReceivedBufferLength, pFrameData, nReceivedDataLen, delivered>>

Next ==
  \/ \E n \in 1 .. BASE_STRING_LEN_MAX : Receive(n)
  \/ Deliver
  \/ KeepRest

Spec == Init /\ [][Next]_vars

-----------------------------------------------------------------------------
(* Properties.                                                             *)

(* Every variable holds a value of its kind; no length steps below zero.   *)
TypeOK ==
  /\ rpc \in {"recv", "loop"}
  /\ arrived \in 0 .. Start[Frames]
  /\ ulReceivedBufferLength \in Nat
  /\ ulReceivedDataLen \in Nat
  /\ base \in Nat
  /\ pFrameData \in Nat
  /\ nReceivedDataLen \in Nat
  /\ delivered \in Seq([from : Nat, len : Nat])

(* However recv cuts the stream, OnReceivedFrame is given the payloads of  *)
(* the frames, each whole, each once and in the order they were sent: the  *)
(* parser never loses its place, although it reads length fields that are  *)
(* not, or not all, in the buffer.                                         *)
FramesInOrder ==
  /\ Len(delivered) <= Frames
  /\ \A i \in 1 .. Len(delivered) :
       /\ delivered[i] = [from |-> Start[i - 1] + SOCKET_DATA_CONNECT_FLAG,
                          len  |-> Payload(i - 1)]
       /\ Start[i] <= arrived

(* When the receive thread waits for bytes, every frame that has arrived   *)
(* has been delivered, but for one case: a frame without payload that is   *)
(* alone in the buffer waits for the bytes behind it, because line 556     *)
(* asks for more than a header.                                            *)
OnlyBareHeaderWaits ==
  rpc = "recv" /\ Len(delivered) < Frames /\ Start[Len(delivered) + 1] <= arrived
    => /\ Payload(Len(delivered)) = 0
       /\ arrived = Start[Len(delivered) + 1]

(* The copies of lines 551, 567 and 578 stay inside the buffer.            *)
InBuffer ==
  /\ ulReceivedDataLen <= ulReceivedBufferLength
  /\ rpc = "loop" => pFrameData + nReceivedDataLen = ulReceivedDataLen

-----------------------------------------------------------------------------
(* The inductive invariant: the buffer ends where the stream has got to,   *)
(* and what is left of it starts at a frame.                               *)
Place ==
  /\ base + ulReceivedDataLen = arrived
  /\ rpc = "recv" => base = Start[Len(delivered)]
  /\ rpc = "loop" => base + pFrameData = Start[Len(delivered)]

IndInv ==
  /\ TypeOK
  /\ FramesInOrder
  /\ OnlyBareHeaderWaits
  /\ InBuffer
  /\ Place
=============================================================================
