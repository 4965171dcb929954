----------------------------- MODULE ClientLink ------------------------------
(***************************************************************************)
(* The camera phone: the activity (ClientAndroid VideoActivity.java), the  *)
(* native interface under it (ClientJNI com_dwm_control_mainControl.cpp,   *)
(* MainControl.cpp) and its connection to the server (TCPHandle.cpp).      *)
(*                                                                         *)
(* Buttons, camera pictures and the life of the activity are handled by    *)
(* the thread of the user interface, which sends on the socket itself; the *)
(* receive thread reads answers and notices when the connection is lost.   *)
(* A new activity in the same process (a rotation, a return) finds the     *)
(* TCPHandle of the old one: a second socket replaces the first, which     *)
(* nobody closes, and Thread::start does not start a thread again.         *)
(*                                                                         *)
(* A frame is a sequence of Size parts, of which one send takes some.      *)
(* Answers are read whole: their framing is that of module FrameParser.    *)
(***************************************************************************)
EXTENDS Integers, Sequences, FiniteSets

CONSTANTS MaxConn,       (* bound: activities, each with its socket         *)
          MaxTaps,       (* bound: buttons pressed                          *)
          MaxBroadcasts, (* bound: frames nobody asked for                  *)
          Size           (* parts of a frame                                *)

ASSUME BoundAssumption ==
  /\ {MaxConn, Size} \subseteq Nat \ {0}
  /\ {MaxTaps, MaxBroadcasts} \subseteq Nat

Conn == 1 .. MaxConn
INVALID_SOCKET == 0
Command == {"scan", "stop", "pay"}
Kind == Command \union {"picture"}

VARIABLES
  ui,            (* where the thread of the user interface is               *)
  sending,       (* the frame it sends: its kind and the parts to go        *)
  bIsConnect,    (* the result of the connection, for the activity          *)
  bIsNeedToSend, (* a picture is due                                        *)
  camera,        (* pictures come                                           *)
  iSocket,       (* the socket, a number of a connection                    *)
  link,          (* each connection: none, open, up, broken, closed         *)
  covered,       (* the connections whose descriptor is within iMaxSock     *)
  answered,      (* frames the server sent on each connection               *)
  stream,        (* the parts the server gets on each connection            *)
  inbox,         (* frames for the phone on each connection                 *)
  rpc,           (* where the receive thread is                             *)
  fdSet,         (* the connection it selects on or reads from              *)
  jniEnvControl, (* the thread whose environment the native side uses       *)
  taps,          (* number of buttons pressed                               *)
  broadcasts,    (* frames sent to everybody                                *)
  misused        (* history: the user interface used another environment    *)

uiVars  == <<ui, sending, bIsConnect, bIsNeedToSend, camera, taps>>
netVars == <<link, covered, stream, inbox, answered, broadcasts>>
rcvVars == <<rpc, fdSet>>
vars == <<uiVars, netVars, rcvVars, iSocket, jniEnvControl, misused>>

Nothing == [kind |-> "none", left |-> 0]

Init ==
  /\ ui = "new"
  /\ sending = Nothing
  /\ bIsConnect = FALSE /\ bIsNeedToSend = FALSE /\ camera = FALSE
  /\ iSocket = INVALID_SOCKET
  /\ link = [c \in Conn |-> "none"]
  /\ covered = {}
  /\ stream = [c \in Conn |-> <<>>]
  /\ inbox = [c \in Conn |-> 0]
  /\ answered = [c \in Conn |-> 0]
  /\ rpc = "none"
  /\ fdSet = INVALID_SOCKET
  /\ jniEnvControl = "ui"
  /\ taps = 0
  /\ broadcasts = 0
  /\ misused = FALSE

(* The user interface calls a function of jniEnvControl; what another      *)
(* thread's environment does to it is undefined, and here it goes on.      *)
UseEnv == misused' = (misused \/ jniEnvControl # "ui")

-----------------------------------------------------------------------------
(* The activity.                                                           *)

Made == {c \in Conn : link[c] # "none"}

(* onCreate: Init, and the socket that Connect asks for first.  Its number *)
(* is above the one the receive thread started with unless lower ones were *)
(* freed meanwhile.                                                        *)
OnCreate ==
  /\ ui = "new"
  /\ Made # Conn
  /\ LET c == Cardinality(Made) + 1 IN
       /\ iSocket' = c
       /\ link' = [link EXCEPT ![c] = "open"]
       /\ covered' \in {covered \union {c}} \union (IF rpc = "none" THEN {} ELSE {covered})
  /\ ui' = "connecting"
  /\ bIsConnect' = FALSE /\ bIsNeedToSend' = FALSE
  /\ UseEnv
  /\ UNCHANGED <<sending, camera, stream, inbox, answered, rcvVars, jniEnvControl, taps,
                 broadcasts>>

(* Variant: the receive thread attaches itself when it starts.             *)
Connect_Attach ==
  /\ ui = "connecting"
  /\ ui' = "opened"
  /\ bIsConnect' = (iSocket # INVALID_SOCKET)
  /\ link' = IF iSocket = INVALID_SOCKET THEN link
             ELSE [link EXCEPT ![iSocket] = "up"]
  /\ rpc' = IF rpc = "none" THEN "top" ELSE rpc
  /\ jniEnvControl' = IF rpc = "none" THEN "receive" ELSE jniEnvControl
  /\ UNCHANGED <<sending, bIsNeedToSend, camera, covered, stream, inbox, answered, fdSet,
                 iSocket, taps, broadcasts, misused>>

(* ConnectBySocket and the threads, which start once; or a failure, after  *)
(* which the socket is closed.                                             *)
Connect ==
  /\ ui = "connecting"
  /\ ui' = "opened"
  /\ \E ok \in BOOLEAN :
       /\ ok => iSocket # INVALID_SOCKET
       /\ bIsConnect' = ok
       /\ link' = IF iSocket = INVALID_SOCKET THEN link
                  ELSE [link EXCEPT ![iSocket] = IF ok THEN "up" ELSE "closed"]
       /\ iSocket' = IF ok THEN iSocket ELSE INVALID_SOCKET
       /\ rpc' = IF ok /\ rpc = "none" THEN "top" ELSE rpc
  /\ UNCHANGED <<sending, bIsNeedToSend, camera, covered, stream, inbox, answered, fdSet,
                 jniEnvControl, taps, broadcasts, misused>>

(* The end of RequestConnectToServer frees the text of the address, and    *)
(* the preview starts.                                                     *)
Created ==
  /\ ui = "opened"
  /\ ui' = "idle"
  /\ camera' = TRUE
  /\ UseEnv
  /\ UNCHANGED <<sending, bIsConnect, bIsNeedToSend, netVars, rcvVars, iSocket,
                 jniEnvControl, taps>>

(* onPause releases the camera, and nothing opens it again.                *)
OnPause ==
  /\ ui = "idle"
  /\ camera
  /\ camera' = FALSE
  /\ UNCHANGED <<ui, sending, bIsConnect, bIsNeedToSend, netVars, rcvVars, iSocket,
                 jniEnvControl, taps, misused>>

(* The activity is destroyed, and another one will be created.             *)
Destroyed ==
  /\ ui = "idle"
  /\ ~camera
  /\ ui' = "new"
  /\ UNCHANGED <<sending, bIsConnect, bIsNeedToSend, camera, netVars, rcvVars, iSocket,
                 jniEnvControl, taps, misused>>

-----------------------------------------------------------------------------
(* Sending.                                                                *)

(* Variant: what does not fit into one part is not sent.                   *)
SendDataNow_Small(kind) ==
  IF iSocket = INVALID_SOCKET \/ kind = "picture"
    THEN UNCHANGED <<ui, sending>>
    ELSE /\ ui' = "sending"
         /\ sending' = [kind |-> kind, left |-> Size]

(* SendDataNow: nothing is sent without a socket.                          *)
SendDataNow(kind) ==
  IF iSocket = INVALID_SOCKET
    THEN UNCHANGED <<ui, sending>>
    ELSE /\ ui' = "sending"
         /\ sending' = [kind |-> kind, left |-> Size]

(* A button: scanning also asks for a picture.                             *)
OnClick(kind) ==
  /\ ui = "idle"
  /\ taps < MaxTaps
  /\ taps' = taps + 1
  /\ bIsNeedToSend' = (bIsNeedToSend \/ kind = "scan")
  /\ SendDataNow(kind)
  /\ UNCHANGED <<bIsConnect, camera, netVars, rcvVars, iSocket, jniEnvControl, misused>>

(* Variant: the picture stays due.                                         *)
OnPreviewFrame_StaysDue ==
  /\ ui = "idle" /\ camera /\ bIsConnect /\ bIsNeedToSend
  /\ UseEnv
  /\ SendDataNow("picture")
  /\ UNCHANGED <<bIsConnect, bIsNeedToSend, camera, taps, netVars, rcvVars, iSocket,
                 jniEnvControl>>

(* A picture comes.  GetSendBuffCount is always 0: no code adds to the     *)
(* queue it counts.                                                        *)
OnPreviewFrame ==
  /\ ui = "idle" /\ camera /\ bIsConnect /\ bIsNeedToSend
  /\ bIsNeedToSend' = FALSE
  /\ UseEnv
  /\ SendDataNow("picture")
  /\ UNCHANGED <<bIsConnect, camera, taps, netVars, rcvVars, iSocket, jniEnvControl>>

(* The frame is done with, whatever became of it; SendBuff then frees the  *)
(* bytes of a picture.                                                     *)
Return ==
  /\ ui' = "idle"
  /\ sending' = Nothing
  /\ IF sending.kind = "picture" THEN UseEnv ELSE UNCHANGED misused

(* How many parts a send may take; 0 says that it fails.                   *)
Accepted ==
  CASE iSocket = INVALID_SOCKET -> {0}
    [] iSocket # INVALID_SOCKET ->
         (IF link[iSocket] = "broken" THEN 0 ELSE 1) .. sending.left

(* Variant: one send is taken for the whole frame.                         *)
SendBySocket_Once ==
  /\ ui = "sending"
  /\ \E n \in Accepted :
       /\ stream' = IF n = 0 THEN stream
                    ELSE [stream EXCEPT ![iSocket] = @ \o [i \in 1 .. n |->
                            [kind |-> sending.kind, part |-> Size - sending.left + i]]]
       /\ Return
  /\ UNCHANGED <<bIsConnect, bIsNeedToSend, camera, taps, link, covered, inbox, answered,
                 broadcasts, rcvVars, iSocket, jniEnvControl>>

(* One send of SendDataNow takes n parts, or fails and ends the loop.  On  *)
(* a broken connection it may still take some, which get nowhere.          *)
SendBySocket ==
  /\ ui = "sending"
  /\ \E n \in Accepted :
       /\ stream' = IF n = 0 \/ link[iSocket] # "up" THEN stream
                    ELSE [stream EXCEPT ![iSocket] = @ \o [i \in 1 .. n |->
                            [kind |-> sending.kind, part |-> Size - sending.left + i]]]
       /\ IF n \in {0, sending.left}
            THEN Return
            ELSE /\ sending' = [sending EXCEPT !.left = @ - n]
                 /\ UNCHANGED <<ui, misused>>
  /\ UNCHANGED <<bIsConnect, bIsNeedToSend, camera, taps, link, covered, inbox, answered,
                 broadcasts, rcvVars, iSocket, jniEnvControl>>

-----------------------------------------------------------------------------
(* The receive thread.                                                     *)

Receives == UNCHANGED <<uiVars, link, covered, stream, answered, broadcasts, misused>>

(* The loop's test and the descriptors to watch.                           *)
Top ==
  /\ rpc = "top"
  /\ rpc' = IF iSocket = INVALID_SOCKET THEN "ended" ELSE "select"
  /\ fdSet' = iSocket
  /\ UNCHANGED <<inbox, iSocket, jniEnvControl>> /\ Receives

(* Whether recv would return at once.                                      *)
Readable(c) ==
  IF c = INVALID_SOCKET THEN TRUE ELSE inbox[c] > 0 \/ link[c] # "up"

(* Variant: a select whose time is up is taken for a lost connection.      *)
Select_TimeIsUp ==
  /\ rpc = "select"
  /\ rpc' = IF fdSet \in covered /\ Readable(fdSet) /\ iSocket = fdSet
              THEN "recv" ELSE "lost"
  /\ UNCHANGED <<inbox, fdSet, iSocket, jniEnvControl>> /\ Receives

(* select returns because of the socket, because of one of the numbers     *)
(* nothing initialises, or because its time is up; FD_ISSET then looks for *)
(* the socket of that moment.                                              *)
Select ==
  /\ rpc = "select"
  /\ rpc' = IF fdSet \in covered /\ Readable(fdSet) /\ iSocket = fdSet
              THEN "recv" ELSE "top"
  /\ UNCHANGED <<inbox, fdSet, iSocket, jniEnvControl>> /\ Receives

(* One of those numbers is no descriptor: the thread ends.                 *)
SelectFails ==
  /\ rpc = "select"
  /\ rpc' = "ended"
  /\ UNCHANGED <<inbox, fdSet, iSocket, jniEnvControl>> /\ Receives

(* recv is called with the socket of that moment, ...                      *)
RecvCalled ==
  /\ rpc = "recv"
  /\ rpc' = "reading"
  /\ fdSet' = iSocket
  /\ UNCHANGED <<inbox, iSocket, jniEnvControl>> /\ Receives

(* ... and returns when there is something to read or an error.            *)
Recv ==
  /\ rpc = "reading"
  /\ Readable(fdSet)
  /\ IF fdSet # INVALID_SOCKET /\ inbox[fdSet] > 0
       THEN /\ rpc' = "received"
            /\ inbox' = [inbox EXCEPT ![fdSet] = @ - 1]
       ELSE /\ rpc' = "lost"
            /\ UNCHANGED inbox
  /\ UNCHANGED <<fdSet, iSocket, jniEnvControl>> /\ Receives

(* Variant: the error is logged, and the loop goes on.                     *)
Lost_GoesOn ==
  /\ rpc = "lost"
  /\ rpc' = "top"
  /\ UNCHANGED <<inbox, fdSet, iSocket, jniEnvControl>> /\ Receives

Lost ==
  /\ rpc = "lost"
  /\ iSocket' = INVALID_SOCKET
  /\ rpc' = "ended"
  /\ UNCHANGED <<inbox, fdSet, jniEnvControl>> /\ Receives

(* CallbackForSystem: the thread's environment takes the place of the      *)
(* other one, and stays there when the thread detaches.                    *)
Attach ==
  /\ rpc = "received"
  /\ jniEnvControl' = "receive"
  /\ rpc' = "attached"
  /\ UNCHANGED <<inbox, fdSet, iSocket>> /\ Receives

Detach ==
  /\ rpc = "attached"
  /\ jniEnvControl' = "dead"
  /\ rpc' = "top"
  /\ UNCHANGED <<inbox, fdSet, iSocket>> /\ Receives

-----------------------------------------------------------------------------
(* The network and the server.                                             *)

NetSteps == UNCHANGED <<uiVars, covered, stream, rcvVars, iSocket, jniEnvControl, misused>>

Break(c) ==
  /\ link[c] = "up"
  /\ link' = [link EXCEPT ![c] = "broken"]
  /\ UNCHANGED <<inbox, answered, broadcasts>> /\ NetSteps

(* The server answers a stop and, when the display confirmed, a payment.   *)
Asked(c) ==
  Cardinality({i \in DOMAIN stream[c] :
                 stream[c][i].part = Size /\ stream[c][i].kind \in {"stop", "pay"}})
Answer(c) ==
  /\ link[c] = "up"
  /\ answered[c] < Asked(c)
  /\ answered' = [answered EXCEPT ![c] = @ + 1]
  /\ inbox' = [inbox EXCEPT ![c] = @ + 1]
  /\ UNCHANGED <<link, broadcasts>> /\ NetSteps

(* A display that confirms to 0 confirms to everybody.                     *)
Broadcast ==
  /\ broadcasts < MaxBroadcasts
  /\ broadcasts' = broadcasts + 1
  /\ inbox' = [c \in Conn |-> IF link[c] = "up" THEN inbox[c] + 1 ELSE inbox[c]]
  /\ UNCHANGED <<link, answered>> /\ NetSteps

UiNext == OnCreate \/ Connect \/ Created \/ OnPreviewFrame \/ SendBySocket
Receive == Top \/ Select \/ RecvCalled \/ Recv \/ Lost \/ Attach \/ Detach

Next ==
  \/ OnCreate \/ Connect \/ Created \/ OnPause \/ Destroyed
  \/ \E kind \in Command : OnClick(kind)
  \/ OnPreviewFrame \/ SendBySocket
  \/ Top \/ Select \/ SelectFails \/ RecvCalled \/ Recv \/ Lost \/ Attach \/ Detach
  \/ \E c \in Conn : Break(c) \/ Answer(c)
  \/ Broadcast

Spec == Init /\ [][Next]_vars

(* The threads go on, and a camera that is on delivers pictures.           *)
FairSpec == Spec /\ WF_vars(UiNext) /\ WF_vars(Receive)

-----------------------------------------------------------------------------
(* Properties.                                                             *)

Part == [kind : Kind, part : 1 .. Size]

(* Every variable holds a value of its kind; a frame is being sent exactly *)
(* while the user interface is busy with it.                               *)
TypeOK ==
  /\ ui \in {"new", "connecting", "opened", "idle", "sending"}
  /\ sending \in [kind : Kind, left : 1 .. Size] \union {Nothing}
  /\ sending # Nothing <=> ui = "sending"
  /\ bIsConnect \in BOOLEAN /\ bIsNeedToSend \in BOOLEAN
  /\ camera \in BOOLEAN /\ misused \in BOOLEAN
  /\ iSocket \in Conn \union {INVALID_SOCKET}
  /\ link \in [Conn -> {"none", "open", "up", "broken", "closed"}]
  /\ covered \subseteq Conn
  /\ stream \in [Conn -> Seq(Part)]
  /\ inbox \in [Conn -> Nat]
  /\ answered \in [Conn -> Nat]
  /\ rpc \in {"none", "top", "select", "recv", "reading", "received", "attached",
              "lost", "ended"}
  /\ fdSet \in Conn \union {INVALID_SOCKET}
  /\ jniEnvControl \in {"ui", "receive", "dead"}
  /\ taps \in 0 .. MaxTaps /\ broadcasts \in 0 .. MaxBroadcasts

(* What the server gets on a connection is frames, one after the other and *)
(* whole but for the last, although sends take parts, SendDataNow ends     *)
(* when one fails, keeps the socket and reports success, and the next      *)
(* frame is sent on it again.                                              *)
WholeFrames ==
  \A c \in Conn : \A i \in DOMAIN stream[c] :
    LET p == stream[c][i] IN
    IF i = 1 \/ stream[c][i - 1].part = Size
      THEN p.part = 1
      ELSE p = [stream[c][i - 1] EXCEPT !.part = @ + 1]

(* On a connection that stands, no frame is cut while the process has had  *)
(* one activity.  (With a second one, the receive thread that lost the     *)
(* first connection may take the socket away from a frame that is being    *)
(* sent on the second.)                                                    *)
CutOnlyByRestart ==
  \A c \in Conn :
    link[c] = "up" /\ ui = "idle" /\ Cardinality(Made) = 1 =>
      stream[c] = <<>> \/ stream[c][Len(stream[c])].part = Size

(* The server gets at most one picture for each scan of a connection, and  *)
(* none before its scan.                                                   *)
OnePictureForAScan ==
  \A c \in Conn : \A n \in 0 .. Len(stream[c]) :
    LET Seen(k, p) == Cardinality({i \in 1 .. n : stream[c][i] = [kind |-> k, part |-> p]})
    IN  Seen("picture", 1) <= Seen("scan", Size)

(* The user interface calls the Java environment of another thread, or one *)
(* that is gone, only if a frame reached the phone before: it asked for a  *)
(* stop or a payment, or something was sent to everybody.                  *)
ForeignEnvNeedsFrame ==
  misused => broadcasts > 0 \/ \E c \in Conn : Asked(c) > 0

(* A connection that broke is noticed, unless select ended the receive     *)
(* thread; one that a later activity opened may be beyond the descriptors  *)
(* which the thread watches.                                               *)
LossIsNoticed ==
  \A c \in Conn :
    (iSocket = c /\ c \in covered /\ link[c] = "broken")
      ~> (iSocket # c \/ rpc = "ended")

(* A picture that is due is on its way to the server in the end, unless    *)
(* the camera is taken away or the connection is lost.                     *)
PictureComes ==
  \A c \in Conn :
    (ui = "idle" /\ camera /\ bIsConnect /\ bIsNeedToSend /\ iSocket = c)
      ~> (~camera \/ link[c] # "up" \/ iSocket # c
           \/ [kind |-> "picture", part |-> Size] \in {stream[c][i] : i \in DOMAIN stream[c]})
=============================================================================
