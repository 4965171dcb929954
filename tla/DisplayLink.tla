----------------------------- MODULE DisplayLink -----------------------------
(***************************************************************************)
(* The price display's side of its connection:                             *)
(* DisplaysJNI/network/TCPHandle.cpp with its send and its receive thread, *)
(* the interface of com_dwm_rfid_CInterface.cpp, and RfidActivity.java,    *)
(* whose user interface (UI) thread looks after the connection every five  *)
(* seconds and shows what the receive thread leaves in CreateQueue.java.   *)
(*                                                                         *)
(* A TCPHandle object is made for every connection and deleted before the  *)
(* next is made.  Close waits for the two threads only if it finds the     *)
(* connection open; a thread that is left behind uses a deleted object.    *)
(* The Mutex of CreateQueue never locks (Mutex.java 12-23 does not set     *)
(* bIsLock), so that adding to its ArrayList and taking from it may        *)
(* overlap, and then the list may hold anything the two can leave.         *)
(* The callback trusts what it receives: a text with a number it cannot    *)
(* read, or of a length it has no room for, may end the process.           *)
(***************************************************************************)
EXTENDS Integers, Sequences

CONSTANTS
  Phone,      (* the connections of phones the server names as destinations *)
  MaxConn,    (* bound on the connections made                              *)
  MaxFaults,  (* bound on what goes wrong in the network                    *)
  MaxFrames,  (* bound on the frames received                               *)
  NONE

ASSUME BoundAssumption == {MaxConn, MaxFaults, MaxFrames} \subseteq Nat
ASSUME PhoneAssumption == NONE \notin Phone /\ 0 \notin Phone

Handle == 1 .. MaxConn       (* the TCPHandle objects in their order        *)
Thread == Handle \X {"send", "recv"}
NULL == 0                    (* no object                                   *)

(* The delays of RfidActivity.java in seconds.                             *)
(* Variant: the registration comes after the next look at the connection.  *)
RegDelay_Late == 6
RegDelay == 3
TickDelay == 5

(* What the server sends: goods and the order to clear them; requests to   *)
(* pay, and what a reader read (EPC_DATA), which has the number of a       *)
(* request to pay and no destination; and pictures, which are not queued.  *)
(* A text has no number where NotifyForSystemString reads one, or the      *)
(* wrong size: more than the buffer of CallbackForSystemBuf holds, or less *)
(* than the picture it is said to be.                                      *)
Frame ==
  [kind : {"goods", "pay"}, dest : Phone \union {0}, text : {"good", "noNumber", "wrongSize"}]
    \union [kind : {"other"}, dest : Phone, text : {"good", "wrongSize"}]

VARIABLES
  pTCPHandle,   (* the current object, or NULL                              *)
  made,         (* how many objects were made                               *)
  open,         (* the objects whose iSocket is not INVALID_SOCKET          *)
  threads,      (* the threads that have not ended                          *)
  broken,       (* the connections that were lost                           *)
  faults,
  registered,   (* how often the display registered on each connection      *)
  ulDest,       (* of each object                                           *)
  sendQueue,    (* the confirmations queued at each object                  *)
  received,     (* how many frames arrived                                  *)
  unreadable,   (* history: one that was not good ended the process         *)
  adding,       (* the item each receive thread is adding to cQueue         *)
  overlapped,   (* the item the UI took from cQueue during an addition      *)
  cQueue,       (* items and holes (NONE)                                   *)
  draws,        (* drawThread's posts that have not run                     *)
  ui,           (* where the UI thread is                                   *)
  tick, regs,   (* seconds until RuningThread and the posts of TimeThread   *)
  shown,        (* history: the last item taken from cQueue                 *)
  skippedJoin   (* history: the objects Close did not wait for              *)

linkVars == <<pTCPHandle, made, open, threads, broken, faults, registered, skippedJoin>>
screenVars == <<received, unreadable, adding, overlapped, cQueue, draws, shown>>
uiVars == <<ui, tick, regs>>
vars == <<linkVars, ulDest, sendQueue, screenVars, uiVars>>

Item == [n : 1 .. MaxFrames, kind : {"goods", "pay"}, asker : Phone \union {0}, via : Handle]
Confirmation == [dest : Phone \union {0}, asker : Phone \union {0}, quiet : BOOLEAN]

(* Every variable holds a value of its kind.                               *)
TypeOK ==
  /\ pTCPHandle \in 0 .. made /\ made \in 0 .. MaxConn
  /\ open \subseteq Handle /\ broken \subseteq Handle /\ skippedJoin \subseteq Handle
  /\ threads \subseteq Thread
  /\ faults \in 0 .. MaxFaults
  /\ registered \in [Handle -> Nat]
  /\ ulDest \in [Handle -> Phone \union {0}]
  /\ sendQueue \in [Handle -> Seq(Confirmation)]
  /\ received \in 0 .. MaxFrames /\ shown \in 0 .. MaxFrames
  /\ unreadable \in BOOLEAN
  /\ adding \in [Handle -> Item \union {NONE}]
  /\ overlapped \in Item \union {NONE}
  /\ cQueue \in Seq(Item \union {NONE})
  /\ draws \in Nat
  /\ ui \in {"idle", "close", "join", "reopen", "crashed"}
  /\ tick \in 0 .. TickDelay /\ regs \in Seq(0 .. RegDelay)

Init ==
  /\ pTCPHandle = NULL /\ made = 0
  /\ open = {} /\ threads = {} /\ broken = {} /\ skippedJoin = {}
  /\ faults = 0
  /\ registered = [h \in Handle |-> 0]
  /\ ulDest = [h \in Handle |-> 0]
  /\ sendQueue = [h \in Handle |-> <<>>]
  /\ received = 0 /\ shown = 0 /\ unreadable = FALSE
  /\ adding = [h \in Handle |-> NONE]
  /\ overlapped = NONE /\ cQueue = <<>> /\ draws = 0
  /\ ui = "idle" /\ tick = 1 /\ regs = <<>>     (* onCreate, 160            *)

Running == ui # "crashed"
Exists(h) == h = pTCPHandle
Threads(h) == threads \intersect {<<h, "send">>, <<h, "recv">>}
Fault == faults < MaxFaults /\ faults' = faults + 1

(***************************************************************************)
(* The UI thread: timers in the order of their times.                      *)
(***************************************************************************)
RegDue == IF regs = <<>> THEN FALSE ELSE regs[1] = 0

(* Time passes until the next timer is due; what the threads and the       *)
(* network do meanwhile comes before.                                      *)
NextDue == IF regs = <<>> \/ tick < regs[1] THEN tick ELSE regs[1]

Elapse ==
  /\ Running
  /\ tick > 0 /\ ~RegDue
  /\ tick' = tick - NextDue
  /\ regs' = [i \in 1 .. Len(regs) |-> regs[i] - NextDue]
  /\ UNCHANGED <<linkVars, ulDest, sendQueue, screenVars, ui>>

(* TimeThread and TCPHandle::RegardToServer: what is sent on a lost        *)
(* connection does not arrive, and nobody asks for the result.             *)
RegardToServer ==
  /\ ui = "idle" /\ RegDue
  /\ regs' = Tail(regs)
  /\ registered' = IF pTCPHandle \in open \ broken
                   THEN [registered EXCEPT ![pTCPHandle] = @ + 1] ELSE registered
  /\ UNCHANGED <<pTCPHandle, made, open, threads, broken, faults, skippedJoin, ulDest, sendQueue,
                 screenVars, ui, tick>>

TickDue == ui = "idle" /\ tick = 0 /\ ~RegDue

(* RuningThread: TCPHandle::IsConnected sends 48 bytes itself.             *)
IsConnected ==
  /\ TickDue
  /\ pTCPHandle \in open
  /\ tick' = TickDelay
  /\ UNCHANGED <<linkVars, ulDest, sendQueue, screenVars, ui, regs>>

(* No object, a socket that was given up, or a lost connection.            *)
NotConnected ==
  /\ TickDue
  /\ pTCPHandle \notin open \/ pTCPHandle \in broken
  /\ ui' = "close"
  /\ UNCHANGED <<linkVars, ulDest, sendQueue, screenVars, tick, regs>>

(* A send that took more than a second: the speed is 0, line 147.          *)
SlowIsNotConnected ==
  /\ TickDue
  /\ pTCPHandle \in open \ broken
  /\ Fault
  /\ ui' = "close"
  /\ UNCHANGED <<pTCPHandle, made, open, threads, broken, registered, skippedJoin, ulDest,
                 sendQueue, screenVars, tick, regs>>

(* TCPHandle::Close.                                                       *)
Close ==
  /\ ui = "close"
  /\ open' = open \ {pTCPHandle}
  /\ \/ pTCPHandle \in open /\ ui' = "join" /\ UNCHANGED skippedJoin
     \/ /\ pTCPHandle \notin open
        /\ ui' = "reopen"
        /\ skippedJoin' = skippedJoin \union ({pTCPHandle} \ {NULL})
  /\ UNCHANGED <<pTCPHandle, made, threads, broken, faults, registered, ulDest, sendQueue,
                 screenVars, tick, regs>>

Join ==
  /\ ui = "join"
  /\ Threads(pTCPHandle) = {}
  /\ ui' = "reopen"
  /\ UNCHANGED <<linkVars, ulDest, sendQueue, screenVars, tick, regs>>

(* Variant: nothing posts the registration.                                *)
ConnectToServer_NoPost ==
  /\ ui = "reopen" /\ made < MaxConn
  /\ made' = made + 1
  /\ pTCPHandle' = made + 1
  /\ open' = open \union {made + 1}
  /\ threads' = threads \union ({made + 1} \X {"send", "recv"})
  /\ tick' = TickDelay
  /\ ui' = "idle"
  /\ UNCHANGED <<regs, faults, broken, registered, skippedJoin, ulDest, sendQueue, screenVars>>

(* The rest of ConnectToServer: the old object is deleted, and a new one   *)
(* made and connected.  RuningThread posts itself again behind TimeThread. *)
ConnectToServer ==
  /\ ui = "reopen" /\ made < MaxConn
  /\ made' = made + 1
  /\ pTCPHandle' = made + 1
  /\ \/ /\ open' = open \union {made + 1}
        /\ threads' = threads \union ({made + 1} \X {"send", "recv"})
        /\ regs' = Append(regs, RegDelay)
        /\ UNCHANGED faults
     \/ Fault /\ UNCHANGED <<open, threads, regs>>
  /\ tick' = TickDelay
  /\ ui' = "idle"
  /\ UNCHANGED <<broken, registered, skippedJoin, ulDest, sendQueue, screenVars>>

(* RequestToPay and TCPHandle::SendData, for an item of cQueue.  quiet is  *)
(* history: no frame came after the one that is confirmed, and it came     *)
(* through the same connection.                                            *)
Confirm(item) ==
  LET c == [dest |-> ulDest[pTCPHandle], asker |-> item.asker,
            quiet |-> item.n = received /\ item.via = pTCPHandle]
  IN  sendQueue' = IF pTCPHandle \in open
                   THEN [sendQueue EXCEPT ![pTCPHandle] = Append(@, c)] ELSE sendQueue

(* Variant: the newest item is taken.                                      *)
TakenIndex_Last == Len(cQueue)
TakenIndex == 1

NothingToTake == IF cQueue = <<>> THEN TRUE ELSE cQueue[TakenIndex] = NONE

(* drawThread: update and getBuffQueue.  There is one post for each item   *)
(* added, but an item may have been lost.                                  *)
Update ==
  /\ ui = "idle" /\ draws > 0 /\ ~NothingToTake
  /\ LET item == cQueue[TakenIndex] IN
       /\ shown' = item.n
       /\ IF item.kind = "pay" THEN Confirm(item) ELSE UNCHANGED sendQueue
       /\ overlapped' = IF \E h \in Handle : adding[h] # NONE THEN item ELSE overlapped
  /\ cQueue' = [i \in 1 .. Len(cQueue) - 1 |-> cQueue[IF i < TakenIndex THEN i ELSE i + 1]]
  /\ draws' = draws - 1
  /\ UNCHANGED <<linkVars, ulDest, received, unreadable, adding, uiVars>>

(* getBuffQueue returns null, and update uses it.                          *)
UpdateNull ==
  /\ ui = "idle" /\ draws > 0 /\ NothingToTake
  /\ ui' = "crashed"
  /\ UNCHANGED <<linkVars, ulDest, sendQueue, screenVars, tick, regs>>

(***************************************************************************)
(* The threads of object h.                                                *)
(***************************************************************************)
Reading(h) == Running /\ Exists(h) /\ <<h, "recv">> \in threads /\ adding[h] = NONE

(* Variant: the destination of the first frame is kept.                    *)
NewDest_First(h, f) == IF ulDest[h] = 0 THEN f.dest ELSE ulDest[h]
NewDest(h, f) == f.dest

(* What CallbackForSystemBuf hands to the list.                            *)
Queued(f) == f.kind \in {"goods", "pay"}

(* OnReceivedData takes the destination of every frame and hands the frame *)
(* to CallbackForSystemBuf; for goods and payments SetPayTextView begins   *)
(* AddBuffQueue.                                                           *)
HandOver(h, f) ==
  /\ adding' = IF Queued(f) THEN [adding EXCEPT ![h] = [n |-> received + 1, kind |-> f.kind,
                                                      asker |-> f.dest, via |-> h]]
               ELSE adding
  /\ UNCHANGED <<ui, unreadable>>

(* Integer.parseInt throws, nothing is queued, and the exception is still  *)
(* pending when the thread detaches, which ends the process.  What a copy  *)
(* beyond a buffer does is undefined: the process ends or goes on.         *)
OnReceivedFrame(h, f) ==
  /\ Reading(h) /\ h \in open \ broken /\ received < MaxFrames
  /\ received' = received + 1
  /\ ulDest' = [ulDest EXCEPT ![h] = NewDest(h, f)]
  /\ \/ f.text # "noNumber" /\ HandOver(h, f)
     \/ f.text # "good" /\ ui' = "crashed" /\ unreadable' = TRUE /\ UNCHANGED adding
  /\ UNCHANGED <<linkVars, sendQueue, overlapped, cQueue, draws, shown, tick, regs>>

(* The list after an addition.  Once a removal has overlapped one, the     *)
(* item may be forgotten or stand behind a slot the removal cleared, or    *)
(* the item taken may be back, when the removal worked on the array that   *)
(* the addition was replacing.                                             *)
AfterAdd(item) ==
  {Append(cQueue, item)}
    \union (IF overlapped = NONE THEN {}
             ELSE {cQueue, cQueue \o <<NONE, item>>, <<overlapped>> \o Append(cQueue, item)})

(* Variant: drawThread is posted before the item is added.                 *)
AddBuffQueue_PostFirst(h) ==
  /\ Running /\ Exists(h)
  /\ adding[h] # NONE
  /\ \/ draws' = draws + 1 /\ draws = Len(cQueue) /\ UNCHANGED <<cQueue, adding>>
     \/ /\ draws # Len(cQueue)
        /\ cQueue' \in AfterAdd(adding[h])
        /\ adding' = [adding EXCEPT ![h] = NONE]
        /\ UNCHANGED draws
  /\ UNCHANGED <<linkVars, ulDest, sendQueue, received, unreadable, overlapped, shown, uiVars>>

(* SetPayTextView: the item is added, then drawThread is posted.           *)
AddBuffQueue(h) ==
  /\ Running /\ Exists(h)
  /\ adding[h] # NONE
  /\ cQueue' \in AfterAdd(adding[h])
  /\ adding' = [adding EXCEPT ![h] = NONE]
  /\ draws' = draws + 1
  /\ UNCHANGED <<linkVars, ulDest, sendQueue, received, unreadable, overlapped, shown, uiVars>>

(* recv reports the end of a lost connection.                              *)
ReceiveEnds(h) ==
  /\ Reading(h) /\ h \in open \intersect broken
  /\ open' = open \ {h}
  /\ threads' = threads \ {<<h, "recv">>}
  /\ UNCHANGED <<pTCPHandle, made, broken, faults, registered, skippedJoin, ulDest, sendQueue,
                 screenVars, uiVars>>

(* select fails on a descriptor found in igClientPendingCount, which       *)
(* nothing initialises (line 280); the socket is kept.                     *)
SelectFails(h) ==
  /\ Reading(h) /\ h \in open
  /\ Fault
  /\ threads' = threads \ {<<h, "recv">>}
  /\ UNCHANGED <<pTCPHandle, made, open, broken, registered, skippedJoin, ulDest, sendQueue,
                 screenVars, uiVars>>

(* Sendfunc sends a frame, or gives a lost connection up.                  *)
SendFrame(h) ==
  /\ Running /\ Exists(h)
  /\ <<h, "send">> \in threads /\ h \in open /\ sendQueue[h] # <<>>
  /\ sendQueue' = [sendQueue EXCEPT ![h] = Tail(@)]
  /\ open' \in {open, open \ broken}
  /\ UNCHANGED <<pTCPHandle, made, threads, broken, faults, registered, skippedJoin, ulDest,
                 screenVars, uiVars>>

(* The loops end when they see INVALID_SOCKET.                             *)
LoopEnds(h, t) ==
  /\ Running /\ Exists(h)
  /\ <<h, t>> \in threads /\ h \notin open
  /\ t = "recv" => adding[h] = NONE
  /\ threads' = threads \ {<<h, t>>}
  /\ UNCHANGED <<pTCPHandle, made, open, broken, faults, registered, skippedJoin, ulDest,
                 sendQueue, screenVars, uiVars>>

(* A thread whose object was deleted reads memory that is not its own: it  *)
(* ends, or the process does.                                              *)
Stray(h, t) == <<h, t>> \in threads /\ ~Exists(h)
StrayThread(h, t) ==
  /\ Running /\ Stray(h, t)
  /\ threads' = threads \ {<<h, t>>}
  /\ adding' = IF t = "recv" THEN [adding EXCEPT ![h] = NONE] ELSE adding
  /\ ui' \in {ui, "crashed"}
  /\ UNCHANGED <<pTCPHandle, made, open, broken, faults, registered, skippedJoin, ulDest,
                 sendQueue, received, unreadable, overlapped, cQueue, draws, shown, tick, regs>>

(* The network loses the connection.                                       *)
Break(h) ==
  /\ Running /\ h \in open \ broken
  /\ Fault
  /\ broken' = broken \union {h}
  /\ UNCHANGED <<pTCPHandle, made, open, threads, registered, skippedJoin, ulDest, sendQueue,
                 screenVars, uiVars>>

Ui == \/ Elapse \/ RegardToServer \/ IsConnected \/ NotConnected \/ Close \/ Join
      \/ ConnectToServer

Next ==
  \/ Ui \/ SlowIsNotConnected \/ Update \/ UpdateNull
  \/ \E h \in Handle :
       \/ \E f \in Frame : OnReceivedFrame(h, f)
       \/ AddBuffQueue(h) \/ ReceiveEnds(h) \/ SelectFails(h) \/ SendFrame(h) \/ Break(h)
       \/ \E t \in {"send", "recv"} : LoopEnds(h, t) \/ StrayThread(h, t)

Spec == Init /\ [][Next]_vars

(* The timers run, the threads go on, and sends on a lost connection fail  *)
(* in the end.                                                             *)
FairSpec ==
  /\ Spec
  /\ WF_vars(Ui)
  /\ SF_vars(NotConnected)
  /\ WF_vars(Update) /\ WF_vars(UpdateNull)
  /\ \A h \in Handle :
       /\ WF_vars(AddBuffQueue(h)) /\ WF_vars(ReceiveEnds(h)) /\ WF_vars(SendFrame(h))
       /\ \A t \in {"send", "recv"} : WF_vars(LoopEnds(h, t)) /\ WF_vars(StrayThread(h, t))

(***************************************************************************)
(* Properties.                                                             *)
(***************************************************************************)
(* The display registers at most once on a connection, however often it    *)
(* reconnects: the posted registration belongs to the connection it was    *)
(* posted for (RfidActivity.java 84-96).                                   *)
OncePerConnection == \A h \in Handle : registered[h] <= 1

(* A look at the connection never keeps one on which the display has not   *)
(* registered, except one that is lost (RfidActivity.java 57-82).          *)
KeptIsRegistered ==
  [][tick = 0 /\ tick' = TickDelay /\ pTCPHandle' = pTCPHandle
       => registered[pTCPHandle] = 1 \/ pTCPHandle \in broken]_vars

(* When nothing else is received meanwhile and the connection stays, a     *)
(* payment is confirmed to the phone that asked (TCPHandle.cpp 216, 420).  *)
QuietConfirmation ==
  \A h \in Handle : \A i \in 1 .. Len(sendQueue[h]) :
    sendQueue[h][i].quiet => sendQueue[h][i].dest = sendQueue[h][i].asker

(* As long as no removal overlapped an addition, what arrives is shown     *)
(* once and in the order of arrival, across reconnections too              *)
(* (CreateQueue.java, RfidActivity.java 233-241).                          *)
ShownInOrder == [][shown' # shown /\ overlapped = NONE => shown' > shown]_vars

(* The display crashes only from such an overlap, from a thread that Close *)
(* did not wait for, or in the callback for a frame it cannot read:        *)
(* drawThread is posted after the item is added, once for each, so that it *)
(* otherwise finds one (RfidActivity.java 181).                            *)
CrashHasCause == ui = "crashed" => overlapped # NONE \/ skippedJoin # {} \/ unreadable

(* Once the network has stopped failing, the display is connected and      *)
(* registered for good, or has crashed.                                    *)
Served == pTCPHandle \in open \ broken /\ registered[pTCPHandle] = 1
Recovers == <>[]Served \/ <>(ui = "crashed")
=============================================================================
