----------------------------- MODULE ServerStart -----------------------------
(***************************************************************************)
(* How the server starts: the console of testbin/main.cpp calls            *)
(* CServerControlInit (serverControl/ServerControl.cpp), which opens the   *)
(* database and two TCP servers (network/TCPServerHandle.cpp), and closes  *)
(* the first one again when the second cannot be opened.                   *)
(*                                                                         *)
(* The main thread is the console.  A server that has been created has an  *)
(* accept thread at once, so that connections and messages arrive while    *)
(* the start is still going on.  A start that fails leaves objects behind  *)
(* whose lock was never created; what using such a lock does is undefined. *)
(***************************************************************************)
EXTENDS Integers

CONSTANTS
  Client,      (* devices and phones that want to connect                   *)
  ServerOf,    (* the server each of them dials                             *)
  MaxCommands  (* bound on the commands typed at the console                *)

(* pTcpServerForRfid and pTcpServerForUserAndDisDevs, created in this      *)
(* order.                                                                  *)
Server == {"rfid", "user"}
INVALID_SOCKET == -1
SOCKET == 3        (* the descriptor of a listening socket: any above 0     *)

(* The port a server is asked to open; another one is any it may get.      *)
Asked(s) == IF s = "rfid" THEN 6000 ELSE 15566
OtherPort == 1
Port == {0, 6000, 15566, OtherPort}

ASSUME ClientAssumption == ServerOf \in [Client -> Server]
ASSUME CommandsAssumption == MaxCommands \in Nat

VARIABLES
  pc,               (* where the main thread is                             *)
  opening,          (* the server it is creating                            *)
  commands,         (* how many commands were typed                         *)
  created,          (* both TcpServer pointers are not NULL                 *)
  pCMysqlDB,        (* it is not NULL                                       *)
  wmMutex,          (* the lock of each server: "garbage" until created     *)
  iTcpServerSocket,
  usTcpServerPort,
  apply,            (* where the accept thread of each server is            *)
  accepted,         (* the connections its AddTcpSession is about           *)
  slSessionList,
  session,          (* "none", "open" or "closed", of each client           *)
  message,          (* the first message of each client                     *)
  pBufferQueueNode, (* it is not NULL                                       *)
  control,          (* the control thread runs                              *)
  started           (* history: a start has returned TRUE                   *)

mainVars == <<pc, opening, commands, created, pCMysqlDB, started>>
serverVars == <<wmMutex, iTcpServerSocket, usTcpServerPort>>
threadVars == <<apply, accepted, slSessionList, session>>
queueVars == <<message, pBufferQueueNode, control>>
startVars == <<mainVars, serverVars, threadVars, queueVars>>

StartTypeOK ==
  /\ pc \in {"menu", "bind", "lock", "thread", "queue", "control",
             "clear", "close", "join", "crashed"}
  /\ opening \in Server
  /\ commands \in 0..MaxCommands
  /\ {created, pCMysqlDB, pBufferQueueNode, control, started} \subseteq BOOLEAN
  /\ wmMutex \in [Server -> {"garbage", "lock", "destroyed"}]
  /\ iTcpServerSocket \in [Server -> {INVALID_SOCKET, SOCKET}]
  /\ usTcpServerPort \in [Server -> Port]
  /\ apply \in [Server -> {"off", "test", "accept", "push"}]
  /\ accepted \in [Server -> SUBSET Client]
  /\ slSessionList \in [Server -> SUBSET Client]
  /\ session \in [Client -> {"none", "open", "closed"}]
  /\ message \in [Client -> {"none", "dropped", "queued", "handled"}]

StartInit ==
  /\ pc = "menu" /\ opening = "rfid" /\ commands = 0
  /\ created = FALSE /\ pCMysqlDB = FALSE /\ started = FALSE
  /\ wmMutex = [s \in Server |-> "garbage"]
  /\ iTcpServerSocket = [s \in Server |-> INVALID_SOCKET]
  /\ usTcpServerPort = [s \in Server |-> 0]
  /\ apply = [s \in Server |-> "off"]
  /\ accepted = [s \in Server |-> {}]
  /\ slSessionList = [s \in Server |-> {}]
  /\ session = [c \in Client |-> "none"]
  /\ message = [c \in Client |-> "none"]
  /\ pBufferQueueNode = FALSE /\ control = FALSE

(***************************************************************************)
(* The console and CServerControlInit.                                     *)
(***************************************************************************)
(* Using a lock.  One that was never created holds what was in the memory  *)
(* of the object: NULL, which WMLock and WMDestroyLock pass over, or       *)
(* anything, and the process ends.                                         *)
WMLockReturns(s) == wmMutex[s] \in {"lock", "garbage"}
WMLockCrashes(s) == wmMutex[s] # "lock"

Crash == pc' = "crashed"

Running == pc # "crashed"

(* Variant: the library may be initialised again.                          *)
MariaDBLibInitialze_Again == TRUE
MariaDBLibInitialze == ~pCMysqlDB

(* Command 1.  Objects that are missing are made, and then the database is *)
(* opened; connecting to it may fail.                                      *)
CServerControlInit ==
  /\ pc = "menu" /\ commands < MaxCommands
  /\ commands' = commands + 1
  /\ created' = TRUE
  /\ wmMutex' = IF created THEN wmMutex ELSE [s \in Server |-> "garbage"]
  /\ usTcpServerPort' = IF created THEN usTcpServerPort ELSE [s \in Server |-> 0]
  /\ pCMysqlDB' = TRUE
  /\ opening' = "rfid"
  /\ \/ MariaDBLibInitialze /\ pc' = "bind"
     \/ pc' = "menu"          (* ConnectToMariaDB failed, or the library was *)
                              (* initialised before                          *)
  /\ UNCHANGED <<started, iTcpServerSocket, threadVars, queueVars>>

(* Commands 2 to 6: a broadcast by the reader server under its lock.       *)
Broadcast ==
  /\ pc = "menu" /\ commands < MaxCommands
  /\ commands' = commands + 1
  /\ \/ ~created /\ UNCHANGED pc
     \/ created /\ WMLockReturns("rfid") /\ UNCHANGED pc
     \/ created /\ WMLockCrashes("rfid") /\ Crash
  /\ UNCHANGED <<opening, created, pCMysqlDB, started, serverVars, threadVars, queueVars>>

(* CreateSocket, BindBySocket and ListenBySocket.  A port that is taken is *)
(* replaced by any other one; any of the calls may fail for good.          *)
OpenSocket ==
  /\ pc = "bind"
  /\ \/ \E p \in {Asked(opening), OtherPort} :
          /\ iTcpServerSocket' = [iTcpServerSocket EXCEPT ![opening] = SOCKET]
          /\ usTcpServerPort' = [usTcpServerPort EXCEPT ![opening] = p]
          /\ pc' = "lock"
     \/ /\ iTcpServerSocket' = [iTcpServerSocket EXCEPT ![opening] = INVALID_SOCKET]
        /\ pc' = "clear"
        /\ UNCHANGED usTcpServerPort
  /\ UNCHANGED <<opening, commands, created, pCMysqlDB, started, wmMutex, threadVars, queueVars>>

CreateServerLock ==
  /\ pc = "lock"
  /\ wmMutex' = [wmMutex EXCEPT ![opening] = "lock"]
  /\ pc' = "thread"
  /\ UNCHANGED <<opening, commands, created, pCMysqlDB, started, iTcpServerSocket, usTcpServerPort,
                 threadVars, queueVars>>

(* Thread::start does nothing when the thread runs already.                *)
StartAcceptThread ==
  /\ pc = "thread"
  /\ apply' = [apply EXCEPT ![opening] = IF @ = "off" THEN "test" ELSE @]
  /\ \/ opening = "rfid" /\ opening' = "user" /\ pc' = "bind"
     \/ opening = "user" /\ pc' = "queue" /\ UNCHANGED opening
  /\ UNCHANGED <<commands, created, pCMysqlDB, started, serverVars, accepted, slSessionList, session,
                 queueVars>>

NewQueue ==
  /\ pc = "queue"
  /\ pBufferQueueNode' = TRUE
  /\ pc' = "control"
  /\ UNCHANGED <<opening, commands, created, pCMysqlDB, started, serverVars, threadVars, message, control>>

(* Variant: the thread of the control is not started.                      *)
StartControl_NoThread ==
  /\ pc = "control"
  /\ started' = TRUE
  /\ pc' = "menu"
  /\ UNCHANGED <<opening, commands, created, pCMysqlDB, serverVars, threadVars, queueVars>>
StartControl ==
  /\ pc = "control"
  /\ control' = TRUE
  /\ started' = TRUE
  /\ pc' = "menu"
  /\ UNCHANGED <<opening, commands, created, pCMysqlDB, serverVars, threadVars,
                 message, pBufferQueueNode>>

(***************************************************************************)
(* A start that fails closes the reader server, whichever server could not *)
(* be created, and deletes both.                                           *)
(***************************************************************************)
(* Variant: the servers are deleted at once.                               *)
ClearAllTcpSession_JustDelete ==
  /\ pc = "clear"
  /\ created' = FALSE /\ pc' = "menu"
  /\ UNCHANGED <<opening, commands, pCMysqlDB, started, serverVars, threadVars, queueVars>>
(* The threads of a session see its socket become -1 and end.              *)
ClearAllTcpSession ==
  /\ pc = "clear"
  /\ \/ /\ WMLockReturns("rfid")
        /\ session' = [c \in Client |-> IF c \in slSessionList["rfid"] THEN "closed" ELSE session[c]]
        /\ slSessionList' = [slSessionList EXCEPT !["rfid"] = {}]
        /\ pc' = "close"
     \/ WMLockCrashes("rfid") /\ Crash /\ UNCHANGED <<session, slSessionList>>
  /\ UNCHANGED <<opening, commands, created, pCMysqlDB, started, serverVars, apply, accepted, queueVars>>

CloseListener ==
  /\ pc = "close"
  /\ iTcpServerSocket' = [iTcpServerSocket EXCEPT !["rfid"] = INVALID_SOCKET]
  /\ pc' = "join"
  /\ UNCHANGED <<opening, commands, created, pCMysqlDB, started, wmMutex, usTcpServerPort,
                 threadVars, queueVars>>

(* The test of the accept loop.                                            *)
AcceptLoopGoesOn(s) == iTcpServerSocket[s] # 0

(* Variant: the accept thread is not waited for.                           *)
AcceptThreadEnded_NotAsked(s) == TRUE
AcceptThreadEnded(s) == apply[s] = "off" \/ (apply[s] = "test" /\ ~AcceptLoopGoesOn(s))

(* tTcpServerApplyThread.join, WMDestroyLock, and the deletion of both     *)
(* servers.  Nothing was ever started on the second one.                   *)
JoinAndDelete ==
  /\ pc = "join"
  /\ AcceptThreadEnded("rfid")
  /\ \/ created' = FALSE /\ pc' = "menu"
     \/ WMLockCrashes("rfid") /\ Crash /\ UNCHANGED created
  /\ wmMutex' = [wmMutex EXCEPT !["rfid"] = IF @ = "lock" THEN "destroyed" ELSE @]
  /\ UNCHANGED <<opening, commands, pCMysqlDB, started, iTcpServerSocket, usTcpServerPort,
                 threadVars, queueVars>>

(***************************************************************************)
(* The accept thread of server s.  It is inside accept on the socket it    *)
(* read before; the kernel completes that call even if the socket is       *)
(* closed meanwhile.  On -1 accept fails and the thread sleeps.            *)
(***************************************************************************)
EnterAccept(s) ==
  /\ Running
  /\ apply[s] = "test" /\ AcceptLoopGoesOn(s)
  /\ iTcpServerSocket[s] # INVALID_SOCKET
  /\ apply' = [apply EXCEPT ![s] = "accept"]
  /\ UNCHANGED <<mainVars, serverVars, accepted, slSessionList, session, queueVars>>

(* A client reaches a server only at the port it was built for.  Its       *)
(* session has both its threads before it is in the list.                  *)
Accept(s, c) ==
  /\ Running
  /\ apply[s] = "accept"
  /\ ServerOf[c] = s /\ session[c] = "none"
  /\ usTcpServerPort[s] = Asked(s)
  /\ session' = [session EXCEPT ![c] = "open"]
  /\ accepted' = [accepted EXCEPT ![s] = {c}]
  /\ apply' = [apply EXCEPT ![s] = "push"]
  /\ UNCHANGED <<mainVars, serverVars, slSessionList, queueVars>>

AddTcpSession(s) ==
  /\ Running
  /\ apply[s] = "push"
  /\ slSessionList' = [slSessionList EXCEPT ![s] = @ \union accepted[s]]
  /\ accepted' = [accepted EXCEPT ![s] = {}]
  /\ apply' = [apply EXCEPT ![s] = "test"]
  /\ UNCHANGED <<mainVars, serverVars, session, queueVars>>

(* ReceiveTcpHandleBuff on the first message of c.  Its test of the queue  *)
(* never applies, as pBuff is not NULL, and AddBitSideHead returns when    *)
(* there is no queue.                                                      *)
ReceiveTcpHandleBuff(c) ==
  /\ Running
  /\ session[c] = "open" /\ message[c] = "none"
  /\ message' = [message EXCEPT ![c] = IF pBufferQueueNode THEN "queued" ELSE "dropped"]
  /\ UNCHANGED <<mainVars, serverVars, threadVars, pBufferQueueNode, control>>

ThreadProcServerControl ==
  /\ Running
  /\ control
  /\ \E c \in Client :
       message[c] = "queued" /\ message' = [message EXCEPT ![c] = "handled"]
  /\ UNCHANGED <<mainVars, serverVars, threadVars, pBufferQueueNode, control>>

(* What the main thread does by itself once command 1 was typed.           *)
Start == \/ OpenSocket \/ CreateServerLock \/ StartAcceptThread \/ NewQueue \/ StartControl
         \/ ClearAllTcpSession \/ CloseListener \/ JoinAndDelete

StartNext ==
  \/ CServerControlInit \/ Broadcast \/ Start
  \/ \E s \in Server : EnterAccept(s) \/ AddTcpSession(s) \/ (\E c \in Client : Accept(s, c))
  \/ \E c \in Client : ReceiveTcpHandleBuff(c)
  \/ ThreadProcServerControl

StartSpec == StartInit /\ [][StartNext]_startVars

(* The threads run; nobody has to type or to connect.                      *)
FairStartSpec ==
  /\ StartSpec
  /\ WF_startVars(Start)
  /\ \A s \in Server : WF_startVars(EnterAccept(s)) /\ WF_startVars(AddTcpSession(s))
  /\ WF_startVars(ThreadProcServerControl)

(***************************************************************************)
(* What a start promises.                                                  *)
(***************************************************************************)
(* An accept thread never works on a server that was deleted, nor with a   *)
(* lock that does not exist: the lock is created before the thread and     *)
(* destroyed after it has ended (TCPServerHandle.cpp 61-63 and 78-81).     *)
AcceptLoopSafe ==
  \A s \in Server : apply[s] # "off" => created /\ wmMutex[s] = "lock"

(* Once a start has succeeded the server stays whole, whatever is typed    *)
(* afterwards: typing 1 again must not touch what runs (ServerControl.cpp  *)
(* 44-57).                                                                 *)
StartedIsWhole ==
  started =>
    /\ created /\ pBufferQueueNode /\ control
    /\ \A s \in Server : iTcpServerSocket[s] = SOCKET /\ apply[s] # "off"

(* A start that came back without success left no thread, no connection    *)
(* and no open port behind (ServerControl.cpp 79-98).                      *)
CleanFailure ==
  pc = "menu" /\ ~started =>
    /\ \A s \in Server : apply[s] = "off" /\ slSessionList[s] = {}
                         /\ iTcpServerSocket[s] = INVALID_SOCKET
    /\ \A c \in Client : session[c] # "open"

(* A message that came early enough to be queued before the control thread *)
(* exists is handled by it: there is no way to the queue without the       *)
(* thread (ServerControl.cpp 65-66).                                       *)
EarlyMessageHandled ==
  \A c \in Client : (message[c] = "queued") ~> (message[c] = "handled" \/ ~Running)

(* ServerControl.h:24 says what CServerControlInit returns: true is        *)
(* success and false is any other error.  So it returns, unless the        *)
(* process dies of the lock that was never created.                        *)
StartReturns == (pc = "bind") ~> (pc \in {"menu", "crashed"})
=============================================================================
