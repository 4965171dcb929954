------------------------- MODULE DisplayLink_proofs --------------------------
(***************************************************************************)
(* Proofs about DisplayLink, for any phones and any number of connections, *)
(* faults and frames.                                                      *)
(***************************************************************************)
EXTENDS DisplayLink, TLAPS

USE BoundAssumption, PhoneAssumption

(* The disjuncts of Next, each by itself.                                  *)
LEMMA Steps ==
  ASSUME [Next]_vars
  PROVE  \/ Elapse \/ RegardToServer \/ IsConnected \/ NotConnected \/ SlowIsNotConnected
         \/ Close \/ Join \/ ConnectToServer \/ Update \/ UpdateNull
         \/ \E h \in Handle, f \in Frame : OnReceivedFrame(h, f)
         \/ \E h \in Handle : AddBuffQueue(h)
         \/ \E h \in Handle : ReceiveEnds(h)
         \/ \E h \in Handle : SelectFails(h)
         \/ \E h \in Handle : SendFrame(h)
         \/ \E h \in Handle : Break(h)
         \/ \E h \in Handle, t \in {"send", "recv"} : LoopEnds(h, t)
         \/ \E h \in Handle, t \in {"send", "recv"} : StrayThread(h, t)
         \/ UNCHANGED vars
  BY DEF Next, Ui

-----------------------------------------------------------------------------
(* The timers.                                                             *)

(* A post of TimeThread is two seconds ahead of RuningThread, so that it   *)
(* has run before the connection it was made for is looked at; the         *)
(* connections above "made" are new, and one that stands and has no post   *)
(* before it has been registered.                                          *)
Timers ==
  /\ pTCPHandle = made
  /\ regs = <<>> \/ (Len(regs) = 1 /\ tick = regs[1] + 2)
  /\ ui \in {"close", "join", "reopen"} => regs = <<>>
  /\ regs # <<>> => pTCPHandle # NULL /\ registered[pTCPHandle] = 0
  /\ open \subseteq 1 .. made
  /\ \A h \in Handle : registered[h] <= 1
  /\ \A h \in Handle : h > made => registered[h] = 0 /\ adding[h] = NONE
  /\ pTCPHandle \in open \ broken /\ regs = <<>> => registered[pTCPHandle] = 1

Timed == TypeOK /\ Timers

(* The display starts in Timed.                                            *)
LEMMA InitTimed == Init => Timed
  <1> SUFFICES ASSUME Init PROVE Timed
    OBVIOUS
  <1>1. /\ <<>> \in Seq(0 .. RegDelay) /\ <<>> \in Seq(Confirmation)
        /\ <<>> \in Seq(Item \union {NONE})
    OBVIOUS
  <1>2. TypeOK
    <2>1. unreadable \in BOOLEAN
      BY ONLY Init DEF Init
    <2> QED
      BY <1>1, <2>1 DEF Init, TypeOK, NULL, TickDelay
  <1>3. Timers
    BY DEF Init, Timers, NULL
  <1> QED
    BY <1>2, <1>3 DEF Timed

(* Time: the post runs first, and never at the time of a look.             *)
LEMMA ElapseTimed == Timed /\ Elapse => Timed'
  <1> SUFFICES ASSUME Timed, Elapse PROVE Timed'
    OBVIOUS
  <1>1. /\ tick \in 0 .. 5 /\ regs \in Seq(0 .. 3) /\ tick > 0
        /\ regs = <<>> \/ (Len(regs) = 1 /\ tick = regs[1] + 2)
        /\ tick' = tick - NextDue
        /\ regs' = [i \in 1 .. Len(regs) |-> regs[i] - NextDue]
    BY DEF Timed, TypeOK, Timers, Elapse, TickDelay, RegDelay
  <1>2. /\ UNCHANGED <<pTCPHandle, made, open, threads, broken, faults, registered, skippedJoin>>
        /\ UNCHANGED <<ulDest, sendQueue, received, unreadable, adding, overlapped, cQueue>>
        /\ UNCHANGED <<draws, shown, ui>>
    BY DEF Elapse, linkVars, screenVars
  <1>3. /\ tick' \in 0 .. 5 /\ regs' \in Seq(0 .. 3)
        /\ regs' = <<>> \/ (Len(regs') = 1 /\ tick' = regs'[1] + 2)
        /\ regs = <<>> <=> regs' = <<>>
    <2>1. CASE regs = <<>>
      <3>1. NextDue = tick
        BY <2>1 DEF NextDue
      <3>2. regs' = <<>>
        BY <1>1, <2>1
      <3> QED
        BY <1>1, <2>1, <3>1, <3>2
    <2>2. CASE regs # <<>>
      <3>1. Len(regs) = 1 /\ tick = regs[1] + 2 /\ regs[1] \in 0 .. 3
        BY <1>1, <2>2
      <3>2. NextDue = regs[1]
        BY <2>2, <3>1 DEF NextDue
      <3>3. regs' = [i \in 1 .. 1 |-> regs[i] - regs[1]]
        BY <1>1, <3>1, <3>2
      <3>4. regs' = [i \in 1 .. 1 |-> 0]
        BY <3>1, <3>3
      <3>5. regs' = <<0>>
        BY <3>4
      <3> QED
        BY <1>1, <2>2, <3>1, <3>2, <3>5
    <2> QED
      BY <2>1, <2>2
  <1>4. TypeOK'
    BY <1>2, <1>3 DEF Timed, TypeOK, TickDelay, RegDelay
  <1>5. Timers'
    BY <1>2, <1>3 DEF Timed, Timers
  <1> QED
    BY <1>4, <1>5 DEF Timed

(* Timed is kept by RegardToServer.                                        *)
LEMMA RegardTimed == Timed /\ RegardToServer => Timed'
  <1> SUFFICES ASSUME Timed, RegardToServer PROVE Timed'
    OBVIOUS
  <1>1. /\ regs \in Seq(0 .. RegDelay) /\ regs # <<>> /\ Len(regs) = 1 /\ regs' = Tail(regs)
    BY DEF Timed, TypeOK, Timers, RegardToServer, RegDue
  <1>2. regs' = <<>> /\ regs' \in Seq(0 .. RegDelay)
    BY <1>1
  <1>3. /\ pTCPHandle \in Handle /\ registered[pTCPHandle] = 0
        /\ registered \in [Handle -> Nat]
    BY <1>1 DEF Timed, TypeOK, Timers, Handle, NULL
  <1>4. /\ registered' = IF pTCPHandle \in open \ broken
                         THEN [registered EXCEPT ![pTCPHandle] = 1] ELSE registered
    BY <1>3 DEF RegardToServer
  <1>5. /\ registered' \in [Handle -> Nat]
        /\ \A h \in Handle : h # pTCPHandle => registered'[h] = registered[h]
        /\ registered'[pTCPHandle] \in {0, 1}
        /\ pTCPHandle \in open \ broken => registered'[pTCPHandle] = 1
    BY <1>3, <1>4
  <1>6. UNCHANGED <<pTCPHandle, made, open, threads, broken, faults, skippedJoin, ulDest, sendQueue,
                    received, unreadable, adding, overlapped, cQueue, draws, shown, ui, tick>>
    BY DEF RegardToServer, screenVars
  <1>7. TypeOK'
    BY <1>2, <1>5, <1>6 DEF Timed, TypeOK
  <1>8. Timers'
    <2>1. \A h \in Handle : registered'[h] <= 1
      BY <1>5 DEF Timed, Timers
    <2>2. \A h \in Handle : h > made => registered'[h] = 0
      <3>1. made \in Nat /\ pTCPHandle = made
        BY DEF Timed, TypeOK, Timers
      <3> QED
        BY <1>5, <3>1 DEF Timed, Timers, Handle
    <2> QED
      BY <1>2, <1>5, <1>6, <2>1, <2>2 DEF Timed, Timers
  <1> QED
    BY <1>7, <1>8 DEF Timed

(* A look at the connection comes when no post waits.                      *)
LEMMA NoPostAtLook == Timed /\ TickDue => regs = <<>>
  <1> SUFFICES ASSUME Timed, TickDue, regs # <<>> PROVE FALSE
    OBVIOUS
  <1>1. tick = 0 /\ regs \in Seq(0 .. 3) /\ Len(regs) = 1 /\ tick = regs[1] + 2
    BY DEF Timed, TypeOK, Timers, TickDue, RegDelay
  <1>2. regs[1] \in 0 .. 3
    BY <1>1
  <1> QED
    BY <1>1, <1>2

(* Timed is kept by a look at the connection.                              *)
LEMMA LookTimed ==
  Timed /\ (IsConnected \/ NotConnected \/ SlowIsNotConnected) => Timed'
  <1> SUFFICES ASSUME Timed, IsConnected \/ NotConnected \/ SlowIsNotConnected PROVE Timed'
    OBVIOUS
  <1>1. regs = <<>>
    BY NoPostAtLook DEF IsConnected, NotConnected, SlowIsNotConnected
  <1>2. /\ UNCHANGED <<pTCPHandle, made, open, threads, broken, registered, skippedJoin>>
        /\ UNCHANGED <<ulDest, sendQueue, received, unreadable, adding, overlapped, cQueue>>
        /\ UNCHANGED <<draws, shown, regs>>
        /\ faults' \in 0 .. MaxFaults
        /\ tick' \in 0 .. TickDelay /\ ui' \in {"idle", "close"}
    BY DEF Timed, TypeOK, IsConnected, NotConnected, SlowIsNotConnected, linkVars, screenVars,
           TickDue, TickDelay, Fault
  <1>3. TypeOK'
    BY <1>2 DEF Timed, TypeOK
  <1>4. Timers'
    BY <1>1, <1>2 DEF Timed, Timers
  <1> QED
    BY <1>3, <1>4 DEF Timed

(* Timed is kept by a close and by the end of a thread.                    *)
LEMMA CloseTimed == Timed /\ (Close \/ Join) => Timed'
  <1> SUFFICES ASSUME Timed, Close \/ Join PROVE Timed'
    OBVIOUS
  <1>1. /\ UNCHANGED <<pTCPHandle, made, threads, broken, faults, registered>>
        /\ UNCHANGED <<ulDest, sendQueue, received, unreadable, adding, overlapped, cQueue>>
        /\ UNCHANGED <<draws, shown, tick, regs>>
        /\ open' \subseteq open /\ ui' \in {"join", "reopen"} /\ ui \in {"close", "join"}
    BY DEF Close, Join, linkVars, screenVars
  <1>2. skippedJoin' \subseteq Handle
    <2>1. {pTCPHandle} \ {NULL} \subseteq Handle
      BY DEF Timed, TypeOK, Handle, NULL
    <2>2. skippedJoin' \in {skippedJoin, skippedJoin \union ({pTCPHandle} \ {NULL})}
      BY DEF Close, Join, linkVars
    <2> QED
      BY <2>1, <2>2 DEF Timed, TypeOK
  <1>3. TypeOK'
    BY <1>1, <1>2 DEF Timed, TypeOK
  <1>4. Timers'
    BY <1>1 DEF Timed, Timers
  <1> QED
    BY <1>3, <1>4 DEF Timed

(* Timed is kept by a connect.                                             *)
LEMMA ConnectTimed == Timed /\ ConnectToServer => Timed'
  <1> SUFFICES ASSUME Timed, ConnectToServer PROVE Timed'
    OBVIOUS
  <1> DEFINE n == made + 1
  <1>1. made \in Nat /\ made < MaxConn /\ n \in Handle /\ MaxConn \in Nat
    BY DEF Timed, TypeOK, ConnectToServer, Handle
  <1>2. /\ made' = n /\ pTCPHandle' = n /\ tick' = 5 /\ ui' = "idle" /\ regs = <<>>
        /\ UNCHANGED <<broken, registered, skippedJoin, ulDest, sendQueue>>
        /\ UNCHANGED <<received, unreadable, adding, overlapped, cQueue, draws, shown>>
    BY DEF Timed, Timers, ConnectToServer, TickDelay, screenVars
  <1>3. \/ /\ open' = open \union {n} /\ threads' = threads \union ({n} \X {"send", "recv"})
           /\ regs' = Append(regs, 3) /\ UNCHANGED faults
        \/ Fault /\ UNCHANGED <<open, threads, regs>>
    BY DEF ConnectToServer, RegDelay
  <1>4. /\ open' \subseteq 1 .. n /\ open \subseteq 1 .. made
        /\ threads' \subseteq Thread /\ faults' \in 0 .. MaxFaults
    <2>1. open \subseteq 1 .. made
      BY DEF Timed, Timers
    <2>2. threads' \subseteq Thread
      BY <1>1, <1>3 DEF Timed, TypeOK, Thread
    <2>3. faults' \in 0 .. MaxFaults
      BY <1>3 DEF Timed, TypeOK, Fault
    <2>4. open' \subseteq 1 .. n
      <3>1. 1 .. made \subseteq 1 .. n /\ n \in 1 .. n
        BY <1>1
      <3>2. open' \in {open, open \union {n}}
        BY <1>3
      <3> HIDE DEF n
      <3> QED
        BY <2>1, <3>1, <3>2
    <2> QED
      BY <2>1, <2>2, <2>3, <2>4
  <1>5. regs' = <<3>> \/ (regs' = <<>> /\ UNCHANGED open)
    BY <1>2, <1>3
  <1>6. TypeOK'
    <2>1. regs' \in Seq(0 .. 3) /\ open' \subseteq Handle
      <3>1. 1 .. n \subseteq Handle
        BY <1>1 DEF Handle
      <3>2. <<3>> \in Seq(0 .. 3) /\ <<>> \in Seq(0 .. 3)
        OBVIOUS
      <3> QED
        BY <1>4, <1>5, <3>1, <3>2
    <2> QED
      BY <1>1, <1>2, <1>4, <2>1 DEF Timed, TypeOK, RegDelay, TickDelay, Handle
  <1>7. Timers'
    <2>1. registered[n] = 0
      BY <1>1 DEF Timed, Timers
    <2>2. /\ \A h \in Handle : registered[h] <= 1
          /\ \A h \in Handle : h > n => registered[h] = 0 /\ adding[h] = NONE
      BY <1>1 DEF Timed, Timers, Handle
    <2>3. regs' = <<>> => n \notin open'
      BY <1>1, <1>4, <1>5
    <2>4. regs' = <<>> \/ (Len(regs') = 1 /\ tick' = regs'[1] + 2)
      BY <1>2, <1>5
    <2>5. n # NULL
      BY <1>1 DEF NULL
    <2> HIDE DEF n
    <2> QED
      BY <1>2, <1>4, <2>1, <2>2, <2>3, <2>4, <2>5 DEF Timers
  <1> QED
    BY <1>6, <1>7 DEF Timed

(* The steps that leave the timers and the connections' registrations      *)
(* alone.                                                                  *)
LEMMA OthersKeepTimers ==
  ASSUME Timed, TypeOK', UNCHANGED <<pTCPHandle, made, registered, regs, tick>>,
         open' \subseteq open, broken \subseteq broken', ui' \in {ui, "crashed"},
         \A h \in Handle : h > made => adding'[h] = NONE
  PROVE  Timed'
  <1>1. Timers'
    BY DEF Timed, Timers
  <1> QED
    BY <1>1 DEF Timed

(* Timed is kept when an item is taken from the list.                      *)
LEMMA UpdateTimed == Timed /\ (Update \/ UpdateNull) => Timed'
  <1> SUFFICES ASSUME Timed, Update \/ UpdateNull PROVE Timed'
    OBVIOUS
  <1>1. /\ UNCHANGED <<pTCPHandle, made, open, threads, broken, faults, registered, skippedJoin>>
        /\ UNCHANGED <<ulDest, received, unreadable, adding, tick, regs>> /\ ui' \in {ui, "crashed"}
    BY DEF Update, UpdateNull, linkVars, screenVars, uiVars
  <1>2. CASE UpdateNull
    <2>1. TypeOK'
      BY <1>1, <1>2 DEF Timed, TypeOK, UpdateNull, screenVars
    <2> QED
      BY <1>1, <2>1, OthersKeepTimers DEF Timed, Timers
  <1>3. CASE Update
    <2> DEFINE item == cQueue[1]
    <2>1. /\ cQueue \in Seq(Item \union {NONE}) /\ cQueue # <<>> /\ item # NONE
          /\ draws > 0 /\ draws' = draws - 1 /\ shown' = item.n
          /\ cQueue' = [i \in 1 .. Len(cQueue) - 1 |-> cQueue[IF i < 1 THEN i ELSE i + 1]]
      BY <1>3 DEF Timed, TypeOK, Update, NothingToTake, TakenIndex
    <2>2. item \in Item
      BY <2>1
    <2>3. cQueue' \in Seq(Item \union {NONE})
      <3>1. Len(cQueue) \in Nat \ {0} /\ \A i \in 1 .. Len(cQueue) : cQueue[i] \in Item \union {NONE}
        BY <2>1
      <3>2. Len(cQueue) - 1 \in Nat
            /\ \A i \in 1 .. Len(cQueue) - 1 : i + 1 \in 1 .. Len(cQueue) /\ ~(i < 1)
        BY <3>1
      <3>3. cQueue' = [i \in 1 .. Len(cQueue) - 1 |-> cQueue[i + 1]]
        BY <2>1, <3>2
      <3>4. cQueue' \in [1 .. Len(cQueue) - 1 -> Item \union {NONE}]
        BY <3>1, <3>2, <3>3
      <3> QED
        BY <3>2, <3>4
    <2>4. /\ item.n \in 1 .. MaxFrames /\ item.asker \in Phone \union {0}
      BY <2>2 DEF Item
    <2>5. overlapped' \in Item \union {NONE}
      <3>1. overlapped' \in {item, overlapped}
        BY <1>3 DEF Update, TakenIndex
      <3> QED
        BY <2>2, <3>1 DEF Timed, TypeOK
    <2>6. sendQueue' \in [Handle -> Seq(Confirmation)]
      <3> DEFINE c == [dest |-> ulDest[pTCPHandle], asker |-> item.asker,
                       quiet |-> item.n = received /\ item.via = pTCPHandle]
      <3>1. pTCPHandle \in open => pTCPHandle \in Handle
        BY DEF Timed, TypeOK
      <3>2. pTCPHandle \in open => c \in Confirmation
        BY <2>4, <3>1 DEF Confirmation, Timed, TypeOK
      <3>3. sendQueue' = sendQueue \/
            (pTCPHandle \in open /\ sendQueue' = [sendQueue EXCEPT ![pTCPHandle] = Append(sendQueue[pTCPHandle], c)])
        BY <1>3 DEF Update, Confirm, TakenIndex
      <3> HIDE DEF c, item
      <3>4. sendQueue \in [Handle -> Seq(Confirmation)]
        BY DEF Timed, TypeOK
      <3>5. ASSUME pTCPHandle \in open
            PROVE  Append(sendQueue[pTCPHandle], c) \in Seq(Confirmation)
        <4>1. sendQueue[pTCPHandle] \in Seq(Confirmation)
          BY <3>1, <3>4, <3>5
        <4> QED
          BY <3>2, <3>5, <4>1
      <3> QED
        BY <3>1, <3>3, <3>4, <3>5
    <2>7. draws' \in Nat
      BY <2>1 DEF Timed, TypeOK
    <2> HIDE DEF item
    <2>8. UNCHANGED ui
      BY <1>3 DEF Update, uiVars
    <2>9. shown' \in 0 .. MaxFrames
      BY <2>1, <2>4
    <2>10. TypeOK'
      BY <1>1, <2>3, <2>5, <2>6, <2>7, <2>8, <2>9 DEF Timed, TypeOK
    <2> QED
      BY <1>1, <2>10, OthersKeepTimers DEF Timed, Timers
  <1> QED
    BY <1>2, <1>3

(* Timed is kept by a frame that arrives.                                  *)
LEMMA FrameTimed ==
  ASSUME Timed, NEW h \in Handle, NEW f \in Frame, OnReceivedFrame(h, f) PROVE Timed'
  <1> DEFINE item == [n |-> received + 1, kind |-> f.kind, asker |-> f.dest, via |-> h]
  <1>1. /\ UNCHANGED <<pTCPHandle, made, open, threads, broken, faults, registered, skippedJoin>>
        /\ UNCHANGED <<sendQueue, overlapped, cQueue, draws, shown, tick, regs>>
        /\ received < MaxFrames /\ received' = received + 1
        /\ h = pTCPHandle /\ h \in open
        /\ unreadable' \in {TRUE, unreadable} /\ ui' \in {ui, "crashed"}
    BY DEF OnReceivedFrame, HandOver, linkVars, Reading, Exists
  <1>2. f.dest \in Phone \union {0}
    BY DEF Frame
  <1>3. ulDest' \in [Handle -> Phone \union {0}]
    BY <1>2 DEF OnReceivedFrame, NewDest, Timed, TypeOK
  <1>4. Queued(f) => item \in Item
    BY <1>1, <1>2 DEF Queued, Item, Timed, TypeOK
  <1>5. adding' = adding \/ (Queued(f) /\ adding' = [adding EXCEPT ![h] = item])
    BY DEF OnReceivedFrame, HandOver
  <1> HIDE DEF item
  <1>6. adding' \in [Handle -> Item \union {NONE}]
    BY <1>4, <1>5 DEF Timed, TypeOK
  <1>7. received' \in 0 .. MaxFrames
    BY <1>1 DEF Timed, TypeOK
  <1>8. TypeOK'
    BY <1>1, <1>3, <1>6, <1>7 DEF Timed, TypeOK
  <1>9. \A g \in Handle : g > made => adding'[g] = NONE
    <2>1. ASSUME NEW g \in Handle, g > made PROVE g # h
      BY <1>1, <2>1 DEF Timed, Timers, TypeOK, Handle
    <2> QED
      BY <1>5, <2>1 DEF Timed, Timers, TypeOK
  <1> QED
    BY <1>1, <1>8, <1>9, OthersKeepTimers

(* Timed is kept when an item enters the list.                             *)
LEMMA AddTimed == ASSUME Timed, NEW h \in Handle, AddBuffQueue(h) PROVE Timed'
  <1>1. /\ UNCHANGED <<pTCPHandle, made, open, threads, broken, faults, registered, skippedJoin>>
        /\ UNCHANGED <<ulDest, sendQueue, received, unreadable, overlapped, shown, ui, tick, regs>>
        /\ adding' = [adding EXCEPT ![h] = NONE] /\ draws' = draws + 1
    BY DEF AddBuffQueue, linkVars, uiVars
  <1>2. cQueue' \in Seq(Item \union {NONE})
    <2>1. /\ cQueue \in Seq(Item \union {NONE})
          /\ adding[h] \in Item \union {NONE} /\ overlapped \in Item \union {NONE}
      BY DEF Timed, TypeOK
    <2> DEFINE item == adding[h]
    <2>2. cQueue' \in {Append(cQueue, item), cQueue, cQueue \o <<NONE, item>>,
                      <<overlapped>> \o Append(cQueue, item)}
      BY DEF AddBuffQueue, AfterAdd
    <2> HIDE DEF item
    <2>3. item \in Item \union {NONE}
      BY <2>1 DEF item
    <2>4. /\ Append(cQueue, item) \in Seq(Item \union {NONE})
          /\ <<NONE, item>> \in Seq(Item \union {NONE})
          /\ <<overlapped>> \in Seq(Item \union {NONE})
      BY <2>1, <2>3
    <2>5. /\ cQueue \o <<NONE, item>> \in Seq(Item \union {NONE})
          /\ <<overlapped>> \o Append(cQueue, item) \in Seq(Item \union {NONE})
      BY <2>1, <2>4
    <2> QED
      BY <2>1, <2>2, <2>4, <2>5
  <1>3. adding' \in [Handle -> Item \union {NONE}] /\ draws' \in Nat
    BY <1>1 DEF Timed, TypeOK
  <1>4. TypeOK'
    BY <1>1, <1>2, <1>3 DEF Timed, TypeOK
  <1>5. \A g \in Handle : g > made => adding'[g] = NONE
    BY <1>1 DEF Timed, Timers, TypeOK
  <1> QED
    BY <1>1, <1>4, <1>5, OthersKeepTimers

(* Timed is kept by a frame that is sent.                                  *)
LEMMA SendTimed == ASSUME Timed, NEW h \in Handle, SendFrame(h) PROVE Timed'
  <1>1. /\ UNCHANGED <<pTCPHandle, made, threads, broken, faults, registered, skippedJoin>>
        /\ UNCHANGED <<ulDest, received, unreadable, adding, overlapped, cQueue, draws, shown, ui>>
        /\ UNCHANGED <<tick, regs>>
        /\ open' \subseteq open /\ sendQueue[h] # <<>>
        /\ sendQueue' = [sendQueue EXCEPT ![h] = Tail(sendQueue[h])]
    BY DEF SendFrame, screenVars, uiVars
  <1>2. sendQueue' \in [Handle -> Seq(Confirmation)]
    <2>1. sendQueue[h] \in Seq(Confirmation)
      BY DEF Timed, TypeOK
    <2>2. Tail(sendQueue[h]) \in Seq(Confirmation)
      BY <1>1, <2>1
    <2> QED
      BY <1>1, <2>2 DEF Timed, TypeOK
  <1>3. TypeOK'
    BY <1>1, <1>2 DEF Timed, TypeOK
  <1> QED
    BY <1>1, <1>3, OthersKeepTimers DEF Timed, Timers

(* The receive thread's ends, and those of the loops; the network.         *)
LEMMA EndsTimed ==
  ASSUME Timed, NEW h \in Handle, NEW t \in {"send", "recv"},
         ReceiveEnds(h) \/ SelectFails(h) \/ Break(h) \/ LoopEnds(h, t) \/ StrayThread(h, t)
  PROVE  Timed'
  <1>1. /\ UNCHANGED <<pTCPHandle, made, registered, skippedJoin>>
        /\ UNCHANGED <<ulDest, sendQueue, received, unreadable, overlapped, cQueue, draws, shown>>
        /\ UNCHANGED <<tick, regs>>
        /\ open' \subseteq open /\ threads' \subseteq threads
        /\ broken' \in {broken, broken \union {h}} /\ ui' \in {ui, "crashed"}
        /\ adding' \in {adding, [adding EXCEPT ![h] = NONE]}
    BY DEF ReceiveEnds, SelectFails, Break, LoopEnds, StrayThread, screenVars, uiVars
  <1>2. faults' \in 0 .. MaxFaults
    BY DEF ReceiveEnds, SelectFails, Break, LoopEnds, StrayThread, Fault, Timed, TypeOK
  <1>3. adding' \in [Handle -> Item \union {NONE}]
    BY <1>1 DEF Timed, TypeOK
  <1>4. TypeOK'
    BY <1>1, <1>2, <1>3 DEF Timed, TypeOK
  <1>5. \A g \in Handle : g > made => adding'[g] = NONE
    BY <1>1 DEF Timed, Timers, TypeOK
  <1> QED
    BY <1>1, <1>4, <1>5, OthersKeepTimers

(* Timed is inductive.                                                     *)
LEMMA NextTimed == Timed /\ [Next]_vars => Timed'
  <1> SUFFICES ASSUME Timed, [Next]_vars PROVE Timed'
    OBVIOUS
  <1>1. CASE UNCHANGED vars
    BY <1>1 DEF Timed, TypeOK, Timers, vars, linkVars, screenVars, uiVars
  <1>2. "send" \in {"send", "recv"}
    OBVIOUS
  <1> QED
    BY <1>1, <1>2, Steps, ElapseTimed, RegardTimed, LookTimed, CloseTimed, ConnectTimed, UpdateTimed,
       FrameTimed, AddTimed, SendTimed, EndsTimed

(* Timed holds in every state.                                             *)
LEMMA AlwaysTimed == Spec => []Timed
  BY InitTimed, NextTimed, PTL DEF Spec

(* The variables keep their kinds; no timer is ever late.                  *)
THEOREM TypeCorrect == Spec => []TypeOK
  <1>1. Timed => TypeOK
    BY DEF Timed
  <1> QED
    BY <1>1, AlwaysTimed, PTL

(* The display registers at most once on a connection, for any number of   *)
(* reconnections and whatever fails.                                       *)
THEOREM RegisteredOnce == Spec => []OncePerConnection
  <1>1. Timed => OncePerConnection
    BY DEF Timed, Timers, OncePerConnection
  <1> QED
    BY <1>1, AlwaysTimed, PTL

(* No look at the connection keeps one that stands and is not registered.  *)
THEOREM Kept == Spec => KeptIsRegistered
  <1> DEFINE Step == tick = 0 /\ tick' = TickDelay /\ pTCPHandle' = pTCPHandle
                       => registered[pTCPHandle] = 1 \/ pTCPHandle \in broken
  <1>1. Timed /\ [Next]_vars => [Step]_vars
    <2> SUFFICES ASSUME Timed, [Next]_vars, tick = 0, tick' = TickDelay, pTCPHandle' = pTCPHandle
                 PROVE  registered[pTCPHandle] = 1 \/ pTCPHandle \in broken
      BY DEF Step
    <2>1. tick' # tick /\ tick' # 0
      BY DEF TickDelay
    <2>2. CASE IsConnected
      <3>1. regs = <<>> /\ pTCPHandle \in open
        BY <2>2, NoPostAtLook DEF IsConnected
      <3> QED
        BY <3>1 DEF Timed, Timers
    <2>3. CASE ConnectToServer
      BY <2>3 DEF ConnectToServer, Timed, Timers, TypeOK
    <2>4. ~Elapse
      BY DEF Elapse
    <2>5. RegardToServer \/ NotConnected \/ SlowIsNotConnected \/ Close \/ Join \/ Update
            \/ UpdateNull \/ UNCHANGED vars => tick' = tick
      BY DEF RegardToServer, NotConnected, SlowIsNotConnected, Close, Join, Update, UpdateNull, vars,
             uiVars
    <2>6. \A h \in Handle, f \in Frame : OnReceivedFrame(h, f) => tick' = tick
      BY DEF OnReceivedFrame, uiVars
    <2>7. \A h \in Handle : AddBuffQueue(h) \/ ReceiveEnds(h) \/ SelectFails(h) \/ SendFrame(h)
                              \/ Break(h) => tick' = tick
      BY DEF AddBuffQueue, ReceiveEnds, SelectFails, SendFrame, Break, uiVars
    <2>8. \A h \in Handle, t \in {"send", "recv"} : LoopEnds(h, t) \/ StrayThread(h, t) => tick' = tick
      BY DEF LoopEnds, StrayThread, uiVars
    <2> QED
      BY <2>1, <2>2, <2>3, <2>4, <2>5, <2>6, <2>7, <2>8, Steps
  <1> QED
    BY <1>1, AlwaysTimed, PTL DEF Spec, KeptIsRegistered

-----------------------------------------------------------------------------
(* The list.                                                               *)

(* As long as no removal overlapped an addition: the posts of drawThread   *)
(* are as many as the items, the items stand in the order of arrival, none *)
(* was shown, and what the current receive thread adds came after them.    *)
Ordered ==
  overlapped = NONE =>
    /\ draws = Len(cQueue)
    /\ shown <= received
    /\ \A i \in 1 .. Len(cQueue) :
         cQueue[i] # NONE /\ shown < cQueue[i].n /\ cQueue[i].n <= received
    /\ \A i, j \in 1 .. Len(cQueue) : i < j => cQueue[i].n < cQueue[j].n
    /\ \A h \in Handle : h = pTCPHandle /\ adding[h] # NONE =>
         /\ shown < adding[h].n /\ adding[h].n <= received
         /\ \A i \in 1 .. Len(cQueue) : cQueue[i].n < adding[h].n

(* Until Close has left a thread behind, the threads are the current       *)
(* object's, and none is left when the object is deleted.                  *)
NoneLeft ==
  skippedJoin = {} =>
    /\ \A th \in threads : th[1] = pTCPHandle
    /\ ui = "reopen" => threads = {}

(* The steps that leave the list and its counters alone.                   *)
LEMMA ListKept ==
  ASSUME Ordered, UNCHANGED <<received, overlapped, cQueue, draws, shown>>,
         \A h \in Handle : adding'[h] \in {adding[h], NONE},
         \A h \in Handle : h = pTCPHandle' => h = pTCPHandle \/ adding'[h] = NONE
  PROVE  Ordered'
  BY DEF Ordered

(* Ordered is kept when an item is taken from the list.                    *)
LEMMA UpdateOrdered == Timed /\ Ordered /\ Update => Ordered'
  <1> SUFFICES ASSUME Timed, Ordered, Update, overlapped' = NONE PROVE Ordered'
    BY DEF Ordered
  <1> DEFINE item == cQueue[1]
  <1>1. /\ cQueue \in Seq(Item \union {NONE}) /\ cQueue # <<>> /\ item # NONE
        /\ draws' = draws - 1 /\ shown' = item.n
        /\ cQueue' = [i \in 1 .. Len(cQueue) - 1 |-> cQueue[IF i < 1 THEN i ELSE i + 1]]
        /\ UNCHANGED <<received, adding, pTCPHandle>>
    BY DEF Timed, TypeOK, Update, NothingToTake, TakenIndex, linkVars
  <1>2. overlapped = NONE /\ \A h \in Handle : adding[h] = NONE
    BY <1>1 DEF Update, TakenIndex
  <1>3. /\ Len(cQueue) \in Nat \ {0} /\ Len(cQueue) - 1 \in Nat
        /\ \A i \in 1 .. Len(cQueue) - 1 : i + 1 \in 1 .. Len(cQueue) /\ ~(i < 1)
    BY <1>1
  <1>4. cQueue' = [i \in 1 .. Len(cQueue) - 1 |-> cQueue[i + 1]]
    BY <1>1, <1>3
  <1>5. Len(cQueue') = Len(cQueue) - 1
    BY <1>3, <1>4
  <1>6. /\ draws = Len(cQueue) /\ item.n <= received
        /\ \A i \in 1 .. Len(cQueue) :
             cQueue[i] # NONE /\ shown < cQueue[i].n /\ cQueue[i].n <= received
        /\ \A i, j \in 1 .. Len(cQueue) : i < j => cQueue[i].n < cQueue[j].n
    BY <1>2, <1>3 DEF Ordered
  <1>7. \A i \in 1 .. Len(cQueue) - 1 :
          /\ cQueue'[i] = cQueue[i + 1] /\ cQueue'[i] # NONE
          /\ item.n < cQueue'[i].n /\ cQueue'[i].n <= received
    BY <1>3, <1>4, <1>6
  <1>8. \A i, j \in 1 .. Len(cQueue) - 1 : i < j => cQueue'[i].n < cQueue'[j].n
    BY <1>3, <1>6, <1>7
  <1> HIDE DEF item
  <1> QED
    BY <1>1, <1>2, <1>5, <1>6, <1>7, <1>8 DEF Ordered

(* Ordered is kept by a frame that arrives.                                *)
LEMMA FrameOrdered ==
  ASSUME Timed, Ordered, NEW h \in Handle, NEW f \in Frame, OnReceivedFrame(h, f)
  PROVE  Ordered'
  <1> SUFFICES ASSUME overlapped' = NONE PROVE Ordered'
    BY DEF Ordered
  <1> DEFINE item == [n |-> received + 1, kind |-> f.kind, asker |-> f.dest, via |-> h]
  <1>1. /\ UNCHANGED <<pTCPHandle, overlapped, cQueue, draws, shown>>
        /\ received' = received + 1 /\ received \in Nat /\ shown \in Nat
        /\ h = pTCPHandle /\ adding[h] = NONE
        /\ adding \in [Handle -> Item \union {NONE}]
        /\ cQueue \in Seq(Item \union {NONE})
        /\ adding' \in {adding, [adding EXCEPT ![h] = item]}
    BY DEF OnReceivedFrame, HandOver, linkVars, Reading, Exists, Timed, TypeOK
  <1>2. /\ draws = Len(cQueue) /\ shown <= received
        /\ \A i \in 1 .. Len(cQueue) :
             cQueue[i] # NONE /\ shown < cQueue[i].n /\ cQueue[i].n <= received
        /\ \A i, j \in 1 .. Len(cQueue) : i < j => cQueue[i].n < cQueue[j].n
    BY <1>1 DEF Ordered
  <1>3. \A i \in 1 .. Len(cQueue) : cQueue[i].n \in Nat
    <2>1. \A i \in 1 .. Len(cQueue) : cQueue[i] \in Item
      BY <1>1, <1>2
    <2> QED
      BY <2>1 DEF Item
  <1>4. item.n = received + 1
    OBVIOUS
  <1> HIDE DEF item
  <1>5. \A g \in Handle : g = pTCPHandle /\ adding'[g] # NONE => adding'[g] = item
    BY <1>1
  <1> QED
    BY <1>1, <1>2, <1>3, <1>4, <1>5 DEF Ordered

(* Ordered is kept when an item enters the list.                           *)
LEMMA AddOrdered ==
  ASSUME Timed, Ordered, NEW h \in Handle, AddBuffQueue(h) PROVE Ordered'
  <1> SUFFICES ASSUME overlapped' = NONE PROVE Ordered'
    BY DEF Ordered
  <1> DEFINE item == adding[h]
  <1>1. /\ UNCHANGED <<pTCPHandle, received, shown, overlapped>> /\ overlapped = NONE
        /\ h = pTCPHandle /\ item # NONE
        /\ adding \in [Handle -> Item \union {NONE}]
        /\ adding' = [adding EXCEPT ![h] = NONE] /\ draws' = draws + 1
        /\ cQueue \in Seq(Item \union {NONE}) /\ cQueue' = Append(cQueue, item)
    BY DEF AddBuffQueue, AfterAdd, linkVars, Exists, Timed, TypeOK
  <1>2. /\ draws = Len(cQueue) /\ shown <= received
        /\ \A i \in 1 .. Len(cQueue) :
             cQueue[i] # NONE /\ shown < cQueue[i].n /\ cQueue[i].n <= received
        /\ \A i, j \in 1 .. Len(cQueue) : i < j => cQueue[i].n < cQueue[j].n
        /\ shown < item.n /\ item.n <= received
        /\ \A i \in 1 .. Len(cQueue) : cQueue[i].n < item.n
    BY <1>1 DEF Ordered
  <1>3. \A g \in Handle : g = pTCPHandle => adding'[g] = NONE
    BY <1>1
  <1>4. item \in Item \union {NONE}
    BY <1>1
  <1> HIDE DEF item
  <1>5. /\ Len(cQueue) \in Nat /\ Len(cQueue') = Len(cQueue) + 1
        /\ \A i \in 1 .. Len(cQueue) : cQueue'[i] = cQueue[i]
        /\ cQueue'[Len(cQueue) + 1] = item
    BY <1>1, <1>4
  <1>6. \A i \in 1 .. Len(cQueue') : i \in 1 .. Len(cQueue) \/ i = Len(cQueue) + 1
    BY <1>5
  <1>7. \A i \in 1 .. Len(cQueue') :
          cQueue'[i] # NONE /\ shown < cQueue'[i].n /\ cQueue'[i].n <= received
    BY <1>1, <1>2, <1>5, <1>6
  <1>8. \A i, j \in 1 .. Len(cQueue') : i < j => cQueue'[i].n < cQueue'[j].n
    <2> TAKE i, j \in 1 .. Len(cQueue')
    <2> HAVE i < j
    <2>1. i \in 1 .. Len(cQueue)
      BY <1>5
    <2>2. CASE j \in 1 .. Len(cQueue)
      BY <1>2, <1>5, <2>1, <2>2
    <2>3. CASE j = Len(cQueue) + 1
      BY <1>2, <1>5, <2>1, <2>3
    <2> QED
      BY <1>6, <2>2, <2>3
  <1> QED
    BY <1>1, <1>2, <1>3, <1>5, <1>7, <1>8 DEF Ordered

(* Ordered is inductive beside Timed.                                      *)
LEMMA NextOrdered == Timed /\ Ordered /\ [Next]_vars => Ordered'
  <1> SUFFICES ASSUME Timed, Ordered, [Next]_vars PROVE Ordered'
    OBVIOUS
  <1>1. adding \in [Handle -> Item \union {NONE}]
    BY DEF Timed, TypeOK
  <1>2. CASE Elapse \/ RegardToServer \/ IsConnected \/ NotConnected \/ SlowIsNotConnected
               \/ Close \/ Join \/ UpdateNull \/ UNCHANGED vars
    <2>1. UNCHANGED <<pTCPHandle, received, adding, overlapped, cQueue, draws, shown>>
      BY <1>2 DEF Elapse, RegardToServer, IsConnected, NotConnected, SlowIsNotConnected, Close, Join,
                  UpdateNull, vars, linkVars, screenVars
    <2> QED
      BY <2>1 DEF Ordered
  <1>3. CASE ConnectToServer
    <2>1. /\ UNCHANGED <<received, adding, overlapped, cQueue, draws, shown>>
          /\ pTCPHandle' = made + 1
      BY <1>3 DEF ConnectToServer, screenVars
    <2>2. \A h \in Handle : h = pTCPHandle' => adding'[h] = NONE
      BY <2>1 DEF Timed, Timers, TypeOK
    <2> QED
      BY <2>1, <2>2, ListKept
  <1>4. ASSUME NEW h \in Handle, ReceiveEnds(h) \/ SelectFails(h) \/ SendFrame(h) \/ Break(h)
        PROVE  Ordered'
    <2>1. UNCHANGED <<pTCPHandle, received, adding, overlapped, cQueue, draws, shown>>
      BY <1>4 DEF ReceiveEnds, SelectFails, SendFrame, Break, screenVars
    <2> QED
      BY <2>1 DEF Ordered
  <1>5. ASSUME NEW h \in Handle, NEW t \in {"send", "recv"}, LoopEnds(h, t) \/ StrayThread(h, t)
        PROVE  Ordered'
    <2>1. /\ UNCHANGED <<pTCPHandle, received, overlapped, cQueue, draws, shown>>
          /\ adding' \in {adding, [adding EXCEPT ![h] = NONE]}
      BY <1>5 DEF LoopEnds, StrayThread, screenVars
    <2>2. \A g \in Handle : adding'[g] \in {adding[g], NONE}
      BY <1>1, <2>1
    <2> QED
      BY <2>1, <2>2, ListKept
  <1> QED
    BY <1>2, <1>3, <1>4, <1>5, Steps, UpdateOrdered, FrameOrdered, AddOrdered

(* Ordered holds in every state.                                           *)
LEMMA AlwaysOrdered == Spec => []Ordered
  <1>1. Init => Ordered
    BY DEF Init, Ordered
  <1> QED
    BY <1>1, NextOrdered, AlwaysTimed, PTL DEF Spec

(* What arrives is shown once and in the order of arrival, for any number  *)
(* of frames and reconnections, until a removal overlaps an addition.      *)
THEOREM InOrder == Spec => ShownInOrder
  <1> DEFINE Step == shown' # shown /\ overlapped = NONE => shown' > shown
  <1>1. Timed /\ Ordered /\ [Next]_vars => [Step]_vars
    <2> SUFFICES ASSUME Timed, Ordered, [Next]_vars, shown' # shown, overlapped = NONE
                 PROVE  shown' > shown
      BY DEF Step
    <2>1. CASE Update
      <3>1. cQueue \in Seq(Item \union {NONE}) /\ cQueue # <<>> /\ shown' = cQueue[1].n
        BY <2>1 DEF Timed, TypeOK, Update, NothingToTake, TakenIndex
      <3>2. shown < cQueue[1].n
        BY <3>1 DEF Ordered
      <3>3. cQueue[1] \in Item
        BY <3>1 DEF Ordered
      <3>4. cQueue[1].n \in Nat /\ shown \in Nat
        BY <3>3 DEF Item, Timed, TypeOK
      <3> QED
        BY <3>1, <3>2, <3>4
    <2>2. Elapse \/ RegardToServer \/ IsConnected \/ NotConnected \/ SlowIsNotConnected \/ Close
            \/ Join \/ ConnectToServer \/ UpdateNull \/ UNCHANGED vars => shown' = shown
      BY DEF Elapse, RegardToServer, IsConnected, NotConnected, SlowIsNotConnected, Close, Join,
             ConnectToServer, UpdateNull, vars, screenVars
    <2>3. \A h \in Handle, f \in Frame : OnReceivedFrame(h, f) => shown' = shown
      BY DEF OnReceivedFrame
    <2>4. \A h \in Handle : AddBuffQueue(h) \/ ReceiveEnds(h) \/ SelectFails(h) \/ SendFrame(h)
                              \/ Break(h) => shown' = shown
      BY DEF AddBuffQueue, ReceiveEnds, SelectFails, SendFrame, Break, screenVars
    <2>5. \A h \in Handle, t \in {"send", "recv"} : LoopEnds(h, t) \/ StrayThread(h, t) => shown' = shown
      BY DEF LoopEnds, StrayThread, screenVars
    <2> QED
      BY <2>1, <2>2, <2>3, <2>4, <2>5, Steps
  <1> QED
    BY <1>1, AlwaysTimed, AlwaysOrdered, PTL DEF Spec, ShownInOrder

(* An empty list is taken from only after an overlap.                      *)
LEMMA PostFindsItem == Timed /\ Ordered /\ UpdateNull => overlapped # NONE
  <1> SUFFICES ASSUME Timed, Ordered, UpdateNull, overlapped = NONE PROVE FALSE
    OBVIOUS
  <1>1. draws > 0 /\ draws = Len(cQueue) /\ cQueue \in Seq(Item \union {NONE})
    BY DEF UpdateNull, Ordered, Timed, TypeOK
  <1>2. cQueue # <<>> /\ 1 \in 1 .. Len(cQueue)
    BY <1>1
  <1>3. cQueue[1] # NONE
    BY <1>2 DEF Ordered
  <1> QED
    BY <1>2, <1>3 DEF UpdateNull, NothingToTake, TakenIndex

Stopped == NoneLeft /\ CrashHasCause

(* Stopped is inductive beside Timed and Ordered.                          *)
LEMMA NextStopped == Timed /\ Ordered /\ Stopped /\ [Next]_vars => Stopped'
  <1> SUFFICES ASSUME Timed, Ordered, Stopped, [Next]_vars PROVE Stopped'
    OBVIOUS
  <1> USE DEF Stopped
  <1>1. CASE Elapse \/ RegardToServer \/ IsConnected \/ NotConnected \/ SlowIsNotConnected
               \/ UNCHANGED vars
    <2>1. /\ UNCHANGED <<pTCPHandle, threads, skippedJoin, overlapped, unreadable>>
          /\ ui' \in {ui, "close"}
      BY <1>1 DEF Elapse, RegardToServer, IsConnected, NotConnected, SlowIsNotConnected, vars,
                  linkVars, screenVars, uiVars
    <2> QED
      BY <2>1 DEF NoneLeft, CrashHasCause
  <1>2. CASE Close
    <2>1. /\ UNCHANGED <<pTCPHandle, threads, overlapped, unreadable>> /\ skippedJoin \subseteq skippedJoin'
          /\ ui' \in {"join", "reopen"}
          /\ ui' = "reopen" => skippedJoin' = skippedJoin \union ({pTCPHandle} \ {NULL})
      BY <1>2 DEF Close, screenVars
    <2>2. skippedJoin' = {} /\ ui' = "reopen" => threads = {}
      <3> SUFFICES ASSUME skippedJoin' = {}, ui' = "reopen", NEW th \in threads PROVE FALSE
        OBVIOUS
      <3>1. pTCPHandle = 0 /\ th[1] = pTCPHandle
        BY <2>1 DEF NoneLeft, NULL
      <3>2. th[1] \in 1 .. MaxConn
        BY DEF Timed, TypeOK, Thread, Handle
      <3> QED
        BY <3>1, <3>2
    <2> QED
      BY <2>1, <2>2 DEF NoneLeft, CrashHasCause
  <1>3. CASE Join
    <2>1. /\ UNCHANGED <<pTCPHandle, threads, skippedJoin, overlapped, unreadable>>
          /\ ui' = "reopen"
          /\ Threads(pTCPHandle) = {}
      BY <1>3 DEF Join, linkVars, screenVars
    <2>2. skippedJoin = {} => threads = {}
      <3> SUFFICES ASSUME skippedJoin = {}, NEW th \in threads PROVE FALSE
        OBVIOUS
      <3>1. th[1] = pTCPHandle /\ th \in Handle \X {"send", "recv"}
        BY DEF NoneLeft, Timed, TypeOK, Thread
      <3>2. th \in {<<pTCPHandle, "send">>, <<pTCPHandle, "recv">>}
        BY <3>1
      <3> QED
        BY <2>1, <3>2 DEF Threads
    <2> QED
      BY <2>1, <2>2 DEF NoneLeft, CrashHasCause
  <1>4. CASE ConnectToServer
    <2>1. /\ ui = "reopen" /\ ui' = "idle" /\ UNCHANGED <<skippedJoin, overlapped, unreadable>>
          /\ pTCPHandle' = made + 1
          /\ threads' \subseteq threads \union ({made + 1} \X {"send", "recv"})
      BY <1>4 DEF ConnectToServer, screenVars
    <2>2. \A th \in {made + 1} \X {"send", "recv"} : th[1] = made + 1
      OBVIOUS
    <2> QED
      BY <2>1, <2>2 DEF NoneLeft, CrashHasCause
  <1>5. CASE Update
    <2>1. UNCHANGED <<pTCPHandle, threads, skippedJoin, ui>> /\ ui # "crashed"
      BY <1>5 DEF Update, linkVars, uiVars
    <2> QED
      BY <2>1 DEF NoneLeft, CrashHasCause
  <1>6. CASE UpdateNull
    <2>1. /\ UNCHANGED <<pTCPHandle, threads, skippedJoin, overlapped, unreadable>>
          /\ ui' = "crashed"
      BY <1>6 DEF UpdateNull, linkVars, screenVars
    <2> QED
      BY <1>6, <2>1, PostFindsItem DEF NoneLeft, CrashHasCause
  <1>7. ASSUME NEW h \in Handle, NEW f \in Frame, OnReceivedFrame(h, f) PROVE Stopped'
    <2>1. /\ UNCHANGED <<pTCPHandle, threads, skippedJoin, overlapped>>
          /\ \/ UNCHANGED <<ui, unreadable>>
             \/ ui' = "crashed" /\ unreadable'
      BY <1>7 DEF OnReceivedFrame, HandOver, linkVars
    <2> QED
      BY <2>1 DEF NoneLeft, CrashHasCause
  <1>8. ASSUME NEW h \in Handle,
               AddBuffQueue(h) \/ ReceiveEnds(h) \/ SelectFails(h) \/ SendFrame(h) \/ Break(h)
        PROVE  Stopped'
    <2>1. /\ UNCHANGED <<pTCPHandle, skippedJoin, overlapped, unreadable, ui>>
          /\ threads' \subseteq threads
      BY <1>8 DEF AddBuffQueue, ReceiveEnds, SelectFails, SendFrame, Break, linkVars, screenVars, uiVars
    <2> QED
      BY <2>1 DEF NoneLeft, CrashHasCause
  <1>9. ASSUME NEW h \in Handle, NEW t \in {"send", "recv"}, LoopEnds(h, t) \/ StrayThread(h, t)
        PROVE  Stopped'
    <2>1. /\ UNCHANGED <<pTCPHandle, skippedJoin, overlapped, unreadable>> /\ threads' \subseteq threads
          /\ ui' \in {ui, "crashed"}
      BY <1>9 DEF LoopEnds, StrayThread, screenVars, uiVars
    <2>2. StrayThread(h, t) => skippedJoin # {}
      BY DEF StrayThread, Stray, Exists, NoneLeft
    <2>3. LoopEnds(h, t) => ui' = ui
      BY DEF LoopEnds, uiVars
    <2>4. ui' = ui \/ skippedJoin' # {}
      BY <1>9, <2>1, <2>2, <2>3
    <2> QED
      BY <2>1, <2>4 DEF NoneLeft, CrashHasCause
  <1> QED
    BY <1>1, <1>2, <1>3, <1>4, <1>5, <1>6, <1>7, <1>8, <1>9, Steps

(* The display crashes only from an overlap, from a thread left behind or  *)
(* from a frame the callback cannot read.                                  *)
THEOREM CrashCauses == Spec => []CrashHasCause
  <1>1. Init => Stopped
    BY DEF Init, Stopped, NoneLeft, CrashHasCause
  <1>2. Stopped => CrashHasCause
    BY DEF Stopped
  <1> QED
    BY <1>1, <1>2, NextStopped, AlwaysTimed, AlwaysOrdered, PTL DEF Spec

-----------------------------------------------------------------------------
(* Confirmations.                                                          *)

(* If nothing came after an item, the destination its object holds is      *)
(* still that of the item.                                                 *)
Fresh(x) == x # NONE => /\ x.n <= received
                        /\ x.n = received => x.asker = ulDest[x.via]

Quiet ==
  /\ \A i \in 1 .. Len(cQueue) : Fresh(cQueue[i])
  /\ \A h \in Handle : Fresh(adding[h])
  /\ Fresh(overlapped)
  /\ QuietConfirmation

(* The steps that leave the items alone.                                   *)
LEMMA ItemsKept ==
  ASSUME Quiet, UNCHANGED <<received, overlapped, cQueue, ulDest>>,
         \A h \in Handle : adding'[h] \in {adding[h], NONE}, QuietConfirmation'
  PROVE  Quiet'
  BY DEF Quiet, Fresh

(* Quiet is kept when an item is taken from the list.                      *)
LEMMA UpdateQuiet == Timed /\ Quiet /\ Update => Quiet'
  <1> SUFFICES ASSUME Timed, Quiet, Update PROVE Quiet'
    OBVIOUS
  <1> DEFINE item == cQueue[1]
             c == [dest |-> ulDest[pTCPHandle], asker |-> item.asker,
                   quiet |-> item.n = received /\ item.via = pTCPHandle]
  <1>1. /\ cQueue \in Seq(Item \union {NONE}) /\ cQueue # <<>> /\ item # NONE
        /\ cQueue' = [i \in 1 .. Len(cQueue) - 1 |-> cQueue[IF i < 1 THEN i ELSE i + 1]]
        /\ UNCHANGED <<received, adding, ulDest>> /\ overlapped' \in {item, overlapped}
        /\ sendQueue' = sendQueue \/
             (pTCPHandle \in open /\ sendQueue' =
               [sendQueue EXCEPT ![pTCPHandle] = Append(sendQueue[pTCPHandle], c)])
    BY DEF Timed, TypeOK, Update, NothingToTake, TakenIndex, Confirm
  <1>2. /\ Len(cQueue) \in Nat \ {0} /\ Len(cQueue) - 1 \in Nat
        /\ \A i \in 1 .. Len(cQueue) - 1 : i + 1 \in 1 .. Len(cQueue) /\ ~(i < 1)
    BY <1>1
  <1>3. /\ Len(cQueue') = Len(cQueue) - 1
        /\ \A i \in 1 .. Len(cQueue) - 1 : cQueue'[i] = cQueue[i + 1]
    BY <1>1, <1>2
  <1>4. Fresh(item)
    BY <1>2 DEF Quiet
  <1>5. c.quiet => c.dest = c.asker
    BY <1>1, <1>4 DEF Fresh
  <1> HIDE DEF c, item
  <1>6. QuietConfirmation'
    <2>1. CASE sendQueue' = sendQueue
      BY <2>1 DEF Quiet, QuietConfirmation
    <2>2. CASE pTCPHandle \in open /\ sendQueue' =
                 [sendQueue EXCEPT ![pTCPHandle] = Append(sendQueue[pTCPHandle], c)]
      <3> DEFINE q == sendQueue[pTCPHandle]
      <3>1. /\ sendQueue \in [Handle -> Seq(Confirmation)] /\ pTCPHandle \in Handle
        BY <2>2 DEF Timed, TypeOK
      <3>2. q \in Seq(Confirmation) /\ sendQueue'[pTCPHandle] = Append(q, c)
        BY <2>2, <3>1
      <3>3. \A h \in Handle : h # pTCPHandle => sendQueue'[h] = sendQueue[h]
        BY <2>2, <3>1
      <3>4. \A i \in 1 .. Len(q) : q[i].quiet => q[i].dest = q[i].asker
        BY <3>1 DEF Quiet, QuietConfirmation
      <3> HIDE DEF q
      <3>5. \A i \in 1 .. Len(Append(q, c)) : Append(q, c)[i] = c \/
              (i \in 1 .. Len(q) /\ Append(q, c)[i] = q[i])
        BY <3>2
      <3>6. \A i \in 1 .. Len(Append(q, c)) :
              Append(q, c)[i].quiet => Append(q, c)[i].dest = Append(q, c)[i].asker
        BY <1>5, <3>4, <3>5
      <3> QED
        BY <3>2, <3>3, <3>6 DEF Quiet, QuietConfirmation
    <2> QED
      BY <1>1, <2>1, <2>2
  <1>7. \A i \in 1 .. Len(cQueue') : Fresh(cQueue[i + 1]) /\ cQueue'[i] = cQueue[i + 1]
    BY <1>2, <1>3 DEF Quiet
  <1> QED
    BY <1>1, <1>4, <1>6, <1>7 DEF Quiet, Fresh

(* Quiet is kept by a frame that arrives.                                  *)
LEMMA FrameQuiet ==
  ASSUME Timed, Quiet, NEW h \in Handle, NEW f \in Frame, OnReceivedFrame(h, f)
  PROVE  Quiet'
  <1> DEFINE item == [n |-> received + 1, kind |-> f.kind, asker |-> f.dest, via |-> h]
  <1>1. /\ UNCHANGED <<overlapped, cQueue, sendQueue>> /\ received' = received + 1
        /\ received \in Nat /\ adding \in [Handle -> Item \union {NONE}]
        /\ adding' \in {adding, [adding EXCEPT ![h] = item]}
        /\ cQueue \in Seq(Item \union {NONE}) /\ overlapped \in Item \union {NONE}
        /\ ulDest \in [Handle -> Phone \union {0}]
        /\ ulDest' = [ulDest EXCEPT ![h] = f.dest]
    BY DEF OnReceivedFrame, HandOver, NewDest, Timed, TypeOK
  <1>2. ulDest'[h] = f.dest
    BY <1>1
  <1>3. item.n = received' /\ item.asker = ulDest'[item.via]
    BY <1>1, <1>2
  <1>4. \A x \in Item \union {NONE} : Fresh(x) => x = NONE \/ x.n < received'
    <2>1. \A x \in Item : x.n \in Nat
      BY DEF Item
    <2> QED
      BY <1>1, <2>1 DEF Fresh
  <1> HIDE DEF item
  <1>5. \A g \in Handle : adding'[g] \in {adding[g], item}
    BY <1>1
  <1>6. /\ \A i \in 1 .. Len(cQueue) : cQueue[i] = NONE \/ cQueue[i].n < received'
        /\ \A g \in Handle : adding[g] = NONE \/ adding[g].n < received'
        /\ overlapped = NONE \/ overlapped.n < received'
    BY <1>1, <1>4 DEF Quiet
  <1>7. /\ \A i \in 1 .. Len(cQueue) : cQueue[i] # NONE => cQueue[i].n \in Nat
        /\ \A g \in Handle : adding[g] # NONE => adding[g].n \in Nat
        /\ overlapped # NONE => overlapped.n \in Nat
    <2>1. \A x \in Item \union {NONE} : x # NONE => x.n \in Nat
      BY DEF Item
    <2> QED
      BY <1>1, <2>1
  <1>8. item.n <= received'
    BY <1>1, <1>3
  <1>9. received' \in Nat
    BY <1>1
  <1>10. QuietConfirmation'
    BY <1>1 DEF Quiet, QuietConfirmation
  <1>11. \A i \in 1 .. Len(cQueue') : Fresh(cQueue[i])'
    BY <1>1, <1>6, <1>7, <1>9 DEF Fresh
  <1>12. \A g \in Handle : Fresh(adding[g])'
    BY <1>3, <1>5, <1>6, <1>7, <1>8, <1>9 DEF Fresh
  <1>13. Fresh(overlapped)'
    BY <1>1, <1>6, <1>7, <1>9 DEF Fresh
  <1> QED
    BY <1>10, <1>11, <1>12, <1>13 DEF Quiet

(* Quiet is kept when an item enters the list.                             *)
LEMMA AddQuiet == ASSUME Timed, Quiet, NEW h \in Handle, AddBuffQueue(h) PROVE Quiet'
  <1> DEFINE item == adding[h]
  <1>1. /\ UNCHANGED <<overlapped, received, ulDest, sendQueue>>
        /\ adding \in [Handle -> Item \union {NONE}]
        /\ adding' = [adding EXCEPT ![h] = NONE]
        /\ cQueue \in Seq(Item \union {NONE}) /\ overlapped \in Item \union {NONE}
        /\ cQueue' \in {Append(cQueue, item), cQueue, cQueue \o <<NONE, item>>,
                        <<overlapped>> \o Append(cQueue, item)}
    BY DEF AddBuffQueue, AfterAdd, Timed, TypeOK
  <1>2. Fresh(item) /\ Fresh(overlapped) /\ item \in Item \union {NONE}
    BY <1>1 DEF Quiet
  <1>3. Fresh(NONE)
    BY DEF Fresh
  <1> HIDE DEF item
  <1>4. \A i \in 1 .. Len(cQueue) : Fresh(cQueue[i])
    BY DEF Quiet
  <1>5. \A i \in 1 .. Len(cQueue') : Fresh(cQueue'[i])
    <2>1. CASE cQueue' = cQueue
      BY <1>4, <2>1
    <2>2. \A i \in 1 .. Len(Append(cQueue, item)) : Fresh(Append(cQueue, item)[i])
      <3>1. \A i \in 1 .. Len(Append(cQueue, item)) : Append(cQueue, item)[i] = item \/
              (i \in 1 .. Len(cQueue) /\ Append(cQueue, item)[i] = cQueue[i])
        BY <1>1, <1>2
      <3> QED
        BY <1>2, <1>4, <3>1
    <2>3. CASE cQueue' = cQueue \o <<NONE, item>>
      <3>1. \A i \in 1 .. Len(cQueue') :
              cQueue'[i] \in {item, NONE} \/ (i \in 1 .. Len(cQueue) /\ cQueue'[i] = cQueue[i])
        BY <1>1, <1>2, <2>3
      <3> QED
        BY <1>2, <1>3, <1>4, <3>1
    <2>4. CASE cQueue' = <<overlapped>> \o Append(cQueue, item)
      <3> DEFINE q == Append(cQueue, item)
      <3>1. q \in Seq(Item \union {NONE})
        BY <1>1, <1>2
      <3> HIDE DEF q
      <3>2. cQueue' = <<overlapped>> \o q
        BY <2>4 DEF q
      <3>3. \A i \in 1 .. Len(cQueue') :
              cQueue'[i] = overlapped \/ (i - 1 \in 1 .. Len(q) /\ cQueue'[i] = q[i - 1])
        BY <1>1, <3>1, <3>2
      <3> QED
        BY <1>2, <2>2, <3>3 DEF q
    <2> QED
      BY <1>1, <2>1, <2>2, <2>3, <2>4
  <1>6. \A g \in Handle : adding'[g] \in {adding[g], NONE}
    BY <1>1
  <1>7. QuietConfirmation'
    BY <1>1 DEF Quiet, QuietConfirmation
  <1> QED
    BY <1>1, <1>5, <1>6, <1>7 DEF Quiet, Fresh

(* Quiet is inductive beside Timed.                                        *)
LEMMA NextQuiet == Timed /\ Quiet /\ [Next]_vars => Quiet'
  <1> SUFFICES ASSUME Timed, Quiet, [Next]_vars PROVE Quiet'
    OBVIOUS
  <1>1. adding \in [Handle -> Item \union {NONE}]
    BY DEF Timed, TypeOK
  <1>2. CASE Elapse \/ RegardToServer \/ IsConnected \/ NotConnected \/ SlowIsNotConnected
               \/ Close \/ Join \/ ConnectToServer \/ UpdateNull \/ UNCHANGED vars
    <2>1. UNCHANGED <<received, adding, overlapped, cQueue, ulDest, sendQueue>>
      BY <1>2 DEF Elapse, RegardToServer, IsConnected, NotConnected, SlowIsNotConnected, Close, Join,
                  ConnectToServer, UpdateNull, vars, screenVars
    <2> QED
      BY <2>1 DEF Quiet, QuietConfirmation, Fresh
  <1>3. ASSUME NEW h \in Handle, ReceiveEnds(h) \/ SelectFails(h) \/ Break(h) PROVE Quiet'
    <2>1. UNCHANGED <<received, adding, overlapped, cQueue, ulDest, sendQueue>>
      BY <1>3 DEF ReceiveEnds, SelectFails, Break, screenVars
    <2> QED
      BY <2>1 DEF Quiet, QuietConfirmation, Fresh
  <1>4. ASSUME NEW h \in Handle, NEW t \in {"send", "recv"}, LoopEnds(h, t) \/ StrayThread(h, t)
        PROVE  Quiet'
    <2>1. /\ UNCHANGED <<received, overlapped, cQueue, ulDest, sendQueue>>
          /\ adding' \in {adding, [adding EXCEPT ![h] = NONE]}
      BY <1>4 DEF LoopEnds, StrayThread, screenVars
    <2>2. \A g \in Handle : adding'[g] \in {adding[g], NONE}
      BY <1>1, <2>1
    <2>3. QuietConfirmation'
      BY <2>1 DEF Quiet, QuietConfirmation
    <2> QED
      BY <2>1, <2>2, <2>3, ItemsKept
  <1>5. ASSUME NEW h \in Handle, SendFrame(h) PROVE Quiet'
    <2>1. /\ UNCHANGED <<received, adding, overlapped, cQueue, ulDest>>
          /\ sendQueue \in [Handle -> Seq(Confirmation)] /\ sendQueue[h] # <<>>
          /\ sendQueue' = [sendQueue EXCEPT ![h] = Tail(sendQueue[h])]
      BY <1>5 DEF SendFrame, screenVars, Timed, TypeOK
    <2>2. \A g \in Handle : g # h => sendQueue'[g] = sendQueue[g]
      BY <2>1
    <2> DEFINE q == sendQueue[h]
    <2>3. q \in Seq(Confirmation) /\ q # <<>> /\ sendQueue'[h] = Tail(q)
      BY <2>1
    <2>4. \A i \in 1 .. Len(q) : q[i].quiet => q[i].dest = q[i].asker
      BY DEF Quiet, QuietConfirmation
    <2> HIDE DEF q
    <2>5. \A i \in 1 .. Len(Tail(q)) : i + 1 \in 1 .. Len(q) /\ Tail(q)[i] = q[i + 1]
      BY <2>3
    <2>6. \A i \in 1 .. Len(sendQueue'[h]) :
            sendQueue'[h][i].quiet => sendQueue'[h][i].dest = sendQueue'[h][i].asker
      BY <2>3, <2>4, <2>5
    <2>7. \A g \in Handle : \A i \in 1 .. Len(sendQueue'[g]) :
            sendQueue'[g][i].quiet => sendQueue'[g][i].dest = sendQueue'[g][i].asker
      BY <2>2, <2>6 DEF Quiet, QuietConfirmation
    <2>8. QuietConfirmation'
      BY <2>7 DEF QuietConfirmation
    <2> QED
      BY <2>1, <2>8, ItemsKept
  <1> QED
    BY <1>2, <1>3, <1>4, <1>5, Steps, UpdateQuiet, FrameQuiet, AddQuiet

(* A payment goes to the phone that asked when nothing came in between,    *)
(* also when the list has been torn by an overlap.                         *)
THEOREM ToAsker == Spec => []QuietConfirmation
  <1>1. Init => Quiet
    BY DEF Init, Quiet, QuietConfirmation, Fresh
  <1>2. Quiet => QuietConfirmation
    BY DEF Quiet
  <1> QED
    BY <1>1, <1>2, NextQuiet, AlwaysTimed, PTL DEF Spec
=============================================================================
