---------------------------- MODULE BitSideQueue -----------------------------
(***************************************************************************)
(* LinuxServer/base/BaseVector.cpp: the linked list through which every    *)
(* thread of the server hands messages to another.  Each TCPSession owns   *)
(* one (written by the control thread, read by its send thread) and        *)
(* CServerControl owns one (written by the receive threads of all the      *)
(* sessions, read by the control thread).                                  *)
(*                                                                         *)
(* Additions take the lock of the queue.  The reader looks at the counter  *)
(* (Sendfunc) and at the head pointer (BitSideNodeRemove) WITHOUT it, and  *)
(* only then locks and unlinks the first cell without looking again, so    *)
(* every access to the shared words is a step of its own here.  The words  *)
(* are aligned and each access is one load or store on the target.         *)
(***************************************************************************)
EXTENDS Integers, Sequences

CONSTANTS Producer,   (* the threads that add messages                      *)
          Consumer,   (* the one thread that removes them                   *)
          Cell,       (* the heap cells malloc can return; a freed cell may *)
                      (* be returned again                                  *)
          NULL        (* the null pointer, and "no thread" for the lock     *)

ASSUME ThreadAssumption ==
  /\ Consumer \notin Producer
  /\ NULL \notin Producer \union {Consumer}
ASSUME CellAssumption == NULL \notin Cell

VARIABLES
  eBitSideHead,  (* pointer to the first cell                               *)
  next,          (* the next pointer of every cell                          *)
  nCnt,          (* the counter of the queue                                *)
  mutexLock,     (* the thread that holds the lock                          *)
  heap,          (* the allocated cells                                     *)
  ppc,           (* where each producer is in AddBitSideHead                *)
  pBST,          (* the cell each producer adds                             *)
  ptail,         (* the cell each producer's walk to the tail has reached   *)
  cpc,           (* where the reader is in BitSideNodeRemove                *)
  pNode,         (* the cell the reader removed and uses                    *)
  polls,         (* the reader: TRUE, TCPSession::Sendfunc, which looks at  *)
                 (* nCnt first; FALSE, the control thread, which calls      *)
                 (* BitSideNodeRemove at once; never changes                *)
  backlog        (* history: the cells linked and not yet removed, in the   *)
                 (* order of their linking                                  *)

shared == <<eBitSideHead, next, nCnt, mutexLock, heap, backlog>>
local  == <<ppc, pBST, ptail, cpc, pNode>>
vars   == <<shared, local, polls>>

Init ==
  /\ eBitSideHead = NULL
  /\ next = [n \in Cell |-> NULL]
  /\ nCnt = 0
  /\ mutexLock = NULL
  /\ heap = {}
  /\ ppc = [p \in Producer |-> "idle"]
  /\ pBST = [p \in Producer |-> NULL]
  /\ ptail = [p \in Producer |-> NULL]
  /\ cpc = "poll"
  /\ pNode = NULL
  /\ polls \in BOOLEAN
  /\ backlog = <<>>

-----------------------------------------------------------------------------
(* AddBitSideHead, called by producer p.                                   *)

(* Lines 63-81: allocate the cell and fill it, with no lock.  When malloc  *)
(* fails the call returns and the message is lost, with no state changed.  *)
AddAlloc(p) ==
  /\ ppc[p] = "idle"
  /\ \E n \in Cell \ heap :
       /\ heap' = heap \union {n}
       /\ pBST' = [pBST EXCEPT ![p] = n]
       /\ next' = [next EXCEPT ![n] = NULL]
  /\ ppc' = [ppc EXCEPT ![p] = "lock"]
  /\ UNCHANGED <<eBitSideHead, nCnt, mutexLock, backlog, ptail, cpc, pNode, polls>>

(* Variant: the addition forgets the lock.                                 *)
AddLock_NoLock(p) ==
  /\ ppc[p] = "lock"
  /\ mutexLock' = p
  /\ ppc' = [ppc EXCEPT ![p] = "head"]
  /\ UNCHANGED <<eBitSideHead, next, nCnt, heap, backlog, pBST, ptail, cpc, pNode, polls>>

AddLock(p) ==
  /\ ppc[p] = "lock"
  /\ mutexLock = NULL
  /\ mutexLock' = p
  /\ ppc' = [ppc EXCEPT ![p] = "head"]
  /\ UNCHANGED <<eBitSideHead, next, nCnt, heap, backlog, pBST, ptail, cpc, pNode, polls>>

(* Variant: the cell goes to the head, as the name AddBitSideHead says.    *)
AddFirst_AtHead(p) ==
  /\ ppc[p] = "head"
  /\ next' = [next EXCEPT ![pBST[p]] = eBitSideHead]
  /\ eBitSideHead' = pBST[p]
  /\ backlog' = <<pBST[p]>> \o backlog
  /\ ppc' = [ppc EXCEPT ![p] = "count"]
  /\ UNCHANGED <<nCnt, mutexLock, heap, pBST, ptail, cpc, pNode, polls>>

(* Lines 85-88: the list is empty and the cell becomes its head.           *)
AddFirst(p) ==
  /\ ppc[p] = "head"
  /\ eBitSideHead = NULL
  /\ eBitSideHead' = pBST[p]
  /\ backlog' = Append(backlog, pBST[p])
  /\ ppc' = [ppc EXCEPT ![p] = "count"]
  /\ UNCHANGED <<next, nCnt, mutexLock, heap, pBST, ptail, cpc, pNode, polls>>

(* Line 93: otherwise start a walk at the head.                            *)
AddWalkStart(p) ==
  /\ ppc[p] = "head"
  /\ eBitSideHead # NULL
  /\ ptail' = [ptail EXCEPT ![p] = eBitSideHead]
  /\ ppc' = [ppc EXCEPT ![p] = "walk"]
  /\ UNCHANGED <<shared, pBST, cpc, pNode, polls>>

(* Lines 95-99: one step of the walk.                                      *)
AddWalk(p) ==
  /\ ppc[p] = "walk"
  /\ ptail[p] \in heap
  /\ next[ptail[p]] # NULL
  /\ ptail' = [ptail EXCEPT ![p] = next[@]]
  /\ UNCHANGED <<shared, ppc, pBST, cpc, pNode, polls>>

(* Lines 101-103: link the cell behind the last one.                       *)
AddLink(p) ==
  /\ ppc[p] = "walk"
  /\ ptail[p] \in heap
  /\ next[ptail[p]] = NULL
  /\ next' = [next EXCEPT ![ptail[p]] = pBST[p], ![pBST[p]] = NULL]
  /\ backlog' = Append(backlog, pBST[p])
  /\ ppc' = [ppc EXCEPT ![p] = "count"]
  /\ UNCHANGED <<eBitSideHead, nCnt, mutexLock, heap, pBST, ptail, cpc, pNode, polls>>

(* Variant: the addition forgets to count.                                 *)
AddCount_Skip(p) ==
  /\ ppc[p] = "count"
  /\ ppc' = [ppc EXCEPT ![p] = "unlock"]
  /\ UNCHANGED <<shared, pBST, ptail, cpc, pNode, polls>>

(* Line 105, then line 106.                                                *)
AddCount(p) ==
  /\ ppc[p] = "count"
  /\ nCnt' = nCnt + 1
  /\ ppc' = [ppc EXCEPT ![p] = "unlock"]
  /\ UNCHANGED <<eBitSideHead, next, mutexLock, heap, backlog, pBST, ptail, cpc, pNode, polls>>

AddUnlock(p) ==
  /\ ppc[p] = "unlock"
  /\ mutexLock' = NULL
  /\ pBST' = [pBST EXCEPT ![p] = NULL]
  /\ ptail' = [ptail EXCEPT ![p] = NULL]
  /\ ppc' = [ppc EXCEPT ![p] = "idle"]
  /\ UNCHANGED <<eBitSideHead, next, nCnt, heap, backlog, cpc, pNode, polls>>

-----------------------------------------------------------------------------
(* The reader.                                                             *)

(* BitSideNodeGetCount, without the lock: nothing to send, sleep, again.   *)
PollEmpty ==
  /\ cpc = "poll"
  /\ polls
  /\ nCnt = 0
  /\ UNCHANGED vars

PollReady ==
  /\ cpc = "poll"
  /\ polls => nCnt # 0
  /\ cpc' = "check"
  /\ UNCHANGED <<shared, ppc, pBST, ptail, pNode, polls>>

(* BitSideNodeRemove line 168, without the lock: return NULL, or go on.    *)
RemoveEmpty ==
  /\ cpc = "check"
  /\ eBitSideHead = NULL
  /\ cpc' = "poll"
  /\ UNCHANGED <<shared, ppc, pBST, ptail, pNode, polls>>

(* Variant: the reader does not look at the head.                          *)
RemoveCheck_NoTest ==
  /\ cpc = "check"
  /\ cpc' = "lock"
  /\ UNCHANGED <<shared, ppc, pBST, ptail, pNode, polls>>

RemoveCheck ==
  /\ cpc = "check"
  /\ eBitSideHead # NULL
  /\ cpc' = "lock"
  /\ UNCHANGED <<shared, ppc, pBST, ptail, pNode, polls>>

RemoveLock ==
  /\ cpc = "lock"
  /\ mutexLock = NULL
  /\ mutexLock' = Consumer
  /\ cpc' = "pop"
  /\ UNCHANGED <<eBitSideHead, next, nCnt, heap, backlog, ppc, pBST, ptail, pNode, polls>>

(* Lines 173-174: line 174 dereferences the head without a second check.   *)
RemovePop ==
  /\ cpc = "pop"
  /\ eBitSideHead \in heap
  /\ pNode' = eBitSideHead
  /\ eBitSideHead' = next[eBitSideHead]
  /\ backlog' = Tail(backlog)
  /\ cpc' = "uncount"
  /\ UNCHANGED <<next, nCnt, mutexLock, heap, ppc, pBST, ptail, polls>>

(* Lines 175 and 176.                                                      *)
RemoveCount ==
  /\ cpc = "uncount"
  /\ nCnt' = nCnt - 1
  /\ cpc' = "unlock"
  /\ UNCHANGED <<eBitSideHead, next, mutexLock, heap, backlog, ppc, pBST, ptail, pNode, polls>>

RemoveUnlock ==
  /\ cpc = "unlock"
  /\ mutexLock' = NULL
  /\ cpc' = "use"
  /\ UNCHANGED <<eBitSideHead, next, nCnt, heap, backlog, ppc, pBST, ptail, pNode, polls>>

(* Sendfunc 383-396 and ThreadProcServerControl 144-147: the reader sends  *)
(* or handles the message and frees its cell.                              *)
UseAndFree ==
  /\ cpc = "use"
  /\ heap' = heap \ {pNode}
  /\ pNode' = NULL
  /\ cpc' = "poll"
  /\ UNCHANGED <<eBitSideHead, next, nCnt, mutexLock, backlog, ppc, pBST, ptail, polls>>

-----------------------------------------------------------------------------
AddBitSideHead(p) ==
  \/ AddAlloc(p)
  \/ AddLock(p)
  \/ AddFirst(p)
  \/ AddWalkStart(p)
  \/ AddWalk(p)
  \/ AddLink(p)
  \/ AddCount(p)
  \/ AddUnlock(p)

BitSideNodeRemove ==
  \/ PollEmpty
  \/ PollReady
  \/ RemoveEmpty
  \/ RemoveCheck
  \/ RemoveLock
  \/ RemovePop
  \/ RemoveCount
  \/ RemoveUnlock
  \/ UseAndFree

Next ==
  \/ \E p \in Producer : AddBitSideHead(p)
  \/ BitSideNodeRemove

Spec == Init /\ [][Next]_vars

(* A producer inside AddBitSideHead and the reader's loop keep running as  *)
(* long as they can; nobody is obliged to start an addition, and the lock  *)
(* gives no order to the threads that wait for it.                         *)
Finish(p) == ppc[p] # "idle" /\ AddBitSideHead(p)

Fairness ==
  /\ \A p \in Producer : WF_vars(Finish(p))
  /\ WF_vars(BitSideNodeRemove)

FairSpec == Spec /\ Fairness

-----------------------------------------------------------------------------
(* Properties.                                                             *)

Location == {"idle", "lock", "head", "walk", "count", "unlock"}

(* Every variable holds a value of its kind; nCnt is an unsigned counter   *)
(* and never steps below zero.                                             *)
TypeOK ==
  /\ eBitSideHead \in Cell \union {NULL}
  /\ next \in [Cell -> Cell \union {NULL}]
  /\ nCnt \in Nat
  /\ mutexLock \in Producer \union {Consumer, NULL}
  /\ heap \subseteq Cell
  /\ ppc \in [Producer -> Location]
  /\ pBST \in [Producer -> Cell \union {NULL}]
  /\ ptail \in [Producer -> Cell \union {NULL}]
  /\ cpc \in {"poll", "check", "lock", "pop", "uncount", "unlock", "use"}
  /\ pNode \in Cell \union {NULL}
  /\ backlog \in Seq(Cell)

(* No thread follows NULL or a pointer to a freed cell: the reader's       *)
(* unlocked test of the head at line 168 still holds when line 174         *)
(* dereferences it, and the cells a producer walks at lines 95-102 are not *)
(* freed under it.                                                         *)
NoWildAccess ==
  /\ cpc = "pop" => eBitSideHead \in heap
  /\ \A p \in Producer : ppc[p] = "walk" => ptail[p] \in heap

(* The pointers spell the messages linked and not yet removed, in the      *)
(* order of their linking, and end in NULL: nothing is lost, repeated or   *)
(* overtaken, and no cycle traps the walk of line 95.                      *)
ListIsBacklog ==
  /\ eBitSideHead = IF backlog = <<>> THEN NULL ELSE backlog[1]
  /\ \A i \in 1 .. Len(backlog) :
       next[backlog[i]] = IF i = Len(backlog) THEN NULL ELSE backlog[i + 1]
  /\ \A i, j \in 1 .. Len(backlog) : backlog[i] = backlog[j] => i = j

(* The counter the reader polls without the lock is off by the one update  *)
(* in progress at most: it never claims a message that is not linked, and  *)
(* it is exact whenever nobody is between a link or unlink and its count.  *)
CountFollowsList ==
  /\ \A p \in Producer : ppc[p] = "count" => nCnt = Len(backlog) - 1
  /\ cpc = "uncount" => nCnt = Len(backlog) + 1
  /\ (\A p \in Producer : ppc[p] # "count") /\ cpc # "uncount"
       => nCnt = Len(backlog)

(* A cell is in one hand at a time: owned by the producer that allocated   *)
(* it, linked, or owned by the reader, who alone frees it.                 *)
Adding(p) == ppc[p] \in {"lock", "head", "walk"}
OneOwner ==
  /\ \A p \in Producer : Adding(p) =>
       /\ pBST[p] \in heap
       /\ pBST[p] # pNode
       /\ \A i \in 1 .. Len(backlog) : backlog[i] # pBST[p]
       /\ \A q \in Producer : Adding(q) /\ pBST[q] = pBST[p] => p = q
  /\ \A i \in 1 .. Len(backlog) : backlog[i] \in heap /\ backlog[i] # pNode
  /\ pNode \in heap \union {NULL}

(* The queue is a FIFO whose operations are atomic (module FifoQueue).     *)
Fifo == INSTANCE FifoQueue WITH
  calling <- {pBST[p] : p \in {q \in Producer : Adding(q)}},
  queue   <- backlog,
  held    <- pNode
ImplementsFifo == Fifo!FifoSpec

(* When the producers leave the queue alone, the reader empties it: no     *)
(* message stays behind because the unlocked tests missed it.              *)
QuietQueueDrains ==
  <>[](\A p \in Producer : ppc[p] = "idle") => <>[](backlog = <<>> /\ nCnt = 0)

-----------------------------------------------------------------------------
(* The inductive invariant behind the safety properties: who is where      *)
(* under the lock, what a cell being added looks like, and what the walk   *)
(* and the reader may rely on between two of their steps.                  *)
LockOwner ==
  /\ \A p \in Producer :
       ppc[p] \in {"head", "walk", "count", "unlock"} <=> mutexLock = p
  /\ cpc \in {"pop", "uncount", "unlock"} <=> mutexLock = Consumer

NewCellEndsList ==
  \A p \in Producer : Adding(p) => next[pBST[p]] = NULL

WalkIsOnList ==
  \A p \in Producer : ppc[p] = "walk" =>
    \E i \in 1 .. Len(backlog) : ptail[p] = backlog[i]

(* Only the reader unlinks, so what it saw at line 168 cannot be undone.   *)
SeenHeadStays == cpc \in {"lock", "pop"} => backlog # <<>>

ReaderHolds == pNode = NULL <=> cpc \notin {"uncount", "unlock", "use"}

IndInv ==
  /\ TypeOK
  /\ LockOwner
  /\ ListIsBacklog
  /\ CountFollowsList
  /\ OneOwner
  /\ NewCellEndsList
  /\ WalkIsOnList
  /\ SeenHeadStays
  /\ ReaderHolds
=============================================================================
