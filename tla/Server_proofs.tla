---------------------------- MODULE Server_proofs ----------------------------
(***************************************************************************)
(* Proofs about two parts of the server.                                   *)
(*                                                                         *)
(* BitSideQueue, for any number of producers and cells, with the lock      *)
(* taken at any moment and with either kind of reader.                     *)
(*                                                                         *)
(* ServerStart, for every set of clients and however many commands are     *)
(* typed.  The invariant of the start says for each place of the main      *)
(* thread how far the two servers are: idle, open without a thread, or up. *)
(***************************************************************************)
EXTENDS BitSideQueue, ServerStart, TLAPS

(* Initially the queue is empty and nobody is inside it.                   *)
LEMMA InitInd == Init => IndInv
<1> SUFFICES ASSUME Init PROVE IndInv
  OBVIOUS
<1> USE DEF Init
<1>1. TypeOK
  BY DEF TypeOK, Location
<1>2. backlog = <<>> /\ Len(backlog) = 0
  OBVIOUS
<1>3. LockOwner
  BY ThreadAssumption DEF LockOwner
<1>4. ListIsBacklog
  BY <1>2 DEF ListIsBacklog
<1>5. CountFollowsList
  BY <1>2 DEF CountFollowsList
<1>6. OneOwner /\ NewCellEndsList /\ WalkIsOnList /\ SeenHeadStays /\ ReaderHolds
  BY <1>2 DEF OneOwner, NewCellEndsList, WalkIsOnList, SeenHeadStays, ReaderHolds, Adding
<1>7. QED
  BY <1>1, <1>3, <1>4, <1>5, <1>6 DEF IndInv

(* Linking the new cell writes cells only into pointers.                    *)
LEMMA AddLinkType ==
  ASSUME IndInv, NEW p \in Producer, AddLink(p)
  PROVE  TypeOK'
<1>1. pBST[p] \in Cell /\ ptail[p] \in Cell
  BY CellAssumption DEF AddLink, IndInv, TypeOK, OneOwner, Adding
<1>2. next' \in [Cell -> Cell \union {NULL}]
  BY <1>1 DEF AddLink, IndInv, TypeOK
<1>3. backlog' \in Seq(Cell)
  BY <1>1 DEF AddLink, IndInv, TypeOK
<1>4. QED
  BY <1>2, <1>3 DEF AddLink, IndInv, TypeOK, Location

(* The walk stops at the last cell of the list, so the pointers go on      *)
(* spelling the backlog when the new cell is linked behind it.             *)
LEMMA AddLinkList ==
  ASSUME IndInv, NEW p \in Producer, AddLink(p)
  PROVE  ListIsBacklog'
<1> DEFINE n == pBST[p]
           len == Len(backlog)
<1>1. n \in Cell /\ backlog \in Seq(Cell) /\ len \in Nat
  BY CellAssumption DEF AddLink, IndInv, TypeOK, OneOwner, Adding
<1>2. PICK i \in 1 .. len : ptail[p] = backlog[i]
  BY DEF AddLink, IndInv, WalkIsOnList
<1>3. i = len
  <2>1. next[backlog[i]] = NULL
    BY <1>2 DEF AddLink
  <2>2. i # len => next[backlog[i]] = backlog[i + 1] /\ backlog[i + 1] \in Cell
    BY <1>1 DEF IndInv, ListIsBacklog
  <2>3. QED
    BY <2>1, <2>2, CellAssumption
<1>4. /\ backlog' = Append(backlog, n)
      /\ Len(backlog') = len + 1
      /\ backlog'[len + 1] = n
      /\ \A k \in 1 .. len : backlog'[k] = backlog[k]
  BY <1>1 DEF AddLink
<1>5. \A k \in 1 .. len : backlog[k] # n /\ backlog[k] \in Cell
  BY <1>1 DEF AddLink, IndInv, OneOwner, Adding
<1>6. next' = [next EXCEPT ![backlog[len]] = n, ![n] = NULL] /\ next \in [Cell -> Cell \union {NULL}]
  BY <1>2, <1>3 DEF AddLink, IndInv, TypeOK
<1>7. next'[n] = NULL /\ next'[backlog[len]] = n
  BY <1>1, <1>2, <1>3, <1>5, <1>6
<1>8. \A k \in 1 .. len : k # len => next'[backlog[k]] = backlog[k + 1]
  BY <1>1, <1>2, <1>3, <1>5, <1>6 DEF IndInv, ListIsBacklog
<1>9. \A k \in 1 .. len + 1 :
        next'[backlog'[k]] = IF k = len + 1 THEN NULL ELSE backlog'[k + 1]
  <2> TAKE k \in 1 .. len + 1
  <2>1. CASE k = len + 1
    BY <2>1, <1>1, <1>4, <1>7
  <2>2. CASE k = len
    BY <2>2, <1>1, <1>4, <1>7, <1>2
  <2>3. CASE k \in 1 .. len /\ k # len
    BY <2>3, <1>1, <1>4, <1>8
  <2>4. QED
    BY <2>1, <2>2, <2>3, <1>1
<1>10. eBitSideHead' = IF backlog' = <<>> THEN NULL ELSE backlog'[1]
  BY <1>1, <1>2, <1>4 DEF AddLink, IndInv, ListIsBacklog
<1>11. \A j, k \in 1 .. len + 1 : backlog'[j] = backlog'[k] => j = k
  <2> TAKE j, k \in 1 .. len + 1
  <2>1. j \in 1 .. len /\ k \in 1 .. len /\ backlog[j] = backlog[k] => j = k
    BY DEF IndInv, ListIsBacklog
  <2>2. QED
    BY <2>1, <1>1, <1>4, <1>5
<1>12. QED
  BY <1>4, <1>9, <1>10, <1>11 DEF ListIsBacklog

(* Unlinking the first cell leaves the pointers of the others, which spell *)
(* the rest of the backlog.                                                *)
LEMMA RemovePopList ==
  ASSUME IndInv, RemovePop
  PROVE  ListIsBacklog'
<1> DEFINE len == Len(backlog)
<1>1. backlog \in Seq(Cell) /\ backlog # <<>> /\ len \in Nat /\ len > 0
  BY DEF RemovePop, IndInv, TypeOK, SeenHeadStays
<1>2. /\ Len(backlog') = len - 1
      /\ \A k \in 1 .. len - 1 : backlog'[k] = backlog[k + 1]
      /\ backlog' \in Seq(Cell)
  BY <1>1 DEF RemovePop
<1>3. next' = next
  BY DEF RemovePop
<1>4. \A k \in 1 .. len - 1 :
        next'[backlog'[k]] = IF k = len - 1 THEN NULL ELSE backlog'[k + 1]
  <2> TAKE k \in 1 .. len - 1
  <2>1. backlog'[k] = backlog[k + 1] /\ k + 1 \in 1 .. len
    BY <1>1, <1>2
  <2>2. next[backlog[k + 1]] = IF k + 1 = len THEN NULL ELSE backlog[k + 2]
    BY <2>1, <1>1 DEF IndInv, ListIsBacklog
  <2>3. k # len - 1 => backlog'[k + 1] = backlog[k + 2]
    BY <1>1, <1>2
  <2>4. QED
    BY <2>1, <2>2, <2>3, <1>1, <1>3
<1>5. eBitSideHead' = IF len = 1 THEN NULL ELSE backlog[2]
  <2>1. eBitSideHead = backlog[1] /\ 1 \in 1 .. len
    BY <1>1 DEF IndInv, ListIsBacklog
  <2>2. next[backlog[1]] = IF 1 = len THEN NULL ELSE backlog[1 + 1]
    BY <2>1 DEF IndInv, ListIsBacklog
  <2>3. QED
    BY <2>1, <2>2, <1>1 DEF RemovePop
<1>6. eBitSideHead' = IF backlog' = <<>> THEN NULL ELSE backlog'[1]
  BY <1>1, <1>2, <1>5
<1>7. \A j, k \in 1 .. len - 1 : backlog'[j] = backlog'[k] => j = k
  BY <1>1, <1>2 DEF IndInv, ListIsBacklog
<1>8. QED
  BY <1>2, <1>4, <1>6, <1>7 DEF ListIsBacklog

(* A fresh cell is in nobody's hand and ends in NULL.                     *)
LEMMA AddAllocKeeps ==
  ASSUME IndInv, NEW p \in Producer, AddAlloc(p)
  PROVE  IndInv'
<1>1. TypeOK'
  BY DEF IndInv, TypeOK, Location, AddAlloc
<1>2. LockOwner'
  BY DEF IndInv, LockOwner, AddAlloc
<1>3. ListIsBacklog'
  BY DEF IndInv, ListIsBacklog, OneOwner, AddAlloc
<1>4. CountFollowsList'
  BY DEF IndInv, CountFollowsList, AddAlloc
<1>5. OneOwner'
  BY CellAssumption DEF IndInv, TypeOK, OneOwner, Adding, AddAlloc
<1>6. NewCellEndsList'
  BY DEF IndInv, TypeOK, NewCellEndsList, Adding, AddAlloc
<1>7. WalkIsOnList'
  BY DEF IndInv, WalkIsOnList, AddAlloc
<1>8. SeenHeadStays' /\ ReaderHolds'
  BY DEF IndInv, SeenHeadStays, ReaderHolds, AddAlloc
<1>9. QED
  BY <1>1, <1>2, <1>3, <1>4, <1>5, <1>6, <1>7, <1>8 DEF IndInv

(* Taking the free lock changes no cell.                                  *)
LEMMA AddLockKeeps ==
  ASSUME IndInv, NEW p \in Producer, AddLock(p)
  PROVE  IndInv'
<1>1. TypeOK'
  BY DEF IndInv, TypeOK, Location, AddLock
<1>2. LockOwner'
  BY ThreadAssumption DEF IndInv, TypeOK, LockOwner, AddLock
<1>3. CountFollowsList'
  BY DEF IndInv, CountFollowsList, AddLock
<1>4. OneOwner'
  BY DEF IndInv, OneOwner, Adding, AddLock
<1>5. NewCellEndsList'
  BY DEF IndInv, NewCellEndsList, Adding, AddLock
<1>6. WalkIsOnList'
  BY DEF IndInv, WalkIsOnList, AddLock
<1>7. ListIsBacklog' /\ SeenHeadStays' /\ ReaderHolds'
  BY DEF IndInv, ListIsBacklog, SeenHeadStays, ReaderHolds, AddLock
<1>8. QED
  BY <1>1, <1>2, <1>3, <1>4, <1>5, <1>6, <1>7 DEF IndInv

(* The new cell becomes the whole list; nobody else is between a link
   and its count, because the adder holds the lock.                       *)
LEMMA AddFirstKeeps ==
  ASSUME IndInv, NEW p \in Producer, AddFirst(p)
  PROVE  IndInv'
<1>1. TypeOK'
  BY DEF IndInv, TypeOK, OneOwner, Adding, Location, AddFirst
<1>2. LockOwner'
  BY DEF IndInv, LockOwner, AddFirst
<1>3. ListIsBacklog'
  BY CellAssumption DEF IndInv, TypeOK, ListIsBacklog, NewCellEndsList,
     Adding, AddFirst
<1>4. CountFollowsList'
  BY ThreadAssumption DEF IndInv, TypeOK, LockOwner, CountFollowsList,
     AddFirst
<1>5. OneOwner'
  BY DEF IndInv, TypeOK, OneOwner, Adding, AddFirst
<1>6. NewCellEndsList'
  BY DEF IndInv, NewCellEndsList, Adding, AddFirst
<1>7. WalkIsOnList'
  BY DEF IndInv, WalkIsOnList, AddFirst
<1>8. SeenHeadStays'
  BY DEF SeenHeadStays, AddFirst
<1>9. ReaderHolds'
  BY DEF IndInv, ReaderHolds, AddFirst
<1>10. QED
  BY <1>1, <1>2, <1>3, <1>4, <1>5, <1>6, <1>7, <1>8, <1>9 DEF IndInv

(* The walk starts on the first cell of the list.                         *)
LEMMA AddWalkStartKeeps ==
  ASSUME IndInv, NEW p \in Producer, AddWalkStart(p)
  PROVE  IndInv'
<1>1. TypeOK'
  BY DEF IndInv, TypeOK, Location, AddWalkStart, shared
<1>2. LockOwner'
  BY DEF IndInv, LockOwner, AddWalkStart, shared
<1>3. CountFollowsList'
  BY DEF IndInv, CountFollowsList, AddWalkStart, shared
<1>4. OneOwner'
  BY DEF IndInv, OneOwner, Adding, AddWalkStart, shared
<1>5. NewCellEndsList'
  BY DEF IndInv, NewCellEndsList, Adding, AddWalkStart, shared
<1>6. WalkIsOnList'
  BY DEF IndInv, TypeOK, ListIsBacklog, WalkIsOnList, AddWalkStart, shared
<1>7. ListIsBacklog' /\ SeenHeadStays' /\ ReaderHolds'
  BY DEF IndInv, ListIsBacklog, SeenHeadStays, ReaderHolds, AddWalkStart,
     shared
<1>8. QED
  BY <1>1, <1>2, <1>3, <1>4, <1>5, <1>6, <1>7 DEF IndInv

(* The walk moves to the next cell of the list.                           *)
LEMMA AddWalkKeeps ==
  ASSUME IndInv, NEW p \in Producer, AddWalk(p)
  PROVE  IndInv'
<1>1. TypeOK'
  BY DEF IndInv, TypeOK, AddWalk, shared
<1>2. WalkIsOnList'
  BY DEF IndInv, ListIsBacklog, WalkIsOnList, AddWalk, shared
<1>3. 
      /\ LockOwner'
      /\ ListIsBacklog'
      /\ CountFollowsList'
      /\ OneOwner'
      /\ NewCellEndsList'
      /\ SeenHeadStays'
      /\ ReaderHolds'
  BY DEF IndInv, LockOwner, ListIsBacklog, CountFollowsList, OneOwner,
     NewCellEndsList, SeenHeadStays, ReaderHolds, Adding, AddWalk, shared
<1>4. QED
  BY <1>1, <1>2, <1>3 DEF IndInv

(* The cell the walk stopped at is the last one, so the new cell is
   linked behind the whole list.                                          *)
LEMMA AddLinkKeeps ==
  ASSUME IndInv, NEW p \in Producer, AddLink(p)
  PROVE  IndInv'
<1>1. TypeOK'
  BY AddLinkType
<1>2. LockOwner'
  BY DEF IndInv, LockOwner, AddLink
<1>3. ListIsBacklog'
  BY AddLinkList
<1>4. CountFollowsList'
  BY ThreadAssumption DEF IndInv, TypeOK, LockOwner, CountFollowsList, AddLink
<1>5. OneOwner'
  BY DEF IndInv, TypeOK, LockOwner, ListIsBacklog, OneOwner, Adding, AddLink
<1>6. NewCellEndsList'
  BY DEF IndInv, TypeOK, OneOwner, NewCellEndsList, WalkIsOnList, Adding,
     AddLink
<1>7. WalkIsOnList'
  BY DEF IndInv, WalkIsOnList, AddLink
<1>8. SeenHeadStays'
  BY DEF SeenHeadStays, AddLink
<1>9. ReaderHolds'
  BY DEF IndInv, ReaderHolds, AddLink
<1>10. QED
  BY <1>1, <1>2, <1>3, <1>4, <1>5, <1>6, <1>7, <1>8, <1>9 DEF IndInv

(* The counter catches up with the link.                                  *)
LEMMA AddCountKeeps ==
  ASSUME IndInv, NEW p \in Producer, AddCount(p)
  PROVE  IndInv'
<1>1. TypeOK'
  BY DEF IndInv, TypeOK, Location, AddCount
<1>2. LockOwner'
  BY DEF IndInv, LockOwner, AddCount
<1>3. CountFollowsList'
  BY DEF IndInv, TypeOK, LockOwner, CountFollowsList, AddCount
<1>4. OneOwner'
  BY DEF IndInv, OneOwner, Adding, AddCount
<1>5. NewCellEndsList'
  BY DEF IndInv, NewCellEndsList, Adding, AddCount
<1>6. WalkIsOnList'
  BY DEF IndInv, WalkIsOnList, AddCount
<1>7. ListIsBacklog' /\ SeenHeadStays' /\ ReaderHolds'
  BY DEF IndInv, ListIsBacklog, SeenHeadStays, ReaderHolds, AddCount
<1>8. QED
  BY <1>1, <1>2, <1>3, <1>4, <1>5, <1>6, <1>7 DEF IndInv

(* Releasing the lock changes no cell.                                    *)
LEMMA AddUnlockKeeps ==
  ASSUME IndInv, NEW p \in Producer, AddUnlock(p)
  PROVE  IndInv'
<1>1. TypeOK'
  BY DEF IndInv, TypeOK, Location, AddUnlock
<1>2. LockOwner'
  BY ThreadAssumption DEF IndInv, TypeOK, LockOwner, AddUnlock
<1>3. CountFollowsList'
  BY DEF IndInv, CountFollowsList, AddUnlock
<1>4. OneOwner'
  BY DEF IndInv, OneOwner, Adding, AddUnlock
<1>5. NewCellEndsList'
  BY DEF IndInv, NewCellEndsList, Adding, AddUnlock
<1>6. WalkIsOnList'
  BY DEF IndInv, WalkIsOnList, AddUnlock
<1>7. ListIsBacklog' /\ SeenHeadStays' /\ ReaderHolds'
  BY DEF IndInv, ListIsBacklog, SeenHeadStays, ReaderHolds, AddUnlock
<1>8. QED
  BY <1>1, <1>2, <1>3, <1>4, <1>5, <1>6, <1>7 DEF IndInv

(* Looking at the counter changes nothing shared.                         *)
LEMMA PollReadyKeeps ==
  ASSUME IndInv, PollReady
  PROVE  IndInv'
<1>1. TypeOK'
  BY DEF IndInv, TypeOK, PollReady, shared
<1>2. LockOwner'
  BY DEF IndInv, LockOwner, PollReady, shared
<1>3. CountFollowsList'
  BY DEF IndInv, CountFollowsList, PollReady, shared
<1>4. SeenHeadStays'
  BY DEF SeenHeadStays, PollReady
<1>5. ReaderHolds'
  BY DEF IndInv, ReaderHolds, PollReady
<1>6. ListIsBacklog' /\ OneOwner' /\ NewCellEndsList' /\ WalkIsOnList'
  BY DEF IndInv, ListIsBacklog, OneOwner, NewCellEndsList, WalkIsOnList,
     Adding, PollReady, shared
<1>7. QED
  BY <1>1, <1>2, <1>3, <1>4, <1>5, <1>6 DEF IndInv

(* Seeing an empty list changes nothing shared.                           *)
LEMMA RemoveEmptyKeeps ==
  ASSUME IndInv, RemoveEmpty
  PROVE  IndInv'
<1>1. TypeOK'
  BY DEF IndInv, TypeOK, RemoveEmpty, shared
<1>2. LockOwner'
  BY DEF IndInv, LockOwner, RemoveEmpty, shared
<1>3. CountFollowsList'
  BY DEF IndInv, CountFollowsList, RemoveEmpty, shared
<1>4. SeenHeadStays'
  BY DEF SeenHeadStays, RemoveEmpty
<1>5. ReaderHolds'
  BY DEF IndInv, ReaderHolds, RemoveEmpty
<1>6. ListIsBacklog' /\ OneOwner' /\ NewCellEndsList' /\ WalkIsOnList'
  BY DEF IndInv, ListIsBacklog, OneOwner, NewCellEndsList, WalkIsOnList,
     Adding, RemoveEmpty, shared
<1>7. QED
  BY <1>1, <1>2, <1>3, <1>4, <1>5, <1>6 DEF IndInv

(* The head the reader saw shows that the list is not empty.              *)
LEMMA RemoveCheckKeeps ==
  ASSUME IndInv, RemoveCheck
  PROVE  IndInv'
<1>1. TypeOK'
  BY DEF IndInv, TypeOK, RemoveCheck, shared
<1>2. LockOwner'
  BY DEF IndInv, LockOwner, RemoveCheck, shared
<1>3. CountFollowsList'
  BY DEF IndInv, CountFollowsList, RemoveCheck, shared
<1>4. SeenHeadStays'
  BY DEF IndInv, ListIsBacklog, SeenHeadStays, RemoveCheck, shared
<1>5. ReaderHolds'
  BY DEF IndInv, ReaderHolds, RemoveCheck
<1>6. ListIsBacklog' /\ OneOwner' /\ NewCellEndsList' /\ WalkIsOnList'
  BY DEF IndInv, ListIsBacklog, OneOwner, NewCellEndsList, WalkIsOnList,
     Adding, RemoveCheck, shared
<1>7. QED
  BY <1>1, <1>2, <1>3, <1>4, <1>5, <1>6 DEF IndInv

(* What the reader saw still holds when it gets the lock.                 *)
LEMMA RemoveLockKeeps ==
  ASSUME IndInv, RemoveLock
  PROVE  IndInv'
<1>1. TypeOK'
  BY DEF IndInv, TypeOK, RemoveLock
<1>2. LockOwner'
  BY ThreadAssumption DEF IndInv, LockOwner, RemoveLock
<1>3. CountFollowsList'
  BY DEF IndInv, CountFollowsList, RemoveLock
<1>4. SeenHeadStays'
  BY DEF IndInv, SeenHeadStays, RemoveLock
<1>5. ReaderHolds'
  BY DEF IndInv, ReaderHolds, RemoveLock
<1>6. ListIsBacklog' /\ OneOwner' /\ NewCellEndsList' /\ WalkIsOnList'
  BY DEF IndInv, ListIsBacklog, OneOwner, NewCellEndsList, WalkIsOnList,
     Adding, RemoveLock
<1>7. QED
  BY <1>1, <1>2, <1>3, <1>4, <1>5, <1>6 DEF IndInv

(* The oldest cell leaves the list and belongs to the reader.             *)
LEMMA RemovePopKeeps ==
  ASSUME IndInv, RemovePop
  PROVE  IndInv'
<1>1. TypeOK'
  BY DEF IndInv, TypeOK, SeenHeadStays, RemovePop
<1>2. LockOwner'
  BY DEF IndInv, LockOwner, RemovePop
<1>3. ListIsBacklog'
  BY RemovePopList
<1>4. CountFollowsList'
  BY ThreadAssumption DEF IndInv, TypeOK, LockOwner, CountFollowsList,
     SeenHeadStays, RemovePop
<1>5. OneOwner'
  BY DEF IndInv, ListIsBacklog, OneOwner, ReaderHolds, Adding, RemovePop
<1>6. NewCellEndsList'
  BY DEF IndInv, NewCellEndsList, Adding, RemovePop
<1>7. WalkIsOnList'
  BY ThreadAssumption DEF IndInv, LockOwner, WalkIsOnList, RemovePop
<1>8. SeenHeadStays'
  BY DEF SeenHeadStays, RemovePop
<1>9. ReaderHolds'
  BY DEF IndInv, ListIsBacklog, OneOwner, SeenHeadStays, ReaderHolds,
     RemovePop
<1>10. QED
  BY <1>1, <1>2, <1>3, <1>4, <1>5, <1>6, <1>7, <1>8, <1>9 DEF IndInv

(* The counter catches up with the unlinking.                             *)
LEMMA RemoveCountKeeps ==
  ASSUME IndInv, RemoveCount
  PROVE  IndInv'
<1>1. TypeOK'
  BY ThreadAssumption DEF IndInv, TypeOK, LockOwner, CountFollowsList,
     RemoveCount
<1>2. LockOwner'
  BY DEF IndInv, LockOwner, RemoveCount
<1>3. CountFollowsList'
  BY DEF IndInv, CountFollowsList, RemoveCount
<1>4. SeenHeadStays'
  BY DEF SeenHeadStays, RemoveCount
<1>5. ReaderHolds'
  BY DEF IndInv, ReaderHolds, RemoveCount
<1>6. ListIsBacklog' /\ OneOwner' /\ NewCellEndsList' /\ WalkIsOnList'
  BY DEF IndInv, ListIsBacklog, OneOwner, NewCellEndsList, WalkIsOnList,
     Adding, RemoveCount
<1>7. QED
  BY <1>1, <1>2, <1>3, <1>4, <1>5, <1>6 DEF IndInv

(* Releasing the lock changes no cell.                                    *)
LEMMA RemoveUnlockKeeps ==
  ASSUME IndInv, RemoveUnlock
  PROVE  IndInv'
<1>1. TypeOK'
  BY DEF IndInv, TypeOK, RemoveUnlock
<1>2. LockOwner'
  BY ThreadAssumption DEF IndInv, LockOwner, RemoveUnlock
<1>3. CountFollowsList'
  BY DEF IndInv, CountFollowsList, RemoveUnlock
<1>4. SeenHeadStays'
  BY DEF SeenHeadStays, RemoveUnlock
<1>5. ReaderHolds'
  BY DEF IndInv, ReaderHolds, RemoveUnlock
<1>6. ListIsBacklog' /\ OneOwner' /\ NewCellEndsList' /\ WalkIsOnList'
  BY DEF IndInv, ListIsBacklog, OneOwner, NewCellEndsList, WalkIsOnList,
     Adding, RemoveUnlock
<1>7. QED
  BY <1>1, <1>2, <1>3, <1>4, <1>5, <1>6 DEF IndInv

(* The cell the reader frees is in no other hand.                         *)
LEMMA UseAndFreeKeeps ==
  ASSUME IndInv, UseAndFree
  PROVE  IndInv'
<1>1. TypeOK'
  BY DEF IndInv, TypeOK, UseAndFree
<1>2. LockOwner'
  BY DEF IndInv, LockOwner, UseAndFree
<1>3. CountFollowsList'
  BY DEF IndInv, CountFollowsList, UseAndFree
<1>4. OneOwner'
  BY CellAssumption DEF IndInv, TypeOK, OneOwner, Adding, UseAndFree
<1>5. SeenHeadStays'
  BY DEF SeenHeadStays, UseAndFree
<1>6. ReaderHolds'
  BY DEF ReaderHolds, UseAndFree
<1>7. ListIsBacklog' /\ NewCellEndsList' /\ WalkIsOnList'
  BY DEF IndInv, ListIsBacklog, NewCellEndsList, WalkIsOnList, Adding,
     UseAndFree
<1>8. QED
  BY <1>1, <1>2, <1>3, <1>4, <1>5, <1>6, <1>7 DEF IndInv

(* Every step of the queue preserves the inductive invariant.              *)
LEMMA NextInd == IndInv /\ [Next]_vars => IndInv'
<1> SUFFICES ASSUME IndInv, [Next]_vars PROVE IndInv'
  OBVIOUS
<1>1. CASE UNCHANGED vars
  BY <1>1 DEF vars, shared, local, IndInv, TypeOK, LockOwner, ListIsBacklog,
     CountFollowsList, OneOwner, NewCellEndsList, WalkIsOnList, SeenHeadStays,
     ReaderHolds, Adding
<1>2. ASSUME NEW p \in Producer, AddBitSideHead(p) PROVE IndInv'
  BY <1>2, AddAllocKeeps, AddLockKeeps, AddFirstKeeps, AddWalkStartKeeps,
     AddWalkKeeps, AddLinkKeeps, AddCountKeeps, AddUnlockKeeps
     DEF AddBitSideHead
<1>3. CASE BitSideNodeRemove
  BY <1>1, <1>3, PollReadyKeeps, RemoveEmptyKeeps, RemoveCheckKeeps,
     RemoveLockKeeps, RemovePopKeeps, RemoveCountKeeps, RemoveUnlockKeeps,
     UseAndFreeKeeps DEF BitSideNodeRemove, PollEmpty
<1>4. QED
  BY <1>1, <1>2, <1>3 DEF Next

(* The inductive invariant holds in every reachable state.                 *)
THEOREM Inductive == Spec => []IndInv
BY InitInd, NextInd, PTL DEF Spec

(* Every variable keeps its kind, and the counter never wraps.             *)
THEOREM TypeCorrect == Spec => []TypeOK
BY Inductive, PTL DEF IndInv

(* The list spells the linked and not yet removed messages in order, the   *)
(* counter follows it, and no cell is in two hands.                        *)
THEOREM ListCorrect == Spec => [](ListIsBacklog /\ CountFollowsList /\ OneOwner)
BY Inductive, PTL DEF IndInv

(* The pointers that are dereferenced always point to allocated cells: the *)
(* reader's test outside the lock is enough, and cells are freed only when *)
(* no producer walks over them.                                            *)
THEOREM MemorySafe == Spec => []NoWildAccess
<1>1. IndInv => NoWildAccess
  <2> SUFFICES ASSUME IndInv PROVE NoWildAccess
    OBVIOUS
  <2>1. cpc = "pop" => eBitSideHead \in heap
    <3> SUFFICES ASSUME cpc = "pop" PROVE eBitSideHead \in heap
      OBVIOUS
    <3>1. backlog # <<>> /\ backlog \in Seq(Cell)
      BY DEF IndInv, SeenHeadStays, TypeOK
    <3>2. eBitSideHead = backlog[1] /\ 1 \in 1 .. Len(backlog)
      BY <3>1 DEF IndInv, ListIsBacklog
    <3>3. QED
      BY <3>2 DEF IndInv, OneOwner
  <2>2. \A p \in Producer : ppc[p] = "walk" => ptail[p] \in heap
    BY DEF IndInv, WalkIsOnList, OneOwner
  <2>3. QED
    BY <2>1, <2>2 DEF NoWildAccess
<1>2. QED
  BY <1>1, Inductive, PTL

-----------------------------------------------------------------------------
(* The queue implements the atomic FIFO.                                   *)

(* Nobody is inside the queue at the start of either specification.        *)
LEMMA InitMaps == Init => Fifo!FifoInit
BY DEF Init, Fifo!FifoInit, Adding

(* A step that changes neither who is adding what, nor the list, nor the   *)
(* reader's cell is no step of the FIFO.                                   *)
LEMMA Stutter ==
  ASSUME \A q \in Producer : Adding(q)' = Adding(q),
         \A q \in Producer : Adding(q) => pBST'[q] = pBST[q],
         backlog' = backlog, pNode' = pNode
  PROVE  UNCHANGED Fifo!fifoVars
BY DEF Fifo!fifoVars

(* Allocating the cell is the call, linking it is the addition taking      *)
(* effect.                                                                 *)
LEMMA AddMaps ==
  ASSUME IndInv, NEW p \in Producer, AddBitSideHead(p)
  PROVE  [Fifo!FifoNext]_Fifo!fifoVars
<1> USE DEF IndInv, TypeOK
<1>1. CASE AddAlloc(p)
  <2>1. PICK n \in Cell \ heap : pBST' = [pBST EXCEPT ![p] = n]
    BY <1>1 DEF AddAlloc
  <2>2. ~Adding(p) /\ Adding(p)' /\ pBST'[p] = n
    BY <1>1, <2>1 DEF AddAlloc, Adding
  <2>3. \A q \in Producer : q # p => Adding(q)' = Adding(q) /\ pBST'[q] = pBST[q]
    BY <1>1, <2>1 DEF AddAlloc, Adding
  <2>4. {pBST[q] : q \in {r \in Producer : Adding(r)}}'
          = {pBST[q] : q \in {r \in Producer : Adding(r)}} \union {n}
    BY <2>2, <2>3
  <2>5. n # pNode /\ \A i \in 1 .. Len(backlog) : backlog[i] # n
    BY CellAssumption DEF OneOwner
  <2>6. n \notin {pBST[q] : q \in {r \in Producer : Adding(r)}}
    BY DEF OneOwner
  <2>7. backlog' = backlog /\ pNode' = pNode
    BY <1>1 DEF AddAlloc
  <2>8. Fifo!Call(n)
    BY <2>4, <2>5, <2>6, <2>7 DEF Fifo!Call
  <2>9. QED
    BY <2>8 DEF Fifo!FifoNext
<1>2. ASSUME Adding(p), ~Adding(p)', backlog' = Append(backlog, pBST[p]),
             pNode' = pNode, pBST' = pBST,
             \A q \in Producer : q # p => Adding(q)' = Adding(q)
      PROVE  Fifo!FifoNext
  <2>1. PICK n \in Cell : n = pBST[p]
    BY <1>2 DEF OneOwner
  <2>2. \A q \in Producer : Adding(q) /\ pBST[q] = n => q = p
    BY <1>2, <2>1 DEF OneOwner
  <2>3. {pBST[q] : q \in {r \in Producer : Adding(r)}}'
          = {pBST[q] : q \in {r \in Producer : Adding(r)}} \ {n}
    BY <1>2, <2>1, <2>2
  <2>4. Fifo!Put(n)
    BY <1>2, <2>1, <2>3 DEF Fifo!Put
  <2>5. QED
    BY <2>4 DEF Fifo!FifoNext
<1>3. CASE AddFirst(p)
  BY <1>2, <1>3 DEF AddFirst, Adding
<1>4. CASE AddLink(p)
  BY <1>2, <1>4 DEF AddLink, Adding
<1>5. CASE AddLock(p) \/ AddWalkStart(p) \/ AddWalk(p) \/ AddCount(p) \/ AddUnlock(p)
  <2>1. \A q \in Producer : Adding(q)' = Adding(q)
    BY <1>5 DEF AddLock, AddWalkStart, AddWalk, AddCount, AddUnlock, Adding
  <2>2. \A q \in Producer : Adding(q) => pBST'[q] = pBST[q]
    BY <1>5 DEF AddLock, AddWalkStart, AddWalk, AddCount, AddUnlock, Adding
  <2>3. backlog' = backlog /\ pNode' = pNode
    BY <1>5 DEF AddLock, AddWalkStart, AddWalk, AddCount, AddUnlock, shared
  <2>4. QED
    BY <2>1, <2>2, <2>3, Stutter
<1>6. QED
  BY <1>1, <1>3, <1>4, <1>5 DEF AddBitSideHead

(* Moving the head is the removal, freeing the cell is the release.        *)
LEMMA RemoveMaps ==
  ASSUME IndInv, BitSideNodeRemove
  PROVE  [Fifo!FifoNext]_Fifo!fifoVars
<1>1. ppc' = ppc /\ pBST' = pBST
  BY DEF BitSideNodeRemove, PollEmpty, PollReady, RemoveEmpty, RemoveCheck,
     RemoveLock, RemovePop, RemoveCount, RemoveUnlock, UseAndFree, vars, local
<1>2. {pBST[q] : q \in {r \in Producer : Adding(r)}}'
        = {pBST[q] : q \in {r \in Producer : Adding(r)}}
  BY <1>1 DEF Adding
<1>3. CASE RemovePop
  <2>1. backlog # <<>> /\ backlog \in Seq(Cell)
    BY <1>3 DEF RemovePop, IndInv, SeenHeadStays, TypeOK
  <2>2. eBitSideHead = Head(backlog)
    BY <2>1 DEF IndInv, ListIsBacklog
  <2>3. pNode = NULL
    BY <1>3 DEF RemovePop, IndInv, ReaderHolds
  <2>4. Fifo!Get
    BY <1>2, <1>3, <2>1, <2>2, <2>3 DEF RemovePop, Fifo!Get
  <2>5. QED
    BY <2>4 DEF Fifo!FifoNext
<1>4. CASE UseAndFree
  <2>1. pNode # NULL
    BY <1>4 DEF UseAndFree, IndInv, ReaderHolds
  <2>2. Fifo!Release
    BY <1>2, <1>4, <2>1 DEF UseAndFree, Fifo!Release
  <2>3. QED
    BY <2>2 DEF Fifo!FifoNext
<1>5. CASE PollEmpty \/ PollReady \/ RemoveEmpty \/ RemoveCheck \/ RemoveLock
             \/ RemoveCount \/ RemoveUnlock
  <2>1. backlog' = backlog /\ pNode' = pNode
    BY <1>5 DEF PollEmpty, PollReady, RemoveEmpty, RemoveCheck, RemoveLock,
       RemoveCount, RemoveUnlock, vars, shared, local
  <2>2. QED
    BY <1>2, <2>1 DEF Fifo!fifoVars
<1>6. QED
  BY <1>3, <1>4, <1>5 DEF BitSideNodeRemove

(* The linked list with its unlocked tests behaves, for its producers and  *)
(* its reader, as a queue whose operations are atomic.                     *)
THEOREM Refinement == Spec => ImplementsFifo
<1>1. IndInv /\ [Next]_vars => [Fifo!FifoNext]_Fifo!fifoVars
  <2> SUFFICES ASSUME IndInv, [Next]_vars PROVE [Fifo!FifoNext]_Fifo!fifoVars
    OBVIOUS
  <2>1. CASE UNCHANGED vars
    BY <2>1 DEF vars, shared, local, Fifo!fifoVars, Adding
  <2>2. CASE \E p \in Producer : AddBitSideHead(p)
    BY <2>2, AddMaps
  <2>3. CASE BitSideNodeRemove
    BY <2>3, RemoveMaps
  <2>4. QED
    BY <2>1, <2>2, <2>3 DEF Next
<1>2. QED
  BY <1>1, InitMaps, Inductive, PTL DEF Spec, ImplementsFifo, Fifo!FifoSpec

-----------------------------------------------------------------------------
(* How the server starts.                                                  *)

(* No thread, no connection.                                               *)
Quiet(s) ==
  /\ apply[s] = "off"
  /\ slSessionList[s] = {}
  /\ \A c \in Client : ServerOf[c] = s => session[c] # "open"
Idle(s) == Quiet(s) /\ iTcpServerSocket[s] = INVALID_SOCKET
Up(s) == apply[s] # "off" /\ wmMutex[s] = "lock" /\ iTcpServerSocket[s] = SOCKET

Creating == pc \in {"bind", "lock", "thread"}
Closing == pc \in {"clear", "close", "join"}

(* The server that is being created is quiet until its thread is started,  *)
(* and has a socket and then a lock before.                                *)
Opening(s) ==
  /\ Quiet(s)
  /\ pc \in {"lock", "thread"} => iTcpServerSocket[s] = SOCKET
  /\ pc \notin {"lock", "thread"} => iTcpServerSocket[s] = INVALID_SOCKET
  /\ pc = "thread" => wmMutex[s] = "lock"

WhenStarted ==
  started => /\ pc \in {"menu", "crashed"}
             /\ created /\ pCMysqlDB /\ pBufferQueueNode /\ control
             /\ Up("rfid") /\ Up("user")
AtMenu == ~started /\ pc = "menu" => Idle("rfid") /\ Idle("user")
OpeningFirst ==
  (Creating \/ Closing) /\ opening = "rfid" => Opening("rfid") /\ Idle("user")
(* The first server is up while the second is created, and its thread runs *)
(* for ever when that fails.                                               *)
OpeningSecond ==
  (Creating \/ Closing) /\ opening = "user" =>
    /\ Opening("user")
    /\ apply["rfid"] # "off" /\ wmMutex["rfid"] = "lock"
    /\ pc # "join" => iTcpServerSocket["rfid"] = SOCKET
Finishing ==
  pc \in {"queue", "control"} =>
    /\ Up("rfid") /\ Up("user")
    /\ pc = "control" => pBufferQueueNode
AfterCrash == ~started /\ pc = "crashed" => apply["rfid"] = "off" /\ apply["user"] = "off"
Exists == pc \notin {"menu", "crashed"} => created /\ pCMysqlDB

StartInv ==
  /\ StartTypeOK
  /\ WhenStarted /\ AtMenu /\ OpeningFirst /\ OpeningSecond
  /\ Finishing /\ AfterCrash /\ Exists

-----------------------------------------------------------------------------
(* The variables keep their kinds: a step, of the main thread or another.  *)
LEMMA StartTypeStep ==
  ASSUME StartTypeOK, [StartNext]_startVars
  PROVE  StartTypeOK'
  <1> USE DEF StartTypeOK, Server, SOCKET, INVALID_SOCKET, Port, OtherPort,
              mainVars, serverVars, threadVars, queueVars
  <1>1. CASE CServerControlInit
    BY <1>1, CommandsAssumption DEF CServerControlInit, MariaDBLibInitialze
  <1>2. CASE Broadcast
    BY <1>2, CommandsAssumption DEF Broadcast, WMLockReturns, WMLockCrashes, Crash
  <1>3. CASE OpenSocket
    BY <1>3 DEF OpenSocket, Asked
  <1>4. CASE CreateServerLock
    BY <1>4 DEF CreateServerLock
  <1>5. CASE StartAcceptThread
    BY <1>5 DEF StartAcceptThread
  <1>6. CASE NewQueue
    BY <1>6 DEF NewQueue
  <1>7. CASE StartControl
    BY <1>7 DEF StartControl
  <1>8. CASE ClearAllTcpSession
    BY <1>8 DEF ClearAllTcpSession, WMLockReturns, WMLockCrashes, Crash
  <1>9. CASE CloseListener
    BY <1>9 DEF CloseListener
  <1>10. CASE JoinAndDelete
    <2> HIDE DEF StartTypeOK, Server, Port, SOCKET, INVALID_SOCKET, threadVars, queueVars
    <2>0. created \in BOOLEAN
      BY DEF StartTypeOK
    <2>1. /\ pc' \in {"menu", "crashed"} /\ created' \in BOOLEAN
          /\ UNCHANGED <<opening, commands, pCMysqlDB, started, iTcpServerSocket, usTcpServerPort,
                         threadVars, queueVars>>
      BY <1>10, <2>0 DEF JoinAndDelete, Crash
    <2>2. wmMutex' \in [Server -> {"garbage", "lock", "destroyed"}]
      BY <1>10 DEF JoinAndDelete, StartTypeOK, Server
    <2> QED
      BY <2>1, <2>2 DEF StartTypeOK, threadVars, queueVars
  <1>11. CASE ThreadProcServerControl
    BY <1>11 DEF ThreadProcServerControl
  <1>12. ASSUME NEW s \in Server, EnterAccept(s)
        PROVE  StartTypeOK'
    BY <1>12 DEF EnterAccept, AcceptLoopGoesOn
  <1>13. ASSUME NEW s \in Server, AddTcpSession(s)
        PROVE  StartTypeOK'
    BY <1>13 DEF AddTcpSession
  <1>14. ASSUME NEW s \in Server, NEW c \in Client, Accept(s, c)
        PROVE  StartTypeOK'
    BY <1>14 DEF Accept
  <1>15. ASSUME NEW c \in Client, ReceiveTcpHandleBuff(c)
        PROVE  StartTypeOK'
    BY <1>15 DEF ReceiveTcpHandleBuff
  <1>16. CASE UNCHANGED startVars
    BY <1>16 DEF startVars
  <1> QED
    BY <1>1, <1>2, <1>3, <1>4, <1>5, <1>6, <1>7, <1>8, <1>9, <1>10,
       <1>11, <1>12, <1>13, <1>14, <1>15, <1>16
    DEF StartNext, Start

-----------------------------------------------------------------------------
(* The places of the main thread and what is true there.                   *)
LEMMA StartPlaceStep ==
  ASSUME StartInv, [StartNext]_startVars
  PROVE  /\ WhenStarted' /\ AtMenu' /\ OpeningFirst' /\ OpeningSecond'
         /\ Finishing' /\ AfterCrash' /\ Exists'
  <1> DEFINE Goal == /\ WhenStarted' /\ AtMenu' /\ OpeningFirst' /\ OpeningSecond'
                     /\ Finishing' /\ AfterCrash' /\ Exists'
  <1> USE DEF StartInv, StartTypeOK, WhenStarted, AtMenu, OpeningFirst, OpeningSecond, Finishing, AfterCrash,
              Exists, Quiet, Idle, Up, Opening, Creating, Closing, Server, SOCKET, INVALID_SOCKET,
              mainVars, serverVars, threadVars, queueVars
  <1>1. CASE CServerControlInit
    BY <1>1 DEF CServerControlInit, MariaDBLibInitialze
  <1>2. CASE Broadcast
    BY <1>2 DEF Broadcast, WMLockReturns, WMLockCrashes, Crash
  <1>3. CASE OpenSocket
    BY <1>3 DEF OpenSocket, Asked
  <1>4. CASE CreateServerLock
    BY <1>4 DEF CreateServerLock
  <1>5. CASE StartAcceptThread
    BY <1>5 DEF StartAcceptThread
  <1>6. CASE NewQueue
    BY <1>6 DEF NewQueue
  <1>7. CASE StartControl
    BY <1>7 DEF StartControl
  <1>8. CASE ClearAllTcpSession
    BY <1>8 DEF ClearAllTcpSession, WMLockReturns, WMLockCrashes, Crash
  <1>9. CASE CloseListener
    BY <1>9 DEF CloseListener
  <1>10. CASE JoinAndDelete
    <2>1. iTcpServerSocket["rfid"] # 0
      OBVIOUS
    <2>2. apply["rfid"] = "off" /\ pc = "join"
      BY <1>10, <2>1 DEF JoinAndDelete, AcceptThreadEnded, AcceptLoopGoesOn
    <2>3. opening = "rfid" /\ ~started
      BY <2>2
    <2>4. Idle("rfid") /\ Idle("user")
      BY <2>2, <2>3
    <2>5. /\ pc' \in {"menu", "crashed"}
          /\ UNCHANGED <<opening, started, iTcpServerSocket, threadVars>>
      BY <1>10 DEF JoinAndDelete, Crash
    <2>6. Idle("rfid")' /\ Idle("user")'
      BY <2>4, <2>5
    <2> HIDE DEF Quiet, Idle, StartTypeOK
    <2> QED
      BY <2>3, <2>5, <2>6 DEF Idle, Quiet
  <1>11. CASE ThreadProcServerControl
    BY <1>11 DEF ThreadProcServerControl
  <1>12. ASSUME NEW s \in Server, EnterAccept(s)
        PROVE  Goal
    BY <1>12, ClientAssumption DEF EnterAccept, AcceptLoopGoesOn, Running
  <1>13. ASSUME NEW s \in Server, AddTcpSession(s)
        PROVE  Goal
    BY <1>13, ClientAssumption DEF AddTcpSession, Running
  <1>14. ASSUME NEW s \in Server, NEW c \in Client, Accept(s, c)
        PROVE  Goal
    BY <1>14, ClientAssumption DEF Accept, Running
  <1>15. ASSUME NEW c \in Client, ReceiveTcpHandleBuff(c)
        PROVE  Goal
    BY <1>15, ClientAssumption DEF ReceiveTcpHandleBuff, Running
  <1>16. CASE UNCHANGED startVars
    BY <1>16 DEF startVars
  <1> QED
    BY <1>1, <1>2, <1>3, <1>4, <1>5, <1>6, <1>7, <1>8, <1>9, <1>10,
       <1>11, <1>12, <1>13, <1>14, <1>15, <1>16
    DEF StartNext, Start

(* StartInv is an inductive invariant of the start.                          *)
THEOREM StartInductive == StartSpec => []StartInv
  <1>1. StartInit => StartInv
    <2> SUFFICES ASSUME StartInit PROVE StartInv
      OBVIOUS
    <2> USE DEF StartInit
    <2>0. commands \in 0..MaxCommands
      BY CommandsAssumption
    <2>1. /\ pc = "menu" /\ opening \in Server
          /\ {created, pCMysqlDB, pBufferQueueNode, control, started} \subseteq BOOLEAN
      BY DEF Server
    <2>2. /\ wmMutex \in [Server -> {"garbage", "lock", "destroyed"}]
          /\ iTcpServerSocket \in [Server -> {INVALID_SOCKET, SOCKET}]
          /\ usTcpServerPort \in [Server -> Port]
          /\ apply \in [Server -> {"off", "test", "accept", "push"}]
      BY DEF Port
    <2>3. /\ accepted \in [Server -> SUBSET Client]
          /\ slSessionList \in [Server -> SUBSET Client]
          /\ session \in [Client -> {"none", "open", "closed"}]
          /\ message \in [Client -> {"none", "dropped", "queued", "handled"}]
      OBVIOUS
    <2>4. StartTypeOK
      BY <2>0, <2>1, <2>2, <2>3 DEF StartTypeOK
    <2>5. Idle("rfid") /\ Idle("user")
      BY DEF Idle, Quiet, Server
    <2> QED
      BY <2>1, <2>4, <2>5
      DEF StartInv, WhenStarted, AtMenu, OpeningFirst, OpeningSecond, Finishing, AfterCrash, Exists,
          Creating, Closing
  <1>2. StartInv /\ [StartNext]_startVars => StartInv'
    BY StartTypeStep, StartPlaceStep DEF StartInv
  <1> QED
    BY <1>1, <1>2, PTL DEF StartSpec

-----------------------------------------------------------------------------
(* The variables of the start keep their kinds.                            *)
THEOREM StartTypeCorrect == StartSpec => []StartTypeOK
  <1>1. StartInv => StartTypeOK
    BY DEF StartInv
  <1> QED
    BY <1>1, StartInductive, PTL

(* No accept thread ever works on a deleted server or on a lock that was   *)
(* not created, whatever fails (TCPServerHandle.cpp 61-63, 68-86).         *)
THEOREM ThreadsSafe == StartSpec => []AcceptLoopSafe
  <1>1. StartInv => AcceptLoopSafe
    BY DEF StartInv, StartTypeOK, WhenStarted, AtMenu, OpeningFirst, OpeningSecond, Finishing, AfterCrash,
           Exists, Quiet, Idle, Up, Opening, Creating, Closing, Server, AcceptLoopSafe
  <1> QED
    BY <1>1, StartInductive, PTL

(* A server that was started stays whole, however often the console starts *)
(* it again (ServerControl.cpp 44-57).                                     *)
THEOREM StaysWhole == StartSpec => []StartedIsWhole
  <1>1. StartInv => StartedIsWhole
    BY DEF StartInv, WhenStarted, Up, Server, StartedIsWhole
  <1> QED
    BY <1>1, StartInductive, PTL

(* A start that returns without success leaves nothing running and no port *)
(* open (ServerControl.cpp 79-98).                                         *)
THEOREM FailsCleanly == StartSpec => []CleanFailure
  <1>1. StartInv => CleanFailure
    BY ClientAssumption DEF StartInv, AtMenu, Idle, Quiet, Server, CleanFailure
  <1> QED
    BY <1>1, StartInductive, PTL
=============================================================================
