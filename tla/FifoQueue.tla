------------------------------ MODULE FifoQueue ------------------------------
(***************************************************************************)
(* What the message queue of base/BaseVector.h promises its threads: a     *)
(* queue whose additions and removals each take effect at one instant      *)
(* between the call and the return, in the order of those instants, with   *)
(* nothing lost, duplicated or handed out twice.                           *)
(***************************************************************************)
EXTENDS Integers, Sequences

CONSTANTS Cell,   (* the messages: each one lives in a heap cell of its own *)
          NULL    (* the pointer to no cell                                 *)

VARIABLES calling,  (* cells whose addition was called and has no effect yet *)
          queue,    (* cells added and not yet removed, the oldest first     *)
          held      (* the cell the reader removed and is still using        *)

fifoVars == <<calling, queue, held>>

FifoInit ==
  /\ calling = {}
  /\ queue = <<>>
  /\ held = NULL

(* A thread calls the addition of a message that is nowhere in the queue.  *)
Call(n) ==
  /\ n \notin calling
  /\ n # held
  /\ \A i \in 1 .. Len(queue) : queue[i] # n
  /\ calling' = calling \union {n}
  /\ UNCHANGED <<queue, held>>

(* The addition takes effect: the message becomes the last one.            *)
Put(n) ==
  /\ n \in calling
  /\ calling' = calling \ {n}
  /\ queue' = Append(queue, n)
  /\ UNCHANGED held

(* The only reader takes the oldest message.                               *)
Get ==
  /\ held = NULL
  /\ queue # <<>>
  /\ held' = Head(queue)
  /\ queue' = Tail(queue)
  /\ UNCHANGED calling

(* The reader is done with the message and frees it.                       *)
Release ==
  /\ held # NULL
  /\ held' = NULL
  /\ UNCHANGED <<calling, queue>>

FifoNext ==
  \/ \E n \in Cell : Call(n) \/ Put(n)
  \/ Get
  \/ Release

FifoSpec == FifoInit /\ [][FifoNext]_fifoVars
=============================================================================
