------------------------------ MODULE RfidDeque ------------------------------
(***************************************************************************)
(* LinuxServer/serverControl/RfidDeque.cpp: the table that says through    *)
(* which connection a device is reached.  A table is a function from       *)
(* socket ids to devices, NULL where the map has no entry; the key of an   *)
(* entry and its iSocketId are always the same number.                     *)
(*                                                                         *)
(* addBufferMap erases the map node its iterator is on (line 35) and then  *)
(* increments that iterator (line 38), which is undefined.  The outcomes   *)
(* considered are those in which the walk stays in the tree: of the        *)
(* entries after the first match, it may pass over any.                    *)
(***************************************************************************)
EXTENDS Integers

CONSTANT NULL   (* no device: the slot of a socket id without an entry      *)

(* The socket id of a session that ended (SocketLib, Linux).               *)
INVALID_SOCKET == -1

(* Variant: the test looks at the socket alone.                            *)
Matches_SocketOnly(m, s, d) == {k \in DOMAIN m : m[k] # NULL /\ k = s}

(* addBufferMap, the test of line 30.                                      *)
Matches(m, s, d) == {k \in DOMAIN m : m[k] # NULL /\ (k = s \/ m[k] = d)}

First(S) == CHOOSE k \in S : \A j \in S : k <= j

(* addBufferMap: the walk removes the first match for certain and passes   *)
(* over any of the others, the set "passed"; the insertion of line 40 does *)
(* nothing when the key is still there.                                    *)
AddBufferMap(m, s, d, passed) ==
  LET gone == Matches(m, s, d) \ passed
      kept == [k \in DOMAIN m |-> IF k \in gone THEN NULL ELSE m[k]]
  IN  [kept EXCEPT ![s] = IF @ = NULL THEN d ELSE @]

(* The entries the walk may pass over.                                     *)
MayPass(m, s, d) ==
  {P \in SUBSET Matches(m, s, d) :
     Matches(m, s, d) # {} => First(Matches(m, s, d)) \notin P}

(* GetSocketId: the walk is in the order of the keys and stops at the      *)
(* first entry of the device; the caller's 0 stays when there is none.     *)
Holders(m, d) == {k \in DOMAIN m : m[k] = d}
GetSocketId(m, d) == IF Holders(m, d) = {} THEN 0 ELSE First(Holders(m, d))

(* GetDeviceId: the device registered through the connection s; the        *)
(* caller's empty string stays when there is none.                         *)
GetDeviceId(m, s) == IF s \in DOMAIN m THEN m[s] ELSE NULL
=============================================================================
