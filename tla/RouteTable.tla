----------------------------- MODULE RouteTable ------------------------------
(***************************************************************************)
(* What the device tables of the server promise the code that routes a     *)
(* message: registrations take effect in the order in which they reached   *)
(* the control thread, and each one changes the route of its own device    *)
(* and of no other.  The source of a registration can be lost on the way;  *)
(* nothing is promised of that device's route from then on.                *)
(***************************************************************************)
EXTENDS Integers, Sequences

CONSTANTS Conn,     (* the socket ids of the connections                    *)
          Device,   (* the identities devices register under                *)
          Lost      (* what a registration carries that lost its source, and *)
                    (* the route of which nothing is promised                *)

VARIABLES arrived,  (* registrations received and not yet handled           *)
          route     (* where messages for a device go; 0: nowhere           *)

routeVars == <<arrived, route>>

RouteInit ==
  /\ arrived = <<>>
  /\ route = [d \in Device |-> 0]

(* A registration of device d arrives through the connection t, or from a  *)
(* source that is lost.                                                    *)
Arrive(t, d) ==
  /\ arrived' = Append(arrived, [src |-> t, dev |-> d])
  /\ UNCHANGED route

(* The oldest registration takes effect, unless its device's route has     *)
(* been lost.                                                              *)
Apply ==
  /\ arrived # <<>>
  /\ arrived' = Tail(arrived)
  /\ route' = [route EXCEPT ![Head(arrived).dev] =
                 IF @ = Lost THEN Lost ELSE Head(arrived).src]

RouteNext ==
  \/ \E t \in Conn \union {Lost}, d \in Device : Arrive(t, d)
  \/ Apply

RouteSpec == RouteInit /\ [][RouteNext]_routeVars
=============================================================================
