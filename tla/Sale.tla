-------------------------------- MODULE Sale --------------------------------
(***************************************************************************)
(* What the checkout page promises: an order is delivered after it has     *)
(* been paid, and once.                                                    *)
(***************************************************************************)
EXTENDS Naturals

CONSTANT Order

VARIABLES
  paid,      \* the orders that have been paid
  delivered  \* delivered[o]: the jobs that have been created for order o

Init ==
  /\ paid = {}
  /\ delivered = [o \in Order |-> 0]

Pay(o) ==
  /\ o \notin paid
  /\ paid' = paid \cup {o}
  /\ UNCHANGED delivered

Deliver(o) ==
  /\ o \in paid /\ delivered[o] = 0
  /\ delivered' = [delivered EXCEPT ![o] = 1]
  /\ UNCHANGED paid

Next == \E o \in Order : Pay(o) \/ Deliver(o)

Spec == Init /\ [][Next]_<<paid, delivered>>
=============================================================================
