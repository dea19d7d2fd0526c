-------------------------------- MODULE Lease --------------------------------
(***************************************************************************)
(* What renting promises to the owners of machines and to the tenants of   *)
(* their GPUs, while no tenant moves out: a machine is listed once, with   *)
(* a stock of GPUs; whoever finds enough of them free holds some; a hold   *)
(* may be given up until the tenant has moved in, and never after; what    *)
(* is free is always the stock less what is held and taken.                *)
(***************************************************************************)
EXTENDS Sums

CONSTANTS
  Provider,
  Job,
  Home,    \* [Job -> Provider ...]: the machine a job is meant for
  Size,    \* [Job -> Nat]: the GPUs it takes
  Stock    \* [Provider -> Nat]: the GPUs of a machine

VARIABLES
  listed,  \* the machines on the market
  holds,   \* jobs that hold GPUs and have not moved in
  tenants, \* jobs that have
  free     \* [listed -> Nat]: what the next job may ask for

leaseVars == <<listed, holds, tenants, free>>

TakenAt(p, J) == Total(Size, {j \in J : Home[j] = p})
Left(L, J) == [p \in L |-> Stock[p] - TakenAt(p, J)]

Init ==
  /\ listed = {}
  /\ holds = {} /\ tenants = {}
  /\ free = Left({}, {})

List(p) ==
  /\ p \notin listed
  /\ listed' = listed \cup {p}
  /\ UNCHANGED <<holds, tenants>>

Hold(j) ==
  /\ j \notin holds \cup tenants
  /\ Home[j] \in listed
  /\ Size[j] <= free[Home[j]]
  /\ holds' = holds \cup {j}
  /\ UNCHANGED <<listed, tenants>>

GiveUp(J) ==
  /\ J \subseteq holds
  /\ holds' = holds \ J
  /\ UNCHANGED <<listed, tenants>>

MoveIn(j) ==
  /\ j \in holds
  /\ holds' = holds \ {j}
  /\ tenants' = tenants \cup {j}
  /\ UNCHANGED listed

Next ==
  /\ \/ \E p \in Provider : List(p)
     \/ \E j \in Job : Hold(j) \/ MoveIn(j)
     \/ \E J \in SUBSET Job : GiveUp(J)
  /\ free' = Left(listed', holds' \cup tenants')

Spec == Init /\ [][Next]_leaseVars
=============================================================================
