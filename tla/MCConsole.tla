----------------------------- MODULE MCConsole -----------------------------
(* The instance of Console for TLC: the development user, whose token a server *)
(* that checks tokens rejects, and a user with one job.                     *)
EXTENDS Console, TLC

CONSTANTS dev, ann, nobody, garbled, rejected, job, box1, box2, gpu

TheKind == [p \in Provider |-> gpu]
TheOffer == [p \in Provider |-> IF p = box1 THEN 1 ELSE 0]
TheCaller == ann :> ann @@ dev :> rejected @@ nobody :> rejected
TheSupply == [p \in Provider |-> IF p = box1 THEN Level ELSE {1}]
ThePolls == [jobs |-> 2, create |-> 1]
=============================================================================
