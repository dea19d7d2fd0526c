--------------------------- MODULE MCRegistration ---------------------------
(* Instances of Registration for TLC: one or two providers.                *)
EXTENDS Registration

CONSTANTS p1, p2

\* The bounds of a run: the events it names, and none of the others.
Limits(f) == [e \in Event |-> IF e \in DOMAIN f THEN f[e] ELSE 0]

AgentsBound ==
  Limits([crash |-> 1, stop |-> 1, dbFails |-> 1, redisFails |-> 1])
=============================================================================
