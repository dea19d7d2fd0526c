------------------------------- MODULE Escrow -------------------------------
(***************************************************************************)
(* What GPUVault promises to the people whose tokens it keeps: one pot,    *)
(* and in it a fund for each account.  A fund is only raised by tokens     *)
(* that come in and only lowered by tokens that are paid out of it; what   *)
(* the pot holds beyond the funds was given to it.                         *)
(***************************************************************************)
EXTENDS Sums

CONSTANT Account

VARIABLES
  pot,    \* the tokens the contract holds
  funds,  \* what each account may have back or spend
  gifts   \* tokens of the pot that are nobody's

escrowVars == <<pot, funds, gifts>>

Init == pot = 0 /\ funds = [a \in Account |-> 0] /\ gifts = 0

Only(a) == funds' = [funds EXCEPT ![a] = funds'[a]]

PutIn(a) ==
  LET n == funds'[a] - funds[a]
  IN /\ n >= 0
     /\ Only(a)
     /\ pot' = pot + n
     /\ UNCHANGED gifts

\* n tokens of a's are paid out, some of them perhaps to the escrow itself.
PayOut(a) ==
  LET n == funds[a] - funds'[a]
      kept == gifts' - gifts
  IN /\ funds'[a] >= 0
     /\ 0 <= kept /\ kept <= n
     /\ Only(a)
     /\ pot' = pot - (n - kept)

Give ==
  LET n == gifts' - gifts
  IN /\ n >= 0
     /\ pot' = pot + n
     /\ UNCHANGED funds

Next == (\E a \in Account : PutIn(a) \/ PayOut(a)) \/ Give

Spec == Init /\ [][Next]_escrowVars
=============================================================================
