------------------------------ MODULE GPUVault ------------------------------
(***************************************************************************)
(* The payment contract, contracts/src/GPUVault.sol: deposits, session     *)
(* keys, rentals settled by the second and payments signed off-chain.  A   *)
(* transaction is atomic and a revert undoes all of it, so each external   *)
(* function is one action and each revert a guard.  The token (an ERC-20)  *)
(* and the signatures people make are the environment.                     *)
(*                                                                         *)
(* uint256 is a natural number here: the checked arithmetic of Solidity    *)
(* reverts where a number would not fit.                                   *)
(***************************************************************************)
EXTENDS Sums, Sequences

CONSTANTS
  Account,        \* addresses that hold tokens and sign
  NoAccount,      \* the zero address
  Vault,          \* the address of the contract
  Wallet,         \* the accounts that deposit, rent and delegate
  Key,            \* the accounts that are made session keys
  Payee,          \* where rentals and payments send tokens
  Owner,          \* the first fee recipient
  Purse,          \* [Account -> Nat]: the tokens people begin with
  Amount,         \* the amounts, limits and prices that calls name
  FeeBps,         \* the fees the owner sets
  MaxDuration,    \* 30 days, in units of block time
  Horizon,        \* bound: the last block time
  MaxRentals,     \* bound: rentals started
  MaxSignatures,  \* bound: messages signed
  MaxGifts,       \* bound: tokens given away, before one more gift
  MaxDelegated    \* bound: the limits one wallet grants, in all

BasisPoints == 10000
Holder == Account \cup {Vault}

ASSUME VaultAssumption ==
  /\ IsFiniteSet(Account)
  /\ NoAccount \notin Account \cup {Vault} /\ Vault \notin Account
  /\ Wallet \subseteq Account /\ Key \subseteq Account /\ Owner \in Account
  /\ Payee \subseteq Holder \cup {NoAccount}
  /\ Purse \in [Account -> Nat]
  /\ Amount \subseteq Nat
  /\ FeeBps \subseteq Nat
  /\ {MaxDuration, Horizon, MaxRentals, MaxSignatures, MaxGifts,
      MaxDelegated} \subseteq Nat

VARIABLES
  balance,        \* external: the token's balances
  deposits,
  sessionKeys,
  nonces,
  rentals,        \* a rental's id is its place in the sequence
  platformFeeBps,
  feeRecipient,
  now,            \* block.timestamp
  signed,         \* external: the EIP-712 messages people have signed
  used,           \* ghost: the signed messages that took effect
  delegated,      \* ghost: the limits each wallet has granted, in all
  drawn,          \* ghost: what keys have paid out of each wallet's deposit
  gifts           \* ghost: tokens sent to the contract outside deposit()

money == <<balance, deposits, gifts>>
delegation == <<sessionKeys, delegated>>
fees == <<platformFeeBps, feeRecipient>>
vars == <<money, delegation, nonces, rentals, fees, now, signed, used, drawn>>

-----------------------------------------------------------------------------
(* The token, and what is signed *)

Move(b, from, to, n) ==
  [[b EXCEPT ![from] = @ - n] EXCEPT ![to] = @ + n]

Kept(to, n) == IF to = Vault THEN n ELSE 0

\* The typed data of registerSessionKeyWithSignature and of
\* processPaymentWithSessionKey, each with the signer's nonce.
Delegation ==
  [kind : {"delegation"}, by : Account, key : Account, limit : Nat,
   expiry : Nat, nonce : Nat]
Payment ==
  [kind : {"payment"}, by : Account, from : Account, to : Holder,
   amount : Nat, deadline : Nat, nonce : Nat]

NoKey == [mainWallet |-> NoAccount, spendLimit |-> 0, spentAmount |-> 0,
          expiry |-> 0, isActive |-> FALSE]

\* What a wallet or a key may sign at any time, for the nonce it then reads
\* from the contract; nobody has to submit it.
Signable ==
  [kind : {"delegation"}, by : Wallet, key : Key, limit : Amount,
   expiry : {Horizon}, nonce : 0 .. MaxSignatures]
  \cup
  [kind : {"payment"}, by : Key, from : Wallet, to : Payee \ {NoAccount},
   amount : Amount, deadline : {Horizon}, nonce : 0 .. MaxSignatures]

Sign(m) ==
  /\ m.nonce = nonces[m.by]
  /\ Cardinality(signed) < MaxSignatures
  /\ signed' = signed \cup {m}
  /\ UNCHANGED <<money, delegation, nonces, rentals, fees, now, used, drawn>>

\* Anyone may send tokens to the contract by the token's own transfer.
Give(a, n) ==
  /\ balance[a] >= n
  /\ gifts < MaxGifts
  /\ balance' = Move(balance, a, Vault, n)
  /\ gifts' = gifts + n
  /\ UNCHANGED <<deposits, delegation, nonces, rentals, fees, now, signed,
                 used, drawn>>

Tick ==
  /\ now < Horizon
  /\ now' = now + 1
  /\ UNCHANGED <<money, delegation, nonces, rentals, fees, signed, used, drawn>>

-----------------------------------------------------------------------------
(* Deposits *)

Deposit(a, n) ==
  /\ n > 0
  /\ balance[a] >= n
  /\ balance' = Move(balance, a, Vault, n)
  /\ deposits' = [deposits EXCEPT ![a] = @ + n]
  /\ UNCHANGED <<gifts, delegation, nonces, rentals, fees, now, signed, used,
                 drawn>>

\* Mutant: only the contract's own balance limits a withdrawal.
WithdrawUnchecked(a, n) ==
  /\ n > 0
  /\ balance[Vault] >= n
  /\ deposits' = [deposits EXCEPT ![a] = @ - n]
  /\ balance' = Move(balance, Vault, a, n)
  /\ UNCHANGED <<gifts, delegation, nonces, rentals, fees, now, signed, used,
                 drawn>>

Withdraw(a, n) ==
  /\ n > 0
  /\ deposits[a] >= n
  /\ balance[Vault] >= n
  /\ deposits' = [deposits EXCEPT ![a] = @ - n]
  /\ balance' = Move(balance, Vault, a, n)
  /\ UNCHANGED <<gifts, delegation, nonces, rentals, fees, now, signed, used,
                 drawn>>

-----------------------------------------------------------------------------
(* Session keys *)

\* Whoever registers a key last has it: an entry of another wallet, or one
\* that was used in part, is replaced.
Delegate(w, k, limit, expiry) ==
  /\ delegated[w] + limit <= MaxDelegated
  /\ sessionKeys' = [sessionKeys EXCEPT ![k] =
       [mainWallet |-> w, spendLimit |-> limit, spentAmount |-> 0,
        expiry |-> expiry, isActive |-> TRUE]]
  /\ delegated' = [delegated EXCEPT ![w] = @ + limit]

RegisterSessionKey(w, k, limit, duration) ==
  /\ limit > 0
  /\ 0 < duration /\ duration <= MaxDuration
  /\ Delegate(w, k, limit, now + duration)
  /\ UNCHANGED <<money, nonces, rentals, fees, now, signed, used, drawn>>

\* The contract recomputes the message with the nonce it holds: a signature
\* over any other nonce recovers to somebody else and reverts.
Fresh(m) == m.nonce = nonces[m.by]

\* Mutant: the nonce is verified and not incremented.
AcceptAgain(m) ==
  /\ Fresh(m)
  /\ UNCHANGED nonces
  /\ used' = used \cup {m}

Accept(m) ==
  /\ Fresh(m)
  /\ nonces' = [nonces EXCEPT ![m.by] = @ + 1]
  /\ used' = used \cup {m}

RegisterSessionKeyWithSignature(m) ==
  /\ m.kind = "delegation"
  /\ m.expiry > now
  /\ Accept(m)
  /\ Delegate(m.by, m.key, m.limit, m.expiry)
  /\ UNCHANGED <<money, rentals, fees, now, signed, drawn>>

RevokeSessionKey(w, k) ==
  /\ sessionKeys[k].mainWallet = w
  /\ sessionKeys' = [sessionKeys EXCEPT ![k].isActive = FALSE]
  /\ UNCHANGED <<money, delegated, nonces, rentals, fees, now, signed, used,
                 drawn>>

\* isActive, and block.timestamp <= expiry.
Usable(k) == sessionKeys[k].isActive /\ now <= sessionKeys[k].expiry

-----------------------------------------------------------------------------
(* Rentals *)

Start(w, provider, price) ==
  /\ deposits[w] > 0
  /\ Len(rentals) < MaxRentals
  /\ rentals' = Append(rentals,
       [renter |-> w, provider |-> provider, pricePerSecond |-> price,
        startTime |-> now, isActive |-> TRUE])
  /\ UNCHANGED <<money, delegation, nonces, fees, now, signed, used, drawn>>

StartRental(w, provider, price) == price > 0 /\ Start(w, provider, price)

\* The price is not checked here: with a session key a rental may cost nothing.
StartRentalWithSessionKey(k, provider, price) ==
  /\ Usable(k)
  /\ Start(sessionKeys[k].mainWallet, provider, price)

Cost(r) == (now - r.startTime) * r.pricePerSecond
Fee(cost) == (cost * platformFeeBps) \div BasisPoints

\* Mutant: provider and platform are each rounded on their own.
SettleRounded(r) ==
  LET cost == Cost(r)
      fee == Fee(cost)
      share == (cost * (BasisPoints - platformFeeBps)) \div BasisPoints
  IN /\ deposits[r.renter] >= cost
     /\ r.provider # NoAccount
     /\ balance[Vault] >= cost
     /\ deposits' = [deposits EXCEPT ![r.renter] = @ - cost]
     /\ balance' = Move(Move(balance, Vault, r.provider, share),
                        Vault, feeRecipient, fee)
     /\ gifts' = gifts + Kept(r.provider, share) + Kept(feeRecipient, fee)

\* The renter is charged, the provider and the platform are paid; the token
\* refuses the zero address.
Settle(r) ==
  LET cost == Cost(r)
      fee == Fee(cost)
  IN /\ deposits[r.renter] >= cost
     /\ r.provider # NoAccount
     /\ balance[Vault] >= cost
     /\ deposits' = [deposits EXCEPT ![r.renter] = @ - cost]
     /\ balance' = Move(Move(balance, Vault, r.provider, cost - fee),
                        Vault, feeRecipient, fee)
     /\ gifts' = gifts + Kept(r.provider, cost - fee) + Kept(feeRecipient, fee)

\* Anyone may end a rental; one that costs nothing yet ends without payment.
EndRental(i) ==
  /\ rentals[i].isActive
  /\ \/ Cost(rentals[i]) = 0 /\ UNCHANGED money
     \/ Cost(rentals[i]) > 0 /\ Settle(rentals[i])
  /\ rentals' = [rentals EXCEPT ![i].isActive = FALSE]
  /\ UNCHANGED <<delegation, nonces, fees, now, signed, used, drawn>>

-----------------------------------------------------------------------------
(* Payments signed by a session key *)

\* Mutant: the limit is checked and never charged.
PayUncounted(k, to, n) ==
  LET w == sessionKeys[k].mainWallet
  IN /\ sessionKeys[k].spentAmount + n <= sessionKeys[k].spendLimit
     /\ deposits[w] >= n /\ balance[Vault] >= n
     /\ deposits' = [deposits EXCEPT ![w] = @ - n]
     /\ balance' = Move(balance, Vault, to, n)
     /\ gifts' = gifts + Kept(to, n)
     /\ drawn' = [drawn EXCEPT ![w] = @ + n]
     /\ UNCHANGED sessionKeys

PayFrom(k, to, n) ==
  LET w == sessionKeys[k].mainWallet
  IN /\ sessionKeys[k].spentAmount + n <= sessionKeys[k].spendLimit
     /\ deposits[w] >= n /\ balance[Vault] >= n
     /\ sessionKeys' = [sessionKeys EXCEPT ![k].spentAmount = @ + n]
     /\ deposits' = [deposits EXCEPT ![w] = @ - n]
     /\ balance' = Move(balance, Vault, to, n)
     /\ gifts' = gifts + Kept(to, n)
     /\ drawn' = [drawn EXCEPT ![w] = @ + n]

ProcessPaymentWithSessionKey(m) ==
  /\ m.kind = "payment"
  /\ now <= m.deadline
  /\ Usable(m.by)
  /\ sessionKeys[m.by].mainWallet = m.from
  /\ Accept(m)
  /\ PayFrom(m.by, m.to, m.amount)
  /\ UNCHANGED <<delegated, rentals, fees, now, signed>>

-----------------------------------------------------------------------------
(* The owner *)

SetPlatformFee(f) ==
  /\ f <= 1000
  /\ platformFeeBps' = f
  /\ UNCHANGED <<money, delegation, nonces, rentals, feeRecipient, now, signed,
                 used, drawn>>

SetFeeRecipient(a) ==
  /\ feeRecipient' = a
  /\ UNCHANGED <<money, delegation, nonces, rentals, platformFeeBps, now,
                 signed, used, drawn>>

-----------------------------------------------------------------------------
Init ==
  /\ balance = [h \in Holder |-> IF h = Vault THEN 0 ELSE Purse[h]]
  /\ deposits = [a \in Account |-> 0]
  /\ gifts = 0
  /\ sessionKeys = [a \in Account |-> NoKey]
  /\ delegated = [a \in Account |-> 0]
  /\ drawn = [a \in Account |-> 0]
  /\ nonces = [a \in Account |-> 0]
  /\ rentals = <<>>
  /\ platformFeeBps = 500 /\ feeRecipient = Owner
  /\ now = 0
  /\ signed = {} /\ used = {}

Next ==
  \/ Tick
  \/ \E m \in Signable : Sign(m)
  \/ \E w \in Wallet, n \in Amount : Deposit(w, n) \/ Withdraw(w, n) \/ Give(w, n)
  \/ \E w \in Wallet, k \in Key :
       \/ \E limit \in Amount, d \in 1 .. MaxDuration :
            RegisterSessionKey(w, k, limit, d)
       \/ RevokeSessionKey(w, k)
  \/ \E p \in Payee, price \in Amount \cup {0} :
       \/ \E w \in Wallet : StartRental(w, p, price)
       \/ \E k \in Key : StartRentalWithSessionKey(k, p, price)
  \/ \E i \in 1 .. Len(rentals) : EndRental(i)
  \/ \E m \in signed :
       RegisterSessionKeyWithSignature(m) \/ ProcessPaymentWithSessionKey(m)
  \/ \E f \in FeeBps : SetPlatformFee(f)
  \/ \E a \in Payee \ {NoAccount} : SetFeeRecipient(a)

Spec == Init /\ [][Next]_vars

-----------------------------------------------------------------------------
(* Properties *)

\* Every variable has its type: with naturals for deposits and balances, no
\* path through the contract lets either go below zero.
VaultTypeOK ==
  /\ balance \in [Holder -> Nat]
  /\ deposits \in [Account -> Nat]
  /\ gifts \in Nat
  /\ sessionKeys \in [Account ->
       [mainWallet : Account \cup {NoAccount}, spendLimit : Nat,
        spentAmount : Nat, expiry : Nat, isActive : BOOLEAN]]
  /\ \A k \in Account :
       sessionKeys[k].isActive => sessionKeys[k].mainWallet \in Account
  /\ delegated \in [Account -> Nat] /\ drawn \in [Account -> Nat]
  /\ nonces \in [Account -> Nat]
  /\ rentals \in Seq([renter : Account, provider : Holder \cup {NoAccount},
                      pricePerSecond : Nat, startTime : Nat,
                      isActive : BOOLEAN])
  /\ \A i \in 1 .. Len(rentals) : rentals[i].startTime <= now
  /\ platformFeeBps \in 0 .. 1000 /\ feeRecipient \in Holder
  /\ now \in Nat
  /\ signed \subseteq Delegation \cup Payment /\ used \subseteq signed

\* Every token the contract holds is somebody's deposit or was given to it:
\* deposits can all be paid back, and settling a rental strands no fraction
\* between the renter's charge and what provider and platform are paid.
Solvent == balance[Vault] = Total(deposits, Account) + gifts

\* A signed message that took effect can never take effect again, however
\* often it is submitted and whatever is registered or revoked in between:
\* its nonce lies behind the signer's.
UsedSignaturesAreDead == \A m \in used : m.nonce < nonces[m.by]

\* All the payments ever made by keys out of a wallet's deposit stay within
\* the limits the wallet granted, through keys that expire, are revoked,
\* registered again while in use, or taken over by another wallet.
ExposureIsBounded == \A w \in Account : drawn[w] <= delegated[w]

\* The contract is an escrow: one transaction touches one deposit, by what
\* comes in or what goes out.
TheEscrow == INSTANCE Escrow WITH pot <- balance[Vault], funds <- deposits
RefinesEscrow == TheEscrow!Spec
=============================================================================
