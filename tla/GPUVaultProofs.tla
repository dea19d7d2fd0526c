--------------------------- MODULE GPUVaultProofs ---------------------------
(***************************************************************************)
(* Theorems about GPUVault, for any accounts, amounts, fees and bounds: no *)
(* number goes below zero, deposits stay covered, a signature takes effect *)
(* once, session keys stay within what was delegated, and the contract     *)
(* implements the escrow it promises to be.                                *)
(***************************************************************************)
EXTENDS GPUVault, SumsProofs

Rental == [renter : Account, provider : Holder \cup {NoAccount},
           pricePerSecond : Nat, startTime : Nat, isActive : BOOLEAN]

LEMMA ConstantSets ==
  /\ \A w \in Wallet : w \in Account /\ w \in Holder /\ w # Vault
  /\ \A k \in Key : k \in Account
  /\ \A n \in Amount : n \in Nat
  /\ \A a \in Payee : a # NoAccount => a \in Holder
  /\ \A a \in Payee : a \in Holder \cup {NoAccount}
  /\ \A a \in Account : a \in Holder /\ a # Vault /\ a # NoAccount
  /\ Vault \in Holder /\ NoAccount \notin Holder
  /\ IsFiniteSet(Account)
BY VaultAssumption DEF Holder

LEMMA MoveType ==
  ASSUME NEW b \in [Holder -> Nat], NEW from \in Holder, NEW to \in Holder,
         NEW n \in Nat, n <= b[from]
  PROVE  /\ Move(b, from, to, n) \in [Holder -> Nat]
         /\ to # from => Move(b, from, to, n)[from] = b[from] - n
         /\ to # from => Move(b, from, to, n)[to] = b[to] + n
         /\ to = from => Move(b, from, to, n) = b
         /\ \A h \in Holder \ {from, to} : Move(b, from, to, n)[h] = b[h]
<1> DEFINE c == [b EXCEPT ![from] = @ - n]
<1>1. c \in [Holder -> Nat] /\ c[from] = b[from] - n
  OBVIOUS
<1>2. Move(b, from, to, n) = [c EXCEPT ![to] = @ + n]
  BY DEF Move
<1>3. \A h \in Holder : h # from => c[h] = b[h]
  OBVIOUS
<1> HIDE DEF c
<1> QED
  BY <1>1, <1>2, <1>3

LEMMA SignableMessages == Signable \subseteq Delegation \cup Payment
<1>1. /\ 0 .. MaxSignatures \subseteq Nat
      /\ Horizon \in Nat
      /\ Wallet \subseteq Account /\ Key \subseteq Account
      /\ Amount \subseteq Nat
      /\ Payee \ {NoAccount} \subseteq Holder
  BY VaultAssumption
<1> QED
  BY <1>1 DEF Signable, Delegation, Payment

\* What a payment out of a deposit does to the contract's own tokens.
LEMMA PaidOut ==
  ASSUME NEW b \in [Holder -> Nat], NEW to \in Holder, NEW n \in Nat,
         n <= b[Vault]
  PROVE  /\ Move(b, Vault, to, n)[Vault] = b[Vault] - n + Kept(to, n)
         /\ Kept(to, n) \in 0 .. n
<1>1. Vault \in Holder
  BY ConstantSets
<1>2. CASE to = Vault
  BY <1>1, <1>2, MoveType DEF Kept
<1>3. CASE to # Vault
  BY <1>1, <1>3, MoveType DEF Kept
<1> QED
  BY <1>2, <1>3

-----------------------------------------------------------------------------
(* Settling a rental *)

LEMMA FeeType ==
  ASSUME NEW cost \in Nat, platformFeeBps \in 0 .. 1000
  PROVE  Fee(cost) \in Nat /\ Fee(cost) <= cost
<1>1. cost * platformFeeBps \in Nat
  OBVIOUS
<1>2. cost * platformFeeBps <= cost * 1000
  OBVIOUS
<1> DEFINE x == cost * platformFeeBps
           q == x \div 10000
<1>3. x \in Nat /\ x <= cost * 1000
  BY <1>1, <1>2
<1> HIDE DEF x
<1>4. q \in Nat /\ q <= cost
  BY <1>3
<1> QED
  BY <1>4 DEF Fee, BasisPoints, x

\* The ledger side of a settlement: cost is what leaves the deposit, and
\* all of it leaves the contract but what is paid to the contract itself.
LEMMA SettleBooks ==
  ASSUME VaultTypeOK, NEW r \in Rental, r.startTime <= now, Settle(r)
  PROVE  /\ Cost(r) \in Nat /\ Cost(r) <= deposits[r.renter]
         /\ deposits' = [deposits EXCEPT ![r.renter] = @ - Cost(r)]
         /\ balance' \in [Holder -> Nat]
         /\ gifts' - gifts \in 0 .. Cost(r)
         /\ gifts' \in Nat
         /\ balance'[Vault] = balance[Vault] - Cost(r) + (gifts' - gifts)
<1> DEFINE cost == Cost(r)
           fee == Fee(cost)
           share == cost - fee
           first == Move(balance, Vault, r.provider, share)
<1>1. /\ balance \in [Holder -> Nat] /\ feeRecipient \in Holder /\ gifts \in Nat
      /\ r.provider \in Holder
      /\ Vault \in Holder
  BY ConstantSets DEF VaultTypeOK, Settle, Rental
<1>2. cost \in Nat
  <2>1. /\ now \in Nat /\ r.startTime \in Nat /\ r.pricePerSecond \in Nat
    BY DEF VaultTypeOK, Rental
  <2>2. now - r.startTime \in Nat
    BY <2>1
  <2> QED
    BY <2>1, <2>2 DEF Cost
<1>3. fee \in Nat /\ fee <= cost
  <2>1. platformFeeBps \in 0 .. 1000
    BY DEF VaultTypeOK
  <2> QED
    BY <1>2, <2>1, FeeType
<1>4. /\ cost <= balance[Vault]
      /\ cost <= deposits[r.renter]
      /\ deposits' = [deposits EXCEPT ![r.renter] = @ - cost]
      /\ balance' = Move(first, Vault, feeRecipient, fee)
      /\ gifts' = gifts + Kept(r.provider, share) + Kept(feeRecipient, fee)
  <2>1. balance[Vault] >= cost /\ deposits[r.renter] >= cost
    BY DEF Settle
  <2>2. deposits[r.renter] \in Nat /\ balance[Vault] \in Nat
    BY <1>1 DEF VaultTypeOK, Rental
  <2> QED
    BY <1>2, <2>1, <2>2 DEF Settle
<1> HIDE DEF cost, fee
<1>5. share \in Nat /\ share <= balance[Vault] /\ balance[Vault] \in Nat
  BY <1>1, <1>2, <1>3, <1>4
<1>6. /\ first \in [Holder -> Nat]
      /\ first[Vault] = balance[Vault] - share + Kept(r.provider, share)
      /\ Kept(r.provider, share) \in 0 .. share
  BY <1>1, <1>5, MoveType, PaidOut
<1>7. fee <= first[Vault]
  BY <1>1, <1>2, <1>3, <1>4, <1>5, <1>6
<1>8. /\ balance' \in [Holder -> Nat]
      /\ balance'[Vault] = first[Vault] - fee + Kept(feeRecipient, fee)
      /\ Kept(feeRecipient, fee) \in 0 .. fee
  BY <1>1, <1>3, <1>4, <1>6, <1>7, MoveType, PaidOut
<1> DEFINE a == Kept(r.provider, share)
           b == Kept(feeRecipient, fee)
           x == first[Vault]
<1>9. /\ a \in 0 .. (cost - fee) /\ b \in 0 .. fee
      /\ x = balance[Vault] - (cost - fee) + a
      /\ balance'[Vault] = x - fee + b
      /\ gifts' = gifts + a + b
  BY <1>4, <1>6, <1>8
<1> HIDE DEF a, b, x, first, share
<1>10. /\ gifts' - gifts \in 0 .. cost /\ gifts' \in Nat
       /\ balance'[Vault] = balance[Vault] - cost + (gifts' - gifts)
  BY <1>1, <1>2, <1>3, <1>5, <1>9
<1> QED
  BY <1>2, <1>4, <1>8, <1>10 DEF cost

-----------------------------------------------------------------------------
(* Types *)

LEMMA InitType == Init => VaultTypeOK
<1> SUFFICES ASSUME Init PROVE VaultTypeOK
  OBVIOUS
<1>1. balance \in [Holder -> Nat]
  BY VaultAssumption DEF Init, Holder
<1>2. \A k \in Account : sessionKeys[k] = NoKey /\ ~ NoKey.isActive
  BY DEF Init, NoKey
<1>3. NoKey \in [mainWallet : Account \cup {NoAccount}, spendLimit : Nat,
                 spentAmount : Nat, expiry : Nat, isActive : BOOLEAN]
  BY DEF NoKey
<1>4. feeRecipient \in Holder
  BY ConstantSets, VaultAssumption DEF Init
<1> QED
  BY <1>1, <1>2, <1>3, <1>4 DEF Init, VaultTypeOK

LEMMA DepositsType ==
  ASSUME VaultTypeOK, NEW w \in Account, NEW n \in Nat,
         Deposit(w, n) \/ Withdraw(w, n) \/ Give(w, n)
  PROVE  VaultTypeOK'
<1>1. /\ w \in Holder /\ Vault \in Holder
      /\ balance \in [Holder -> Nat] /\ deposits \in [Account -> Nat]
      /\ gifts \in Nat
  BY ConstantSets DEF VaultTypeOK
<1>2. /\ balance' \in [Holder -> Nat]
      /\ deposits' \in [Account -> Nat]
      /\ gifts' \in Nat
  <2>1. CASE Deposit(w, n)
    <3>1. n <= balance[w] /\ balance' = Move(balance, w, Vault, n)
      BY <1>1, <2>1 DEF Deposit
    <3> QED
      BY <1>1, <2>1, <3>1, MoveType DEF Deposit
  <2>2. CASE Withdraw(w, n)
    <3>1. /\ n <= balance[Vault] /\ balance' = Move(balance, Vault, w, n)
          /\ deposits[w] - n \in Nat
      BY <1>1, <2>2 DEF Withdraw
    <3> QED
      BY <1>1, <2>2, <3>1, MoveType DEF Withdraw
  <2>3. CASE Give(w, n)
    <3>1. n <= balance[w] /\ balance' = Move(balance, w, Vault, n)
      BY <1>1, <2>3 DEF Give
    <3> QED
      BY <1>1, <2>3, <3>1, MoveType DEF Give
  <2> QED
    BY <2>1, <2>2, <2>3
<1>3. UNCHANGED <<delegation, nonces, rentals, fees, now, signed, used, drawn>>
  BY DEF Deposit, Withdraw, Give
<1> QED
  BY <1>2, <1>3 DEF VaultTypeOK, delegation, fees

\* The entries of the sessionKeys mapping.
KeyEntry == [mainWallet : Account \cup {NoAccount}, spendLimit : Nat,
             spentAmount : Nat, expiry : Nat, isActive : BOOLEAN]

LEMMA DelegateType ==
  ASSUME VaultTypeOK, NEW w \in Account, NEW k \in Account, NEW limit \in Nat,
         NEW expiry \in Nat, Delegate(w, k, limit, expiry)
  PROVE  /\ delegated' \in [Account -> Nat]
         /\ sessionKeys' \in [Account -> KeyEntry]
         /\ \A j \in Account :
              sessionKeys'[j].isActive => sessionKeys'[j].mainWallet \in Account
<1> DEFINE e == [mainWallet |-> w, spendLimit |-> limit, spentAmount |-> 0,
                 expiry |-> expiry, isActive |-> TRUE]
<1>1. sessionKeys \in [Account -> KeyEntry]
  BY DEF VaultTypeOK, KeyEntry
<1>2. e \in KeyEntry /\ e.mainWallet \in Account
  BY DEF KeyEntry
<1>3. sessionKeys' = [sessionKeys EXCEPT ![k] = e]
  BY DEF Delegate
<1>4. \A j \in Account :
        sessionKeys[j].isActive => sessionKeys[j].mainWallet \in Account
  BY DEF VaultTypeOK
<1>5. delegated' \in [Account -> Nat]
  <2>1. delegated \in [Account -> Nat]
    BY DEF VaultTypeOK
  <2>2. delegated' = [delegated EXCEPT ![w] = @ + limit]
    BY DEF Delegate
  <2> QED
    BY <2>1, <2>2
<1> HIDE DEF e, KeyEntry
<1>6. /\ sessionKeys' \in [Account -> KeyEntry]
      /\ sessionKeys'[k] = e
      /\ \A j \in Account : j # k => sessionKeys'[j] = sessionKeys[j]
  BY <1>1, <1>2, <1>3
<1> QED
  BY <1>2, <1>4, <1>5, <1>6

LEMMA RevokeType ==
  ASSUME VaultTypeOK, NEW w \in Account, NEW k \in Account,
         RevokeSessionKey(w, k)
  PROVE  /\ VaultTypeOK'
         /\ sessionKeys'[k].mainWallet = sessionKeys[k].mainWallet
         /\ sessionKeys'[k].spendLimit = sessionKeys[k].spendLimit
         /\ sessionKeys'[k].spentAmount = sessionKeys[k].spentAmount
         /\ \A j \in Account : j # k => sessionKeys'[j] = sessionKeys[j]
<1> DEFINE s == sessionKeys[k]
           e == [s EXCEPT !.isActive = FALSE]
<1>1. sessionKeys \in [Account -> KeyEntry]
  BY DEF VaultTypeOK, KeyEntry
<1>2. sessionKeys' = [sessionKeys EXCEPT ![k] = e]
  BY DEF RevokeSessionKey
<1>3. s \in KeyEntry
  BY <1>1
<1> HIDE DEF s
<1>4. /\ e \in KeyEntry /\ ~ e.isActive
      /\ e.mainWallet = s.mainWallet /\ e.spendLimit = s.spendLimit
      /\ e.spentAmount = s.spentAmount
  BY <1>3 DEF KeyEntry
<1> HIDE DEF e
<1>5. /\ sessionKeys' \in [Account -> KeyEntry]
      /\ sessionKeys'[k] = e
      /\ \A j \in Account : j # k => sessionKeys'[j] = sessionKeys[j]
  <2> HIDE DEF KeyEntry
  <2> QED
    BY <1>1, <1>2, <1>4
<1>6. \A j \in Account :
        sessionKeys'[j].isActive => sessionKeys'[j].mainWallet \in Account
  BY <1>4, <1>5 DEF VaultTypeOK
<1>7. UNCHANGED <<money, delegated, nonces, rentals, fees, now, signed, used,
                  drawn>>
  BY DEF RevokeSessionKey
<1>8. VaultTypeOK'
  BY <1>5, <1>6, <1>7 DEF VaultTypeOK, KeyEntry, money, fees
<1> QED
  BY <1>4, <1>5, <1>8 DEF s

LEMMA AcceptType ==
  ASSUME VaultTypeOK, NEW m \in signed, Accept(m)
  PROVE  /\ nonces' \in [Account -> Nat] /\ used' \subseteq signed
         /\ m.by \in Account
<1>1. m.by \in Account
  BY DEF VaultTypeOK, Delegation, Payment
<1> QED
  BY <1>1 DEF VaultTypeOK, Accept

LEMMA KeysType ==
  ASSUME VaultTypeOK,
         \/ \E w \in Wallet, k \in Key, limit \in Amount, d \in 1 .. MaxDuration :
              RegisterSessionKey(w, k, limit, d)
         \/ \E w \in Wallet, k \in Key : RevokeSessionKey(w, k)
         \/ \E m \in signed : RegisterSessionKeyWithSignature(m)
  PROVE  VaultTypeOK'
<1>1. CASE \E w \in Wallet, k \in Key, limit \in Amount, d \in 1 .. MaxDuration :
              RegisterSessionKey(w, k, limit, d)
  <2>1. PICK w \in Wallet, k \in Key, limit \in Amount, d \in 1 .. MaxDuration :
               RegisterSessionKey(w, k, limit, d)
    BY <1>1
  <2>2. now + d \in Nat
    BY VaultAssumption DEF VaultTypeOK
  <2>3. Delegate(w, k, limit, now + d)
    BY <2>1 DEF RegisterSessionKey
  <2>4. UNCHANGED <<money, nonces, rentals, fees, now, signed, used, drawn>>
    BY <2>1 DEF RegisterSessionKey
  <2> QED
    BY <2>2, <2>3, <2>4, DelegateType, ConstantSets DEF VaultTypeOK, KeyEntry, money, fees
<1>2. CASE \E w \in Wallet, k \in Key : RevokeSessionKey(w, k)
  BY <1>2, ConstantSets, RevokeType
<1>3. CASE \E m \in signed : RegisterSessionKeyWithSignature(m)
  <2>1. PICK m \in signed : RegisterSessionKeyWithSignature(m)
    BY <1>3
  <2>2. m \in Delegation
    BY <2>1 DEF RegisterSessionKeyWithSignature, VaultTypeOK, Payment
  <2>3. /\ Accept(m) /\ Delegate(m.by, m.key, m.limit, m.expiry)
        /\ UNCHANGED <<money, rentals, fees, now, signed, drawn>>
    BY <2>1 DEF RegisterSessionKeyWithSignature
  <2>4. m.by \in Account /\ m.key \in Account /\ m.limit \in Nat /\ m.expiry \in Nat
    BY <2>2 DEF Delegation
  <2> QED
    BY <2>3, <2>4, DelegateType, AcceptType
    DEF VaultTypeOK, KeyEntry, money, fees
<1> QED
  BY <1>1, <1>2, <1>3

LEMMA RentalsType ==
  ASSUME VaultTypeOK,
         \/ \E p \in Payee, price \in Amount \cup {0} :
              \/ \E w \in Wallet : StartRental(w, p, price)
              \/ \E k \in Key : StartRentalWithSessionKey(k, p, price)
         \/ \E i \in 1 .. Len(rentals) : EndRental(i)
  PROVE  VaultTypeOK'
<1>1. /\ rentals \in Seq(Rental) /\ now \in Nat
      /\ \A i \in 1 .. Len(rentals) : rentals[i].startTime <= now
  BY DEF VaultTypeOK, Rental
<1>2. ASSUME NEW w \in Account, NEW p \in Payee, NEW price \in Amount \cup {0},
             Start(w, p, price)
      PROVE  VaultTypeOK'
  <2> DEFINE r == [renter |-> w, provider |-> p, pricePerSecond |-> price,
                   startTime |-> now, isActive |-> TRUE]
  <2>1. rentals' = Append(rentals, r)
    BY <1>2 DEF Start
  <2>2. r \in Rental /\ r.startTime = now
    BY <1>1, ConstantSets DEF Rental
  <2> HIDE DEF r
  <2>3. rentals' \in Seq(Rental)
    BY <1>1, <2>1, <2>2
  <2>4. \A i \in 1 .. Len(rentals') : rentals'[i].startTime <= now
    BY <1>1, <2>1, <2>2
  <2>5. UNCHANGED <<money, delegation, nonces, fees, now, signed, used, drawn>>
    BY <1>2 DEF Start
  <2> QED
    BY <2>3, <2>4, <2>5 DEF VaultTypeOK, Rental, money, delegation, fees
<1>3. CASE \E p \in Payee, price \in Amount \cup {0}, w \in Wallet : StartRental(w, p, price)
  BY <1>2, <1>3, ConstantSets DEF StartRental
<1>4. CASE \E p \in Payee, price \in Amount \cup {0}, k \in Key :
             StartRentalWithSessionKey(k, p, price)
  <2>1. PICK p \in Payee, price \in Amount \cup {0}, k \in Key :
               StartRentalWithSessionKey(k, p, price)
    BY <1>4
  <2>2. sessionKeys[k].mainWallet \in Account
    BY <2>1, ConstantSets DEF StartRentalWithSessionKey, Usable, VaultTypeOK
  <2> QED
    BY <1>2, <2>1, <2>2 DEF StartRentalWithSessionKey
<1>5. CASE \E i \in 1 .. Len(rentals) : EndRental(i)
  <2>1. PICK i \in 1 .. Len(rentals) : EndRental(i)
    BY <1>5
  <2> DEFINE r == rentals[i]
             e == [r EXCEPT !.isActive = FALSE]
  <2>2. r \in Rental /\ r.startTime <= now
    BY <1>1
  <2>3. /\ balance' \in [Holder -> Nat] /\ deposits' \in [Account -> Nat]
        /\ gifts' \in Nat
    <3>1. CASE UNCHANGED money
      BY <3>1 DEF VaultTypeOK, money
    <3>2. CASE Settle(r)
      <4>1. /\ Cost(r) \in Nat /\ Cost(r) <= deposits[r.renter]
            /\ deposits' = [deposits EXCEPT ![r.renter] = @ - Cost(r)]
            /\ balance' \in [Holder -> Nat] /\ gifts' \in Nat
        BY <2>2, <3>2, SettleBooks
      <4>2. r.renter \in Account /\ deposits \in [Account -> Nat]
        BY <2>2 DEF Rental, VaultTypeOK
      <4>3. deposits[r.renter] - Cost(r) \in Nat
        BY <4>1, <4>2
      <4> QED
        BY <4>1, <4>2, <4>3
    <3> QED
      BY <2>1, <3>1, <3>2 DEF EndRental
  <2>4. rentals' = [rentals EXCEPT ![i] = e]
    BY <2>1 DEF EndRental
  <2> HIDE DEF r
  <2>5. e \in Rental /\ e.startTime <= now
    BY <1>1, <2>2 DEF Rental
  <2> HIDE DEF e
  <2>6. /\ rentals' \in Seq(Rental)
        /\ \A j \in 1 .. Len(rentals') : rentals'[j].startTime <= now
    BY <1>1, <2>4, <2>5
  <2>7. UNCHANGED <<delegation, nonces, fees, now, signed, used, drawn>>
    BY <2>1 DEF EndRental
  <2> QED
    BY <2>3, <2>6, <2>7 DEF VaultTypeOK, Rental, delegation, fees
<1> QED
  BY <1>3, <1>4, <1>5

\* The books of a payment signed by a key.
LEMMA PaymentBooks ==
  ASSUME VaultTypeOK, NEW m \in signed, ProcessPaymentWithSessionKey(m)
  PROVE  LET k == m.by
             w == sessionKeys[m.by].mainWallet
             n == m.amount
         IN /\ k \in Account /\ w \in Account /\ n \in Nat /\ n <= deposits[w]
            /\ deposits' = [deposits EXCEPT ![w] = @ - n]
            /\ drawn' = [drawn EXCEPT ![w] = @ + n]
            /\ balance' \in [Holder -> Nat]
            /\ gifts' \in Nat /\ gifts' - gifts \in 0 .. n
            /\ balance'[Vault] = balance[Vault] - n + (gifts' - gifts)
            /\ sessionKeys' \in [Account -> KeyEntry]
            /\ sessionKeys'[k].mainWallet = w
            /\ sessionKeys'[k].spendLimit = sessionKeys[k].spendLimit
            /\ sessionKeys'[k].spentAmount = sessionKeys[k].spentAmount + n
            /\ sessionKeys'[k].spentAmount <= sessionKeys[k].spendLimit
            /\ \A j \in Account : j # k => sessionKeys'[j] = sessionKeys[j]
<1> DEFINE k == m.by
           s == sessionKeys[k]
           w == s.mainWallet
           n == m.amount
           e == [s EXCEPT !.spentAmount = @ + n]
<1>1. m \in Payment
  BY DEF ProcessPaymentWithSessionKey, VaultTypeOK, Delegation
<1>2. k \in Account /\ m.to \in Holder /\ n \in Nat
  BY <1>1 DEF Payment
<1>3. sessionKeys \in [Account -> KeyEntry]
  BY DEF VaultTypeOK, KeyEntry
<1>4. s \in KeyEntry /\ w \in Account
  BY <1>2, <1>3 DEF ProcessPaymentWithSessionKey, Usable, VaultTypeOK
<1>5. /\ s.spentAmount + n <= s.spendLimit
      /\ deposits[w] >= n /\ balance[Vault] >= n
      /\ sessionKeys' = [sessionKeys EXCEPT ![k] = e]
      /\ deposits' = [deposits EXCEPT ![w] = @ - n]
      /\ balance' = Move(balance, Vault, m.to, n)
      /\ gifts' = gifts + Kept(m.to, n)
      /\ drawn' = [drawn EXCEPT ![w] = @ + n]
  BY DEF ProcessPaymentWithSessionKey, PayFrom
<1> HIDE DEF s
<1>6. /\ e \in KeyEntry /\ e.mainWallet = s.mainWallet
      /\ e.spendLimit = s.spendLimit /\ e.spentAmount = s.spentAmount + n
  BY <1>2, <1>4 DEF KeyEntry
<1> HIDE DEF e
<1>7. /\ sessionKeys' \in [Account -> KeyEntry]
      /\ sessionKeys'[k] = e
      /\ \A j \in Account : j # k => sessionKeys'[j] = sessionKeys[j]
  BY <1>2, <1>3, <1>5, <1>6
<1>8. /\ balance \in [Holder -> Nat] /\ gifts \in Nat /\ Vault \in Holder
      /\ deposits[w] \in Nat /\ balance[Vault] \in Nat
  BY <1>4, ConstantSets DEF VaultTypeOK
<1>9. n <= balance[Vault] /\ n <= deposits[w]
  BY <1>2, <1>5, <1>8
<1>10. /\ balance' \in [Holder -> Nat]
       /\ balance'[Vault] = balance[Vault] - n + Kept(m.to, n)
       /\ Kept(m.to, n) \in 0 .. n
  BY <1>2, <1>5, <1>8, <1>9, MoveType, PaidOut
<1>11. gifts' \in Nat /\ gifts' - gifts = Kept(m.to, n)
  BY <1>2, <1>5, <1>8, <1>10
<1> QED
  BY <1>2, <1>4, <1>5, <1>6, <1>7, <1>9, <1>10, <1>11 DEF s

LEMMA PaymentType ==
  ASSUME VaultTypeOK, NEW m \in signed, ProcessPaymentWithSessionKey(m)
  PROVE  VaultTypeOK'
<1> DEFINE w == sessionKeys[m.by].mainWallet
           n == m.amount
<1>1. /\ m.by \in Account /\ w \in Account /\ n \in Nat /\ n <= deposits[w]
      /\ deposits' = [deposits EXCEPT ![w] = @ - n]
      /\ drawn' = [drawn EXCEPT ![w] = @ + n]
      /\ balance' \in [Holder -> Nat] /\ gifts' \in Nat
      /\ sessionKeys' \in [Account -> KeyEntry]
      /\ sessionKeys'[m.by].mainWallet = w
      /\ \A j \in Account : j # m.by => sessionKeys'[j] = sessionKeys[j]
  BY PaymentBooks
<1> HIDE DEF w, n
<1>2. deposits' \in [Account -> Nat] /\ drawn' \in [Account -> Nat]
  <2>1. deposits \in [Account -> Nat] /\ drawn \in [Account -> Nat]
    BY DEF VaultTypeOK
  <2>2. deposits[w] - n \in Nat /\ drawn[w] + n \in Nat
    BY <1>1, <2>1
  <2> QED
    BY <1>1, <2>1, <2>2
<1>3. \A j \in Account :
        sessionKeys'[j].isActive => sessionKeys'[j].mainWallet \in Account
  BY <1>1 DEF VaultTypeOK
<1>4. Accept(m) /\ UNCHANGED <<delegated, rentals, fees, now, signed>>
  BY DEF ProcessPaymentWithSessionKey
<1> QED
  BY <1>1, <1>2, <1>3, <1>4, AcceptType DEF VaultTypeOK, KeyEntry, fees

LEMMA OtherType ==
  ASSUME VaultTypeOK,
         \/ Tick
         \/ \E m \in Signable : Sign(m)
         \/ \E f \in FeeBps : SetPlatformFee(f)
         \/ \E a \in Payee \ {NoAccount} : SetFeeRecipient(a)
         \/ UNCHANGED vars
  PROVE  VaultTypeOK'
<1>1. CASE Tick
  <2>1. now' \in Nat /\ now <= now'
    BY <1>1 DEF Tick, VaultTypeOK
  <2>2. UNCHANGED <<money, delegation, nonces, rentals, fees, signed, used, drawn>>
    BY <1>1 DEF Tick
  <2>3. \A i \in 1 .. Len(rentals) : rentals[i].startTime <= now'
    <3>1. /\ rentals \in Seq(Rental) /\ now \in Nat
          /\ \A i \in 1 .. Len(rentals) : rentals[i].startTime <= now
      BY DEF VaultTypeOK, Rental
    <3>2. \A i \in 1 .. Len(rentals) : rentals[i].startTime \in Nat
      <4>1. \A i \in 1 .. Len(rentals) : rentals[i] \in Rental
        BY <3>1
      <4> QED
        BY <4>1 DEF Rental
    <3> QED
      BY <2>1, <3>1, <3>2
  <2> QED
    BY <2>1, <2>2, <2>3 DEF VaultTypeOK, money, delegation, fees
<1>2. CASE \E m \in Signable : Sign(m)
  <2>1. PICK m \in Signable : Sign(m)
    BY <1>2
  <2>2. signed' = signed \cup {m}
        /\ UNCHANGED <<money, delegation, nonces, rentals, fees, now, used, drawn>>
    BY <2>1 DEF Sign
  <2>3. m \in Delegation \cup Payment
    BY SignableMessages
  <2>4. signed' \subseteq Delegation \cup Payment /\ used' \subseteq signed'
    BY <2>2, <2>3 DEF VaultTypeOK
  <2> QED
    BY <2>2, <2>4 DEF VaultTypeOK, money, delegation, fees
<1>3. CASE \E f \in FeeBps : SetPlatformFee(f)
  <2>1. PICK f \in FeeBps : SetPlatformFee(f)
    BY <1>3
  <2>2. f \in Nat /\ f <= 1000
    BY <2>1, VaultAssumption DEF SetPlatformFee
  <2>3. platformFeeBps' \in 0 .. 1000
    BY <2>1, <2>2 DEF SetPlatformFee
  <2>4. UNCHANGED <<money, delegation, nonces, rentals, feeRecipient, now,
                    signed, used, drawn>>
    BY <2>1 DEF SetPlatformFee
  <2>5. /\ balance' \in [Holder -> Nat] /\ deposits' \in [Account -> Nat]
        /\ gifts' \in Nat /\ feeRecipient' \in Holder
    BY <2>4 DEF VaultTypeOK, money
  <2> QED
    BY <2>3, <2>4, <2>5 DEF VaultTypeOK, delegation
<1>4. CASE \E a \in Payee \ {NoAccount} : SetFeeRecipient(a)
  <2>1. PICK a \in Payee \ {NoAccount} : SetFeeRecipient(a)
    BY <1>4
  <2>2. feeRecipient' \in Holder
    BY <2>1, ConstantSets DEF SetFeeRecipient
  <2>3. UNCHANGED <<money, delegation, nonces, rentals, platformFeeBps, now,
                    signed, used, drawn>>
    BY <2>1 DEF SetFeeRecipient
  <2> QED
    BY <2>2, <2>3 DEF VaultTypeOK, money, delegation
<1>5. CASE UNCHANGED vars
  BY <1>5 DEF vars, VaultTypeOK, money, delegation, fees
<1> QED
  BY <1>1, <1>2, <1>3, <1>4, <1>5

LEMMA NextType == VaultTypeOK /\ [Next]_vars => VaultTypeOK'
<1> SUFFICES ASSUME VaultTypeOK, [Next]_vars PROVE VaultTypeOK'
  OBVIOUS
<1>1. CASE \E w \in Wallet, n \in Amount :
             Deposit(w, n) \/ Withdraw(w, n) \/ Give(w, n)
  BY <1>1, ConstantSets, DepositsType
<1>2. CASE \E m \in signed : ProcessPaymentWithSessionKey(m)
  BY <1>2, PaymentType
<1> QED
  BY <1>1, <1>2, KeysType, RentalsType, OtherType DEF Next

\* In every reachable state every variable of the contract has its type: no
\* deposit and no token balance ever goes below zero.
THEOREM VaultTypes == Spec => []VaultTypeOK
<1>1. VaultTypeOK /\ [Next]_vars => VaultTypeOK'
  BY NextType
<1> QED
  BY <1>1, InitType, PTL DEF Spec

-----------------------------------------------------------------------------
(* The contract implements the escrow *)

LEMMA PutInStep ==
  ASSUME VaultTypeOK, NEW w \in Account, NEW n \in Nat, Deposit(w, n)
  PROVE  TheEscrow!PutIn(w)
<1>1. /\ balance \in [Holder -> Nat] /\ deposits \in [Account -> Nat]
      /\ w \in Holder /\ Vault \in Holder /\ w # Vault
      /\ n <= balance[w] /\ balance' = Move(balance, w, Vault, n)
      /\ deposits' = [deposits EXCEPT ![w] = @ + n]
      /\ gifts' = gifts
  <2>1. /\ balance \in [Holder -> Nat] /\ deposits \in [Account -> Nat]
        /\ w \in Holder /\ Vault \in Holder /\ w # Vault
    BY ConstantSets DEF VaultTypeOK
  <2>2. n <= balance[w]
    BY <2>1 DEF Deposit
  <2> QED
    BY <2>1, <2>2 DEF Deposit, money
<1>2. balance'[Vault] = balance[Vault] + n
  BY <1>1, MoveType
<1>3. deposits'[w] - deposits[w] = n
  BY <1>1
<1>4. deposits' = [deposits EXCEPT ![w] = deposits'[w]]
  BY <1>1
<1> QED
  BY <1>1, <1>2, <1>3, <1>4 DEF TheEscrow!PutIn, TheEscrow!Only

\* Withdrawals, settlements and payments alike.
LEMMA PayOutStep ==
  ASSUME VaultTypeOK, NEW w \in Account, NEW n \in Nat, n <= deposits[w],
         deposits' = [deposits EXCEPT ![w] = @ - n],
         gifts' - gifts \in 0 .. n,
         balance'[Vault] = balance[Vault] - n + (gifts' - gifts)
  PROVE  TheEscrow!PayOut(w)
<1>1. deposits \in [Account -> Nat] /\ balance[Vault] \in Nat
  BY ConstantSets DEF VaultTypeOK
<1>2. deposits'[w] = deposits[w] - n /\ deposits[w] \in Nat
  BY <1>1
<1>3. deposits[w] - deposits'[w] = n /\ deposits'[w] >= 0
  BY <1>2
<1>4. deposits' = [deposits EXCEPT ![w] = deposits'[w]]
  BY <1>1, <1>2
<1> DEFINE kept == gifts' - gifts
<1>5. 0 <= kept /\ kept <= n /\ kept \in Nat
      /\ balance'[Vault] = balance[Vault] - n + kept
  OBVIOUS
<1> HIDE DEF kept
<1>6. balance'[Vault] = balance[Vault] - (n - kept)
  BY <1>1, <1>5
<1> QED
  BY <1>3, <1>4, <1>5, <1>6 DEF TheEscrow!PayOut, TheEscrow!Only, kept

LEMMA GiveStep ==
  ASSUME VaultTypeOK, NEW w \in Account, NEW n \in Nat, Give(w, n)
  PROVE  TheEscrow!Give
<1>1. /\ balance \in [Holder -> Nat] /\ gifts \in Nat
      /\ w \in Holder /\ Vault \in Holder /\ w # Vault
  BY ConstantSets DEF VaultTypeOK
<1>2. /\ n <= balance[w] /\ balance' = Move(balance, w, Vault, n)
      /\ gifts' = gifts + n /\ deposits' = deposits
  BY <1>1 DEF Give
<1>3. balance'[Vault] = balance[Vault] + n
  BY <1>1, <1>2, MoveType
<1>4. gifts' - gifts = n
  BY <1>1, <1>2
<1> QED
  BY <1>2, <1>3, <1>4 DEF TheEscrow!Give

LEMMA WithdrawStep ==
  ASSUME VaultTypeOK, NEW w \in Account, NEW n \in Nat, Withdraw(w, n)
  PROVE  TheEscrow!PayOut(w)
<1>1. /\ balance \in [Holder -> Nat] /\ deposits \in [Account -> Nat]
      /\ gifts \in Nat /\ w \in Holder /\ Vault \in Holder /\ w # Vault
  BY ConstantSets DEF VaultTypeOK
<1>2. /\ n <= deposits[w] /\ n <= balance[Vault]
      /\ balance' = Move(balance, Vault, w, n)
      /\ deposits' = [deposits EXCEPT ![w] = @ - n] /\ gifts' = gifts
  BY <1>1 DEF Withdraw
<1>3. balance'[Vault] = balance[Vault] - n
  BY <1>1, <1>2, MoveType
<1>4. /\ gifts' - gifts \in 0 .. n
      /\ balance'[Vault] = balance[Vault] - n + (gifts' - gifts)
  BY <1>1, <1>2, <1>3
<1> QED
  BY <1>2, <1>4, PayOutStep

\* What the type says of one rental.
LEMMA RentalAt ==
  ASSUME VaultTypeOK, NEW i \in 1 .. Len(rentals)
  PROVE  /\ rentals[i] \in Rental /\ rentals[i].startTime <= now
         /\ rentals[i].renter \in Account
<1>1. rentals \in Seq(Rental) /\ \A j \in 1 .. Len(rentals) : rentals[j].startTime <= now
  BY DEF VaultTypeOK, Rental
<1>2. rentals[i] \in Rental /\ rentals[i].startTime <= now
  BY <1>1
<1>3. rentals[i].renter \in Account
  BY <1>2 DEF Rental
<1> QED
  BY <1>2, <1>3

LEMMA EndRentalStep ==
  ASSUME VaultTypeOK, NEW i \in 1 .. Len(rentals), EndRental(i)
  PROVE  UNCHANGED money \/ TheEscrow!PayOut(rentals[i].renter)
<1>1. rentals[i] \in Rental /\ rentals[i].startTime <= now
  BY RentalAt
<1>2. CASE Settle(rentals[i])
  <2>1. rentals[i].renter \in Account
    BY RentalAt
  <2> QED
    BY <1>1, <1>2, <2>1, SettleBooks, PayOutStep
<1> QED
  BY <1>2 DEF EndRental

LEMMA EscrowStep ==
  ASSUME VaultTypeOK, [Next]_vars
  PROVE  [TheEscrow!Next]_(TheEscrow!escrowVars)
<1>1. CASE \E w \in Wallet, n \in Amount :
             Deposit(w, n) \/ Withdraw(w, n) \/ Give(w, n)
  <2>1. PICK w \in Wallet, n \in Amount :
               Deposit(w, n) \/ Withdraw(w, n) \/ Give(w, n)
    BY <1>1
  <2>2. w \in Account /\ n \in Nat
    BY ConstantSets
  <2> QED
    BY <2>1, <2>2, PutInStep, WithdrawStep, GiveStep DEF TheEscrow!Next
<1>2. CASE \E i \in 1 .. Len(rentals) : EndRental(i)
  <2>1. PICK i \in 1 .. Len(rentals) : EndRental(i)
    BY <1>2
  <2>2. rentals[i].renter \in Account
    BY RentalAt
  <2>3. UNCHANGED money => UNCHANGED TheEscrow!escrowVars
    BY DEF money, TheEscrow!escrowVars
  <2> QED
    BY <2>1, <2>2, <2>3, EndRentalStep DEF TheEscrow!Next
<1>3. CASE \E m \in signed : ProcessPaymentWithSessionKey(m)
  <2>1. PICK m \in signed : ProcessPaymentWithSessionKey(m)
    BY <1>3
  <2>2. TheEscrow!PayOut(sessionKeys[m.by].mainWallet)
    BY <2>1, PaymentBooks, PayOutStep
  <2>3. sessionKeys[m.by].mainWallet \in Account
    BY <2>1, PaymentBooks
  <2> QED
    BY <2>2, <2>3 DEF TheEscrow!Next
<1>4. ASSUME UNCHANGED money PROVE UNCHANGED TheEscrow!escrowVars
  BY <1>4 DEF money, TheEscrow!escrowVars
<1>5. CASE \/ Tick
           \/ \E m \in Signable : Sign(m)
           \/ \E w \in Wallet, k \in Key :
                \/ \E limit \in Amount, d \in 1 .. MaxDuration :
                     RegisterSessionKey(w, k, limit, d)
                \/ RevokeSessionKey(w, k)
           \/ \E p \in Payee, price \in Amount \cup {0} :
                \/ \E w \in Wallet : StartRental(w, p, price)
                \/ \E k \in Key : StartRentalWithSessionKey(k, p, price)
           \/ \E m \in signed : RegisterSessionKeyWithSignature(m)
           \/ \E f \in FeeBps : SetPlatformFee(f)
           \/ \E a \in Payee \ {NoAccount} : SetFeeRecipient(a)
           \/ UNCHANGED vars
  <2>1. UNCHANGED money
    BY <1>5 DEF Tick, Sign, RegisterSessionKey, RevokeSessionKey, StartRental,
         StartRentalWithSessionKey, Start, RegisterSessionKeyWithSignature,
         SetPlatformFee, SetFeeRecipient, vars
  <2> QED
    BY <1>4, <2>1
<1> QED
  BY <1>1, <1>2, <1>3, <1>5 DEF Next

\* Every transaction of the contract is one step of the escrow, or none: it
\* touches at most one deposit, by what comes in or by what goes out.
THEOREM VaultIsEscrow == Spec => RefinesEscrow
<1>1. Init => TheEscrow!Init
  BY ConstantSets DEF Init, TheEscrow!Init
<1>2. VaultTypeOK /\ [Next]_vars => [TheEscrow!Next]_(TheEscrow!escrowVars)
  BY EscrowStep
<1> QED
  BY <1>1, <1>2, VaultTypes, PTL DEF Spec, RefinesEscrow, TheEscrow!Spec

-----------------------------------------------------------------------------
(* Deposits are covered *)

LEMMA EscrowKeepsSolvent ==
  ASSUME VaultTypeOK, VaultTypeOK', Solvent,
         [TheEscrow!Next]_(TheEscrow!escrowVars)
  PROVE  Solvent'
<1>1. /\ deposits \in [Account -> Nat] /\ deposits' \in [Account -> Nat]
      /\ balance[Vault] \in Nat /\ balance'[Vault] \in Nat
      /\ gifts \in Nat /\ gifts' \in Nat
      /\ balance[Vault] = Total(deposits, Account) + gifts
  BY ConstantSets DEF VaultTypeOK, Solvent
<1>2. Total(deposits, Account) \in Nat
  BY <1>1, ConstantSets, TotalType
<1>3. ASSUME NEW w \in Account, deposits' = [deposits EXCEPT ![w] = deposits'[w]]
      PROVE  Total(deposits', Account)
               = Total(deposits, Account) - deposits[w] + deposits'[w]
  BY <1>1, <1>3, ConstantSets, TotalExcept
<1>4. CASE \E w \in Account : TheEscrow!PutIn(w)
  <2>1. PICK w \in Account : TheEscrow!PutIn(w)
    BY <1>4
  <2>2. /\ deposits' = [deposits EXCEPT ![w] = deposits'[w]]
        /\ balance'[Vault] = balance[Vault] + (deposits'[w] - deposits[w])
        /\ gifts' = gifts
    BY <2>1 DEF TheEscrow!PutIn, TheEscrow!Only
  <2>3. deposits[w] \in Nat /\ deposits'[w] \in Nat
    BY <1>1
  <2> QED
    BY <1>1, <1>2, <1>3, <2>2, <2>3 DEF Solvent
<1>5. CASE \E w \in Account : TheEscrow!PayOut(w)
  <2>1. PICK w \in Account : TheEscrow!PayOut(w)
    BY <1>5
  <2>2. /\ deposits' = [deposits EXCEPT ![w] = deposits'[w]]
        /\ balance'[Vault]
             = balance[Vault] - ((deposits[w] - deposits'[w]) - (gifts' - gifts))
    BY <2>1 DEF TheEscrow!PayOut, TheEscrow!Only
  <2>3. deposits[w] \in Nat /\ deposits'[w] \in Nat
    BY <1>1
  <2> QED
    BY <1>1, <1>2, <1>3, <2>2, <2>3 DEF Solvent
<1>6. CASE TheEscrow!Give
  <2>1. /\ balance'[Vault] = balance[Vault] + (gifts' - gifts)
        /\ deposits' = deposits
    BY <1>6 DEF TheEscrow!Give
  <2> QED
    BY <1>1, <1>2, <2>1 DEF Solvent
<1>7. CASE UNCHANGED TheEscrow!escrowVars
  BY <1>1, <1>7 DEF Solvent, TheEscrow!escrowVars
<1> QED
  BY <1>4, <1>5, <1>6, <1>7 DEF TheEscrow!Next

\* Whatever is deposited, withdrawn, rented, paid and given: the contract
\* holds the sum of all deposits, and beyond it only what it was given.
THEOREM VaultSolvent == Spec => []Solvent
<1>1. Init => Solvent
  <2> SUFFICES ASSUME Init PROVE Solvent
    OBVIOUS
  <2>1. /\ balance[Vault] = 0 /\ gifts = 0
        /\ deposits = [a \in Account |-> 0]
    BY ConstantSets DEF Init
  <2>2. Total(deposits, Account) = 0
    BY <2>1, ConstantSets, TotalZero
  <2> QED
    BY <2>1, <2>2 DEF Solvent
<1>2. VaultTypeOK /\ VaultTypeOK' /\ Solvent /\ [Next]_vars => Solvent'
  BY EscrowStep, EscrowKeepsSolvent
<1> QED
  BY <1>1, <1>2, VaultTypes, PTL DEF Spec

-----------------------------------------------------------------------------
(* A signature takes effect once *)

\* The nonce of whoever signed it has moved on from every message that took
\* effect, so the contract recomputes a different message from now on.
THEOREM SignaturesDie == Spec => []UsedSignaturesAreDead
<1>1. Init => UsedSignaturesAreDead
  BY DEF Init, UsedSignaturesAreDead
<1>2. VaultTypeOK /\ UsedSignaturesAreDead /\ [Next]_vars => UsedSignaturesAreDead'
  <2> SUFFICES ASSUME VaultTypeOK, UsedSignaturesAreDead, [Next]_vars
               PROVE  UsedSignaturesAreDead'
    OBVIOUS
  <2>1. ASSUME NEW m \in signed, Accept(m)
        PROVE  UsedSignaturesAreDead'
    <3>1. nonces \in [Account -> Nat] /\ m.by \in Account
      BY <2>1, AcceptType DEF VaultTypeOK
    <3>2. /\ m.nonce = nonces[m.by]
          /\ nonces' = [nonces EXCEPT ![m.by] = @ + 1]
          /\ used' = used \cup {m}
      BY <2>1 DEF Accept, Fresh
    <3>3. m.nonce < nonces'[m.by]
      BY <3>1, <3>2
    <3>4. ASSUME NEW u \in used
          PROVE  u.nonce < nonces'[u.by]
      <4>1. u.nonce < nonces[u.by]
        BY <3>4 DEF UsedSignaturesAreDead
      <4>2. u \in Delegation \cup Payment
        BY <3>4 DEF VaultTypeOK
      <4>3. u.by \in Account /\ u.nonce \in Nat
        BY <4>2 DEF Delegation, Payment
      <4> QED
        BY <3>1, <3>2, <4>1, <4>3
    <3> QED
      BY <3>2, <3>3, <3>4 DEF UsedSignaturesAreDead
  <2>2. CASE \E m \in signed : RegisterSessionKeyWithSignature(m)
                               \/ ProcessPaymentWithSessionKey(m)
    BY <2>1, <2>2
    DEF RegisterSessionKeyWithSignature, ProcessPaymentWithSessionKey
  <2>3. CASE UNCHANGED <<nonces, used>>
    BY <2>3 DEF UsedSignaturesAreDead
  <2> QED
    BY <2>2, <2>3
    DEF Next, vars, Tick, Sign, Deposit, Withdraw, Give, RegisterSessionKey,
        RevokeSessionKey, StartRental, StartRentalWithSessionKey, Start,
        EndRental, SetPlatformFee, SetFeeRecipient
<1> QED
  BY <1>1, <1>2, VaultTypes, PTL DEF Spec
-----------------------------------------------------------------------------
(* Session keys stay within what was delegated *)

\* What a key entry still lets its key draw from the deposit of w, and what
\* all keys do.
LeftIn(e, w) == IF e.mainWallet = w THEN e.spendLimit - e.spentAmount ELSE 0
LeftBy(sk, w) == [k \in Account |-> LeftIn(sk[k], w)]
LeftOf(sk, w) == Total(LeftBy(sk, w), Account)

\* A key never spends beyond its entry; and what was drawn from a wallet,
\* with all that may still be drawn, is covered by what the wallet granted.
\* It is not an equality: an entry that is replaced takes what it had left.
WithinEntry == \A k \in Account :
                 sessionKeys[k].spentAmount <= sessionKeys[k].spendLimit
Granted == \A w \in Account :
             drawn[w] + LeftOf(sessionKeys, w) <= delegated[w]

LEMMA LeftInType ==
  ASSUME NEW e \in KeyEntry, e.spentAmount <= e.spendLimit, NEW w
  PROVE  LeftIn(e, w) \in Nat
BY DEF LeftIn, KeyEntry

LEMMA LeftOfType ==
  ASSUME VaultTypeOK, WithinEntry, NEW w \in Account
  PROVE  /\ LeftBy(sessionKeys, w) \in [Account -> Nat]
         /\ LeftOf(sessionKeys, w) \in Nat
<1>1. sessionKeys \in [Account -> KeyEntry]
  BY DEF VaultTypeOK, KeyEntry
<1>2. ASSUME NEW k \in Account PROVE LeftIn(sessionKeys[k], w) \in Nat
  <2>1. sessionKeys[k] \in KeyEntry
    BY <1>1
  <2>2. sessionKeys[k].spentAmount <= sessionKeys[k].spendLimit
    BY DEF WithinEntry
  <2> QED
    BY <2>1, <2>2, LeftInType
<1>3. LeftBy(sessionKeys, w) \in [Account -> Nat]
  BY <1>2 DEF LeftBy
<1> QED
  BY <1>3, ConstantSets, TotalType DEF LeftOf

\* One entry of the mapping changes.
LEMMA LeftAfter ==
  ASSUME VaultTypeOK, WithinEntry, NEW w \in Account, NEW k \in Account,
         NEW t, \A j \in Account : j # k => t[j] = sessionKeys[j],
         LeftIn(t[k], w) \in Nat
  PROVE  LeftOf(t, w) = LeftOf(sessionKeys, w) - LeftIn(sessionKeys[k], w)
                          + LeftIn(t[k], w)
<1> DEFINE f == LeftBy(sessionKeys, w)
           g == LeftBy(t, w)
<1>1. /\ f \in [Account -> Nat] /\ f[k] = LeftIn(sessionKeys[k], w)
      /\ IsFiniteSet(Account)
  BY LeftOfType, ConstantSets DEF LeftBy
<1>2. /\ g[k] = LeftIn(t[k], w)
      /\ \A j \in Account : j # k => g[j] = f[j]
  BY DEF LeftBy
<1>3. g \in [Account -> Nat]
  <2>1. \A j \in Account : g[j] \in Nat
    BY <1>1, <1>2
  <2> QED
    BY <2>1 DEF LeftBy
<1> HIDE DEF f, g
<1>4. Total(g, Account) = Total(f, Account) - f[k] + g[k]
  BY <1>1, <1>2, <1>3, TotalChange
<1> QED
  BY <1>1, <1>2, <1>4 DEF LeftOf, f, g

LEMMA DelegateGranted ==
  ASSUME VaultTypeOK, WithinEntry, Granted, NEW v \in Account,
         NEW k \in Account, NEW limit \in Nat, NEW expiry \in Nat,
         Delegate(v, k, limit, expiry), UNCHANGED drawn
  PROVE  WithinEntry' /\ Granted'
<1> DEFINE e == [mainWallet |-> v, spendLimit |-> limit, spentAmount |-> 0,
                 expiry |-> expiry, isActive |-> TRUE]
<1>1. /\ e \in KeyEntry /\ e.mainWallet = v /\ e.spendLimit = limit
      /\ e.spentAmount = 0
  BY DEF KeyEntry
<1>2. sessionKeys \in [Account -> KeyEntry]
  BY DEF VaultTypeOK, KeyEntry
<1>3. sessionKeys' = [sessionKeys EXCEPT ![k] = e]
  BY DEF Delegate
<1> HIDE DEF e
<1>4. sessionKeys'[k] = e /\ \A j \in Account : j # k => sessionKeys'[j] = sessionKeys[j]
  BY <1>2, <1>3
<1>5. WithinEntry'
  BY <1>1, <1>4 DEF WithinEntry
<1>6. ASSUME NEW w \in Account
      PROVE  drawn'[w] + LeftOf(sessionKeys, w)' <= delegated'[w]
  <2>1. /\ drawn[w] \in Nat /\ delegated[w] \in Nat /\ drawn' = drawn
        /\ delegated \in [Account -> Nat]
    BY DEF VaultTypeOK
  <2>2. delegated' = [delegated EXCEPT ![v] = @ + limit]
    BY DEF Delegate
  <2>3. LeftIn(sessionKeys'[k], w) = IF w = v THEN limit ELSE 0
    BY <1>1, <1>4 DEF LeftIn
  <2>4. LeftIn(sessionKeys[k], w) \in Nat
    BY <1>2, LeftInType DEF WithinEntry
  <2>5. LeftOf(sessionKeys', w) = LeftOf(sessionKeys, w)
          - LeftIn(sessionKeys[k], w) + LeftIn(sessionKeys'[k], w)
    BY <1>4, <2>3, LeftAfter
  <2>6. drawn[w] + LeftOf(sessionKeys, w) <= delegated[w]
    BY DEF Granted
  <2>7. LeftOf(sessionKeys, w) \in Nat
    BY LeftOfType
  <2>8. delegated'[w] = delegated[w] + IF w = v THEN limit ELSE 0
    BY <2>1, <2>2
  <2>9. LeftOf(sessionKeys, w)' = LeftOf(sessionKeys', w)
    BY DEF LeftOf, LeftBy, LeftIn
  <2> QED
    BY <2>1, <2>3, <2>4, <2>5, <2>6, <2>7, <2>8, <2>9
<1> QED
  BY <1>5, <1>6 DEF Granted

LEMMA PaymentGranted ==
  ASSUME VaultTypeOK, WithinEntry, Granted, NEW m \in signed,
         ProcessPaymentWithSessionKey(m)
  PROVE  WithinEntry' /\ Granted'
<1> DEFINE k == m.by
           s == sessionKeys[k]
           t == sessionKeys'[k]
           v == s.mainWallet
           n == m.amount
<1>1. /\ k \in Account /\ v \in Account /\ n \in Nat
      /\ drawn' = [drawn EXCEPT ![v] = @ + n]
      /\ t.mainWallet = v /\ t.spendLimit = s.spendLimit
      /\ t.spentAmount = s.spentAmount + n
      /\ t.spentAmount <= s.spendLimit
      /\ \A j \in Account : j # k => sessionKeys'[j] = sessionKeys[j]
  BY PaymentBooks
<1>2. sessionKeys \in [Account -> KeyEntry]
  BY DEF VaultTypeOK, KeyEntry
<1>3. s \in KeyEntry
  BY <1>1, <1>2
<1>4. s.spentAmount \in Nat /\ s.spendLimit \in Nat /\ s.spentAmount <= s.spendLimit
  BY <1>1, <1>3 DEF KeyEntry, WithinEntry
<1>5. delegated' = delegated
  BY DEF ProcessPaymentWithSessionKey
<1> HIDE DEF s, t, v, n, k
<1>6. WithinEntry'
  <2>1. ASSUME NEW j \in Account
        PROVE  sessionKeys'[j].spentAmount <= sessionKeys'[j].spendLimit
    <3>1. CASE j = k
      BY <1>1, <3>1 DEF t
    <3>2. CASE j # k
      BY <1>1, <3>2 DEF WithinEntry
    <3> QED
      BY <3>1, <3>2
  <2> QED
    BY <2>1 DEF WithinEntry
<1>7. ASSUME NEW w \in Account
      PROVE  drawn'[w] + LeftOf(sessionKeys, w)' <= delegated'[w]
  <2>1. drawn[w] \in Nat /\ delegated[w] \in Nat /\ drawn \in [Account -> Nat]
    BY DEF VaultTypeOK
  <2>2. /\ LeftIn(s, w) = IF v = w THEN s.spendLimit - s.spentAmount ELSE 0
        /\ LeftIn(t, w) = IF v = w THEN s.spendLimit - (s.spentAmount + n) ELSE 0
    BY <1>1 DEF LeftIn, v
  <2>3. LeftIn(t, w) \in Nat
    BY <1>1, <1>4, <2>2
  <2>4. LeftOf(sessionKeys', w) = LeftOf(sessionKeys, w) - LeftIn(s, w) + LeftIn(t, w)
    BY <1>1, <2>3, LeftAfter DEF s, t
  <2>5. drawn[w] + LeftOf(sessionKeys, w) <= delegated[w]
    BY DEF Granted
  <2>6. LeftOf(sessionKeys, w) \in Nat
    BY LeftOfType
  <2>7. drawn'[w] = drawn[w] + IF v = w THEN n ELSE 0
    BY <1>1, <2>1
  <2>8. LeftOf(sessionKeys, w)' = LeftOf(sessionKeys', w)
    BY DEF LeftOf, LeftBy, LeftIn
  <2> QED
    BY <1>1, <1>4, <1>5, <2>1, <2>2, <2>4, <2>5, <2>6, <2>7, <2>8
<1> QED
  BY <1>6, <1>7 DEF Granted

LEMMA RevokeGranted ==
  ASSUME VaultTypeOK, WithinEntry, Granted, NEW v \in Account,
         NEW k \in Account, RevokeSessionKey(v, k)
  PROVE  WithinEntry' /\ Granted'
<1>1. /\ sessionKeys'[k].mainWallet = sessionKeys[k].mainWallet
      /\ sessionKeys'[k].spendLimit = sessionKeys[k].spendLimit
      /\ sessionKeys'[k].spentAmount = sessionKeys[k].spentAmount
      /\ \A j \in Account : j # k => sessionKeys'[j] = sessionKeys[j]
      /\ drawn' = drawn /\ delegated' = delegated
  BY RevokeType DEF RevokeSessionKey
<1>2. WithinEntry'
  BY <1>1 DEF WithinEntry
<1>3. ASSUME NEW w \in Account, NEW j \in Account
      PROVE  LeftIn(sessionKeys'[j], w) = LeftIn(sessionKeys[j], w)
  BY <1>1 DEF LeftIn
<1>4. ASSUME NEW w \in Account
      PROVE  LeftOf(sessionKeys, w)' = LeftOf(sessionKeys, w)
  <2>1. LeftBy(sessionKeys', w) = LeftBy(sessionKeys, w)
    BY <1>3 DEF LeftBy
  <2> QED
    BY <2>1 DEF LeftOf, LeftBy, LeftIn
<1> QED
  BY <1>1, <1>2, <1>4 DEF Granted

LEMMA GrantedStep ==
  VaultTypeOK /\ WithinEntry /\ Granted /\ [Next]_vars => WithinEntry' /\ Granted'
<1> SUFFICES ASSUME VaultTypeOK, WithinEntry, Granted, [Next]_vars
             PROVE  WithinEntry' /\ Granted'
  OBVIOUS
<1>1. CASE \E w \in Wallet, k \in Key, limit \in Amount, d \in 1 .. MaxDuration :
             RegisterSessionKey(w, k, limit, d)
  <2>1. PICK w \in Wallet, k \in Key, limit \in Amount, d \in 1 .. MaxDuration :
               RegisterSessionKey(w, k, limit, d)
    BY <1>1
  <2>2. w \in Account /\ k \in Account /\ limit \in Nat /\ now + d \in Nat
    BY ConstantSets, VaultAssumption DEF VaultTypeOK
  <2>3. Delegate(w, k, limit, now + d) /\ UNCHANGED drawn
    BY <2>1 DEF RegisterSessionKey
  <2> QED
    BY <2>2, <2>3, DelegateGranted
<1>2. CASE \E m \in signed : RegisterSessionKeyWithSignature(m)
  <2>1. PICK m \in signed : RegisterSessionKeyWithSignature(m)
    BY <1>2
  <2>2. m \in Delegation
    BY <2>1 DEF RegisterSessionKeyWithSignature, VaultTypeOK, Payment
  <2>3. m.by \in Account /\ m.key \in Account /\ m.limit \in Nat /\ m.expiry \in Nat
    BY <2>2 DEF Delegation
  <2>4. Delegate(m.by, m.key, m.limit, m.expiry) /\ UNCHANGED drawn
    BY <2>1 DEF RegisterSessionKeyWithSignature
  <2> QED
    BY <2>3, <2>4, DelegateGranted
<1>3. CASE \E m \in signed : ProcessPaymentWithSessionKey(m)
  BY <1>3, PaymentGranted
<1>4. CASE \E w \in Wallet, k \in Key : RevokeSessionKey(w, k)
  BY <1>4, ConstantSets, RevokeGranted
<1>5. CASE UNCHANGED <<sessionKeys, delegated, drawn>>
  BY <1>5 DEF WithinEntry, Granted, LeftOf, LeftBy, LeftIn
<1> QED
  BY <1>1, <1>2, <1>3, <1>4, <1>5
  DEF Next, vars, delegation, Tick, Sign, Deposit, Withdraw, Give, StartRental,
      StartRentalWithSessionKey, Start, EndRental, SetPlatformFee,
      SetFeeRecipient

\* Whatever keys are registered, replaced, taken over and revoked, what keys
\* ever paid out of a wallet's deposit stays within what the wallet granted.
THEOREM ExposureBounded == Spec => []ExposureIsBounded
<1>1. Init => WithinEntry /\ Granted
  <2> SUFFICES ASSUME Init PROVE WithinEntry /\ Granted
    OBVIOUS
  <2>1. /\ sessionKeys = [a \in Account |-> NoKey]
        /\ drawn = [a \in Account |-> 0] /\ delegated = [a \in Account |-> 0]
    BY DEF Init
  <2>2. WithinEntry
    BY <2>1 DEF WithinEntry, NoKey
  <2>3. ASSUME NEW w \in Account PROVE LeftOf(sessionKeys, w) = 0
    <3>1. \A k \in Account : LeftBy(sessionKeys, w)[k] = 0
      BY <2>1 DEF LeftBy, LeftIn, NoKey
    <3> QED
      BY <3>1, TotalZero DEF LeftOf
  <2> QED
    BY <2>1, <2>2, <2>3 DEF Granted
<1>2. VaultTypeOK /\ WithinEntry /\ Granted => ExposureIsBounded
  <2> SUFFICES ASSUME VaultTypeOK, WithinEntry, Granted, NEW w \in Account
               PROVE  drawn[w] <= delegated[w]
    BY DEF ExposureIsBounded
  <2>1. drawn[w] \in Nat /\ delegated[w] \in Nat
    BY DEF VaultTypeOK
  <2>2. LeftOf(sessionKeys, w) \in Nat
    BY LeftOfType
  <2>3. drawn[w] + LeftOf(sessionKeys, w) <= delegated[w]
    BY DEF Granted
  <2> QED
    BY <2>1, <2>2, <2>3
<1> QED
  BY <1>1, <1>2, GrantedStep, VaultTypes, PTL DEF Spec
=============================================================================
