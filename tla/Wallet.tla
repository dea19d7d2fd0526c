------------------------------- MODULE Wallet -------------------------------
(***************************************************************************)
(* hooks/useWallet: what the checkout page knows of MetaMask.  The account *)
(* is asked for when the page is mounted and by the connect button, each   *)
(* time in steps that wait for MetaMask, and pushed by its events, which   *)
(* may come between these steps.                                           *)
(*                                                                         *)
(* Balance and chain are shown and otherwise not used; reading them is     *)
(* kept as the step it takes.  switchToBscTestnet, signMessage and         *)
(* disconnect are called by no page but through the events below.          *)
(***************************************************************************)
CONSTANTS
  Purse,     \* the accounts of the user's MetaMask
  NoPurse,   \* no account is open to the page, or none is known
  Installed  \* there is a MetaMask in the browser

ASSUME WalletAssumption == NoPurse \notin Purse /\ Installed \in BOOLEAN

VARIABLES
  purse,       \* MetaMask: the account open to the page
  address,     \* useWallet: the account it shows
  connected,
  connecting,
  asking,      \* connect and checkConnection calls under way
  overtaken    \* history: at its last change the account had been read, not yet shown

walletVars == <<purse, address, connected, connecting, asking, overtaken>>

Question ==
  [by : {"button", "mount"}, stage : {"accounts"}, found : {NoPurse}]
    \cup [by : {"button", "mount"}, stage : {"balance"}, found : Purse]

AskBy(who) == [by |-> who, stage |-> "accounts", found |-> NoPurse]

WalletInit ==
  /\ purse \in {NoPurse} \cup Purse
  /\ address = NoPurse
  /\ connected = FALSE
  /\ connecting = FALSE
  /\ asking = {}
  /\ overtaken = FALSE

\* The page is mounted: a fresh state, and checkConnection.
MountWallet ==
  /\ address' = NoPurse
  /\ connected' = FALSE
  /\ connecting' = FALSE
  /\ asking' = IF Installed THEN {AskBy("mount")} ELSE {}
  /\ overtaken' = FALSE
  /\ UNCHANGED purse

\* The page is left: no answer and no event reaches it any more.
UnmountWallet ==
  /\ address' = NoPurse
  /\ connected' = FALSE
  /\ connecting' = FALSE
  /\ asking' = {}
  /\ overtaken' = FALSE
  /\ UNCHANGED purse

Connect ==
  /\ Installed
  /\ connecting' = TRUE
  /\ asking' = asking \cup {AskBy("button")}
  /\ UNCHANGED <<purse, address, connected, overtaken>>

\* Mutant: the list of accounts may be empty.
AccountsAnsweredUnchecked(q) ==
  /\ q \in asking /\ q.stage = "accounts"
  /\ asking' = (asking \ {q}) \cup {[q EXCEPT !.stage = "balance", !.found = purse]}
  /\ UNCHANGED <<purse, address, connected, connecting, overtaken>>

\* eth_requestAccounts waits until the user has opened an account to the page;
\* eth_accounts does not: there is nothing to connect to.
AccountsAnswered(q) ==
  /\ q \in asking /\ q.stage = "accounts"
  /\ \/ /\ purse # NoPurse
        /\ asking' = (asking \ {q}) \cup {[q EXCEPT !.stage = "balance", !.found = purse]}
     \/ /\ purse = NoPurse /\ q.by = "mount"
        /\ asking' = asking \ {q}
  /\ UNCHANGED <<purse, address, connected, connecting, overtaken>>

\* Balance and network are there: setState replaces the whole state.
BalanceAnswered(q) ==
  /\ q \in asking /\ q.stage = "balance"
  /\ address' = q.found
  /\ connected' = TRUE
  /\ connecting' = FALSE
  /\ asking' = asking \ {q}
  /\ UNCHANGED <<purse, overtaken>>

\* The user turns the connection down, or a call fails.
AskFailed(q) ==
  /\ q \in asking
  /\ asking' = asking \ {q}
  /\ IF q.by = "button"
     THEN connected' = FALSE /\ connecting' = FALSE
     ELSE UNCHANGED <<connected, connecting>>
  /\ UNCHANGED <<purse, address, overtaken>>

\* Mutant: an empty list of accounts is not looked for.
AccountsChangedUnchecked(p, mounted) ==
  /\ p # purse
  /\ purse' = p
  /\ IF mounted /\ Installed
     THEN /\ address' = p
          /\ overtaken' = (\E q \in asking : q.stage = "balance")
     ELSE UNCHANGED <<address, overtaken>>
  /\ UNCHANGED <<connected, connecting, asking>>

\* The user opens another account to the page, or none; accountsChanged says so
\* to a mounted page, which forgets everything or takes the address.
AccountsChanged(p, mounted) ==
  /\ p # purse
  /\ purse' = p
  /\ IF mounted /\ Installed
     THEN /\ address' = p
          /\ overtaken' = (\E q \in asking : q.stage = "balance")
          /\ IF p = NoPurse
             THEN connected' = FALSE /\ connecting' = FALSE
             ELSE UNCHANGED <<connected, connecting>>
     ELSE UNCHANGED <<address, overtaken, connected, connecting>>
  /\ UNCHANGED asking

-----------------------------------------------------------------------------
WalletTypeOK ==
  /\ purse \in Purse \cup {NoPurse}
  /\ address \in Purse \cup {NoPurse}
  /\ connected \in BOOLEAN /\ connecting \in BOOLEAN
  /\ asking \subseteq Question
  /\ overtaken \in BOOLEAN

\* A page that says it is connected has an address to show, which its header
\* takes for granted, and it is the account that is open to the page, unless
\* that changed between two steps of a connect.
WalletIsCurrent ==
  connected =>
    /\ address # NoPurse
    /\ ~overtaken => address = purse
=============================================================================
