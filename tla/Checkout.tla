------------------------------ MODULE Checkout ------------------------------
(***************************************************************************)
(* The checkout page, from the connection of the wallet to the job that    *)
(* has been paid for, with the session of the tab and its wallet.          *)
(*                                                                         *)
(* Confirm starts a chain of awaited calls, here an order.  Nothing stops  *)
(* the chain: it goes on when the user logs out, when somebody else logs   *)
(* in, and when the page is left, and shows its result if the page that    *)
(* started it is still there.  Only loading a page ends it, short of the   *)
(* request that may be on its way.                                         *)
(*                                                                         *)
(* Prices and the configuration of the job are left out: the page passes   *)
(* them on.  The payment is a mock: it always succeeds.                    *)
(***************************************************************************)
EXTENDS Session, Wallet, Integers, Sequences

CONSTANTS
  Account,    \* the users the server knows
  Caller,     \* Caller[token]: the account the server takes a token for
  Rejected,   \* no account: the server answers 401
  MaxOrders,  \* bound: payments confirmed
  MaxChanges  \* bound: changes of the open account and of the stored session from
              \* outside the tab

ASSUME CheckoutAssumption ==
  /\ Rejected \notin Account /\ Nobody \notin Account
  /\ Caller \in [Anyone -> Account \cup {Rejected}]
  /\ MaxOrders \in Nat /\ MaxChanges \in Nat

VARIABLES
  here,     \* the tab is on the checkout page
  step,     \* the step the page shows
  order,    \* order[n]: the chain of calls of the n-th confirmation
  current,  \* the order the page has started last, 0 before
  landing,  \* a Google login has been answered, its redirect is to come
  changes

checkoutVars == <<here, step, order, current, landing, changes>>
vars == <<sessionVars, walletVars, checkoutVars>>

Order == 1..MaxOrders
Step == {"connect", "review", "payment", "processing", "success", "error"}

\* The chain of handleConfirmPayment: the waits up to the payment, one after it,
\* the request to create the job and its answer, and the refresh of the jobs with
\* the last wait; then its end, also when the page was loaded under it: unpaid
\* ("dropped"), with a request that is out ("orphan"), or otherwise ("ended").
\* Waits in a row are one: only the progress bar tells them apart.
Running == {"paying", "settle", "sent", "created", "refused", "finish"}
Stage == Running \cup {"none", "ended", "dropped", "orphan"}

OrderRecord ==
  [stage : Stage,
   live : BOOLEAN,                \* the page that started it is still there
   token : Anyone,                \* of the request to create the job
   payer : Anyone,                \* history: the user who confirmed, if nobody else has
                                  \* had the tab since, up to the request
   as : Anyone,                   \* history: whom the tab showed at the request
   jobs : Seq(Account),           \* history: whom the server has booked jobs for
   acked : BOOLEAN]               \* history: the page has been told so

NoOrder == [stage |-> "none", live |-> FALSE, token |-> Nobody,
            payer |-> Nobody, as |-> Nobody, jobs |-> <<>>, acked |-> FALSE]

\* The history of an order that no job can be booked for any more is dropped.
Closed(o, stage) == [o EXCEPT !.stage = stage, !.token = Nobody, !.payer = Nobody,
                              !.as = Nobody]

CheckoutInit ==
  /\ here = FALSE
  /\ step = "connect"
  /\ order = [n \in Order |-> NoOrder]
  /\ current = 0
  /\ landing = FALSE
  /\ changes = 0

Init == SessionInit /\ WalletInit /\ CheckoutInit

\* Something outside the tab changes, once more.
Changed ==
  /\ changes < MaxChanges
  /\ changes' = changes + 1

Pages == <<here, step, current>>
Visible == ready /\ shown # Nobody

-----------------------------------------------------------------------------
(* Coming and going                                                        *)

\* The page is mounted with nothing done, or gone; what it has started goes on.
Mounted ==
  /\ here' = TRUE /\ step' = "connect" /\ current' = 0
  /\ MountWallet

Unmounted ==
  /\ here' = FALSE /\ step' = "connect" /\ current' = 0
  /\ UnmountWallet

Abandoned == [n \in Order |-> [order[n] EXCEPT !.live = FALSE]]

\* A page load ends every chain of calls; a request that is out may be served.
Killed ==
  [n \in Order |->
     LET o == [order[n] EXCEPT !.live = FALSE]
     IN  CASE o.stage = "sent" -> [o EXCEPT !.stage = "orphan"]
           [] o.stage = "paying" -> Closed(o, "dropped")
           [] o.stage \in Running \ {"paying", "sent"} -> Closed(o, "ended")
           [] OTHER -> o]

\* The address of the page, or of another one, is opened or loaded anew.
Open ==
  /\ Load
  /\ Mounted \/ Unmounted
  /\ order' = Killed
  /\ landing' = FALSE
  /\ UNCHANGED changes

\* The create page pushes the checkout page.
Enter ==
  /\ ~here /\ Visible
  /\ Mounted
  /\ UNCHANGED <<sessionVars, order, landing, changes>>

\* A link of the page, or its guard, which wants a user.
Leave ==
  /\ here /\ ready
  /\ Unmounted
  /\ order' = Abandoned
  /\ UNCHANGED <<sessionVars, landing, changes>>

-----------------------------------------------------------------------------
(* Logging in and out                                                      *)

\* The tab has another user, or none, while these orders have not been sent yet.
HandedOver ==
  [n \in Order |-> IF order[n].stage \in {"paying", "settle"}
                   THEN [order[n] EXCEPT !.payer = IF shown' = @ THEN @ ELSE Nobody]
                   ELSE order[n]]

Restored ==
  /\ Restore
  /\ UNCHANGED <<walletVars, checkoutVars>>

\* The login page is another page.
SignIn(u) ==
  /\ ~here /\ shown = Nobody
  /\ signing = {} /\ u # DevUser
  /\ GoogleLogin(u)
  /\ UNCHANGED <<walletVars, checkoutVars>>

SignedIn(u) ==
  /\ LoginAnswered(u)
  /\ landing' = TRUE
  /\ order' = HandedOver
  /\ UNCHANGED <<walletVars, Pages, changes>>

SignInFailed(u) ==
  /\ LoginFailed(u)
  /\ UNCHANGED <<walletVars, checkoutVars>>

\* What handleGoogleCallback does last: on to the dashboard.
Land ==
  /\ landing
  /\ landing' = FALSE
  /\ Unmounted
  /\ order' = Abandoned
  /\ UNCHANGED <<sessionVars, changes>>

SignInAsDeveloper ==
  /\ ~here
  /\ DevLogin
  /\ order' = HandedOver
  /\ UNCHANGED <<walletVars, Pages, landing, changes>>

\* Another tab logs somebody in or out.
OtherTab(u) ==
  /\ Elsewhere(u)
  /\ Changed
  /\ UNCHANGED <<walletVars, Pages, order, landing>>

SignOut ==
  /\ Logout
  /\ order' = HandedOver
  /\ UNCHANGED <<walletVars, Pages, landing, changes>>

-----------------------------------------------------------------------------
(* The wallet                                                              *)

\* The effect that leaves the first step when the wallet is connected.
Advanced ==
  step' = IF here /\ connected' /\ step = "connect" THEN "review" ELSE step

\* The connect button; without MetaMask there is a link to it instead.
ConnectOffered == here /\ Visible /\ step = "connect" /\ ~connecting

Ask ==
  /\ ConnectOffered
  /\ Connect
  /\ UNCHANGED <<sessionVars, checkoutVars>>

WalletStep ==
  /\ \E q \in asking : AccountsAnswered(q) \/ BalanceAnswered(q) \/ AskFailed(q)
  /\ Advanced
  /\ UNCHANGED <<sessionVars, here, order, current, landing, changes>>

\* Another account is opened to the page, or none.
PurseStep ==
  /\ Changed
  /\ \E p \in Purse \cup {NoPurse} : AccountsChanged(p, here)
  /\ UNCHANGED <<sessionVars, Pages, order, landing>>

-----------------------------------------------------------------------------
(* The steps of the page                                                   *)

\* What the page renders for a step, with its buttons.
ReviewShown == here /\ Visible /\ step = "review"
PaymentShown == here /\ Visible /\ step = "payment"
ProcessingShown == here /\ Visible /\ step = "processing"
SuccessShown == here /\ Visible /\ step = "success"
ErrorShown == here /\ Visible /\ step = "error"

Proceed ==
  /\ ReviewShown
  /\ step' = "payment"
  /\ UNCHANGED <<sessionVars, walletVars, here, order, current, landing, changes>>

Back ==
  /\ PaymentShown
  /\ step' = "review"
  /\ UNCHANGED <<sessionVars, walletVars, here, order, current, landing, changes>>

\* handleConfirmPayment; that the wallet is still connected is not looked at.
Confirm(n) ==
  /\ PaymentShown
  /\ order[n] = NoOrder /\ \A m \in 1..(n - 1) : order[m] # NoOrder
  /\ step' = "processing"
  /\ current' = n
  /\ order' = [order EXCEPT ![n].stage = "paying", ![n].payer = shown,
                            ![n].live = TRUE]
  /\ UNCHANGED <<sessionVars, walletVars, here, landing, changes>>

\* handleRetry: to be paid and ordered again.
Retry ==
  /\ ErrorShown
  /\ step' = "payment"
  /\ UNCHANGED <<sessionVars, walletVars, here, order, current, landing, changes>>

-----------------------------------------------------------------------------
(* The chain of an order                                                   *)

Untouched == <<sessionVars, walletVars, here, current, landing, changes>>

\* wallet.mockPayment has returned.
Pay(n) ==
  /\ order[n].stage = "paying"
  /\ order' = [order EXCEPT ![n].stage = "settle"]
  /\ UNCHANGED <<Untouched, step>>

\* Mutant: with the token that is in the storage by now.
CreateFromStorage(n) ==
  /\ order[n].stage = "settle"
  /\ order' = [order EXCEPT ![n].stage = "sent", ![n].token = stored.token,
                            ![n].as = shown]
  /\ UNCHANGED <<Untouched, step>>

\* createJob: with the token the tab holds by now.
Create(n) ==
  /\ order[n].stage = "settle"
  /\ order' = [order EXCEPT ![n].stage = "sent", ![n].token = client,
                            ![n].as = shown]
  /\ UNCHANGED <<Untouched, step>>

\* The server deals with a request, booking the jobs; its answer gets a new stage
\* unless nobody waits for it.
Answer(n, stage, jobs) ==
  /\ order[n].stage \in {"sent", "orphan"}
  /\ LET o == Closed(order[n], IF order[n].stage = "sent" THEN stage ELSE "ended")
     IN  order' = [order EXCEPT ![n] = [o EXCEPT !.jobs = @ \o jobs]]
  /\ UNCHANGED <<Untouched, step>>

Book(n) ==
  /\ Caller[order[n].token] # Rejected
  /\ Answer(n, "created", <<Caller[order[n].token]>>)

\* No such caller, no GPU, or an error of the server.
Refuse(n) == Answer(n, "refused", <<>>)

\* The job is booked and the answer lost.
LoseAnswer(n) ==
  /\ Caller[order[n].token] # Rejected
  /\ Answer(n, "refused", <<Caller[order[n].token]>>)

\* Mutant: an error of the refresh is an error of createJob.
AcknowledgedOrThrown(n) ==
  /\ order[n].stage = "created"
  /\ \E stage \in {"finish", "refused"} :
       order' = [order EXCEPT ![n].stage = stage, ![n].acked = TRUE]
  /\ UNCHANGED <<Untouched, step>>

\* createJob goes on to refresh the list of jobs, which keeps its errors to itself.
Acknowledged(n) ==
  /\ order[n].stage = "created"
  /\ order' = [order EXCEPT ![n].stage = "finish", ![n].acked = TRUE]
  /\ UNCHANGED <<Untouched, step>>

\* The chain ends, and the page that started it says so.
EndWith(n, stage, result) ==
  /\ order' = [order EXCEPT ![n].stage = stage, ![n].live = FALSE]
  /\ step' = IF order[n].live THEN result ELSE step
  /\ UNCHANGED Untouched

Finish(n) == order[n].stage = "finish" /\ EndWith(n, "ended", "success")

\* Mutant: the request is repeated when it has failed.
FailRetries(n) ==
  \/ order[n].stage = "refused" /\ EndWith(n, "ended", "error")
  \/ /\ order[n].stage = "refused"
     /\ order' = [order EXCEPT ![n].stage = "settle"]
     /\ UNCHANGED <<Untouched, step>>

\* Mutant: the error is not caught.
FailSilently(n) == order[n].stage = "refused" /\ EndWith(n, "ended", step)

Fail(n) == order[n].stage = "refused" /\ EndWith(n, "ended", "error")

-----------------------------------------------------------------------------
SessionStep ==
  \/ Restored \/ SignInAsDeveloper \/ SignOut \/ Land
  \/ \E u \in User : SignIn(u) \/ SignedIn(u) \/ SignInFailed(u)
  \/ \E u \in Anyone : OtherTab(u)

PageStep ==
  \/ Open \/ Enter \/ Leave
  \/ Ask \/ WalletStep \/ PurseStep
  \/ Proceed \/ Back \/ Retry
  \/ \E n \in Order : Confirm(n)

ChainStep(n) ==
  \/ Pay(n) \/ Create(n) \/ Acknowledged(n) \/ Finish(n) \/ Fail(n)

OrderStep(n) ==
  ChainStep(n) \/ Book(n) \/ Refuse(n) \/ LoseAnswer(n)

Next == SessionStep \/ PageStep \/ \E n \in Order : OrderStep(n)

Spec == Init /\ [][Next]_vars

\* Timers go off, the server answers and callbacks are called back.
Fairness ==
  \A n \in Order : WF_vars(ChainStep(n)) /\ WF_vars(Book(n) \/ Refuse(n))

FairSpec == Spec /\ Fairness

-----------------------------------------------------------------------------
CheckoutTypeOK ==
  /\ SessionTypeOK /\ WalletTypeOK
  /\ here \in BOOLEAN
  /\ step \in Step
  /\ order \in [Order -> OrderRecord]
  /\ current \in 0..MaxOrders
  /\ landing \in BOOLEAN
  /\ changes \in 0..MaxChanges

PaidOrders ==
  {n \in Order : order[n].stage \notin {"none", "paying", "dropped"}}
Deliveries == [n \in Order |-> Len(order[n].jobs)]

\* The page keeps the promise of Sale: whatever happens to the session, the
\* wallet and the page meanwhile, no job is created for an order that has not
\* been paid, and at most one for one that has.
S == INSTANCE Sale WITH paid <- PaidOrders, delivered <- Deliveries
RefinesSale == S!Spec

\* What the page tells is true of the order it has started last: after success
\* there is a job, and after an error no answer has said that there is one.
\* A retry therefore never repeats what the page knows to be done.
ResultIsTrue ==
  /\ SuccessShown => current # 0 /\ order[current].jobs # <<>>
  /\ ErrorShown => current # 0 /\ ~order[current].acked

\* A job is booked for the user this very tab showed when the request went out,
\* never for one of another tab, whose token is in the storage by then; and for
\* the one who confirmed the payment if nobody else had the tab in between.
BookedForShown ==
  [][\A n \in Order :
       order'[n].jobs # order[n].jobs
         => /\ order'[n].jobs = Append(order[n].jobs, Caller[order[n].as])
            /\ order[n].payer \in {Nobody, order[n].as}]_vars

\* The page does not stay at processing, whatever becomes of the session and
\* of the request.
ProcessingEnds == ProcessingShown ~> step # "processing"
=============================================================================
