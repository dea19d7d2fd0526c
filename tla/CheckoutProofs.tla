--------------------------- MODULE CheckoutProofs ---------------------------
(***************************************************************************)
(* What holds of the checkout for any users, wallets and orders: the       *)
(* wallet shown is the one that is open, a job is booked for the user the  *)
(* tab shows, what the page says is true, and the page implements Sale.    *)
(***************************************************************************)
EXTENDS Checkout, SessionProofs

-----------------------------------------------------------------------------
(* The session                                                             *)

\* Every step does with the session what a tab can do with it.
LEMMA CheckoutMoves == [Next]_vars => SessionMove
<1> SUFFICES ASSUME [Next]_vars PROVE SessionMove
    OBVIOUS
<1> USE DEF SessionMove
<1>1. CASE SessionStep
  BY <1>1 DEF SessionStep, Restored, SignInAsDeveloper, SignOut, Land, SignIn,
              SignedIn, SignInFailed, OtherTab, sessionVars
<1>2. CASE PageStep
  BY <1>2 DEF PageStep, Open, Enter, Leave, Ask, WalletStep, PurseStep, Proceed,
              Back, Retry, Confirm, sessionVars
<1>3. ASSUME NEW n \in Order, OrderStep(n) PROVE SessionMove
  BY <1>3 DEF OrderStep, ChainStep, Pay, Create, Acknowledged, Finish, Fail,
              EndWith, Book, Refuse, LoseAnswer, Answer, Untouched, sessionVars
<1>4. CASE UNCHANGED vars
  BY <1>4 DEF vars
<1> QED
  BY <1>1, <1>2, <1>3, <1>4 DEF Next

-----------------------------------------------------------------------------
(* The wallet                                                              *)

\* An account that has been read is the open one, unless that changed since; and
\* only a mounted page with a MetaMask asks or is connected.
WalletInv ==
  /\ WalletTypeOK /\ WalletIsCurrent
  /\ \A q \in asking : q.stage = "balance" /\ ~overtaken => q.found = purse
  /\ ~(here /\ Installed) => asking = {} /\ ~connected
  /\ here \in BOOLEAN

LEMMA WalletStarts == Init => WalletInv
BY DEF Init, WalletInit, CheckoutInit, WalletInv, WalletTypeOK, WalletIsCurrent

\* A fresh page, or none.
LEMMA MountKeeps ==
  ASSUME WalletInv, Mounted \/ Unmounted
  PROVE  WalletInv'
<1>1. AskBy("mount") \in Question /\ AskBy("mount").stage = "accounts"
  BY DEF AskBy, Question
<1>2. /\ address' = NoPurse /\ ~connected' /\ ~connecting' /\ ~overtaken'
      /\ connected' \in BOOLEAN /\ connecting' \in BOOLEAN /\ overtaken' \in BOOLEAN
      /\ here' \in BOOLEAN /\ purse' = purse
      /\ asking' = IF here' /\ Installed THEN {AskBy("mount")} ELSE {}
  BY DEF Mounted, Unmounted, MountWallet, UnmountWallet
<1> QED
  BY <1>1, <1>2 DEF WalletInv, WalletTypeOK, WalletIsCurrent

\* The calls under way and their answers.
LEMMA AskKeeps ==
  ASSUME WalletInv, here' = here,
         \/ here /\ Connect
         \/ \E q \in asking : AccountsAnswered(q) \/ BalanceAnswered(q) \/ AskFailed(q)
  PROVE  WalletInv'
<1> USE DEF WalletInv, WalletTypeOK, WalletIsCurrent
<1>1. CASE here /\ Connect
  <2>1. AskBy("button") \in Question /\ AskBy("button").stage = "accounts"
    BY DEF AskBy, Question
  <2> QED
    BY <1>1, <2>1 DEF Connect
<1>2. ASSUME NEW q \in asking, AccountsAnswered(q) PROVE WalletInv'
  <2> DEFINE a == [q EXCEPT !.stage = "balance", !.found = purse]
  <2>1. purse # NoPurse => a \in Question /\ a.found = purse
    BY <1>2 DEF Question
  <2>2. /\ asking' \subseteq asking \cup {a}
        /\ a \in asking' => a \in asking \/ purse # NoPurse
        /\ UNCHANGED <<purse, address, connected, connecting, overtaken>>
    BY <1>2 DEF AccountsAnswered
  <2> HIDE DEF a
  <2> QED
    BY <2>1, <2>2
<1>3. ASSUME NEW q \in asking, BalanceAnswered(q) PROVE WalletInv'
  <2>1. q.found \in Purse
    BY <1>3 DEF BalanceAnswered, Question
  <2> QED
    BY <1>3, <2>1, WalletAssumption DEF BalanceAnswered
<1>4. ASSUME NEW q \in asking, AskFailed(q) PROVE WalletInv'
  BY <1>4 DEF AskFailed
<1> QED
  BY <1>1, <1>2, <1>3, <1>4

\* Another account is opened to the page, or none.
LEMMA PurseKeeps ==
  ASSUME WalletInv, here' = here, NEW p \in Purse \cup {NoPurse},
         AccountsChanged(p, here)
  PROVE  WalletInv'
<1> USE DEF WalletInv, WalletTypeOK, WalletIsCurrent
<1>1. CASE here /\ Installed
  BY <1>1 DEF AccountsChanged
<1>2. CASE ~(here /\ Installed)
  BY <1>2 DEF AccountsChanged
<1> QED
  BY <1>1, <1>2

LEMMA WalletKept == WalletInv /\ [Next]_vars => WalletInv'
<1> SUFFICES ASSUME WalletInv, [Next]_vars PROVE WalletInv'
    OBVIOUS
<1>1. ASSUME UNCHANGED <<walletVars, here>> PROVE WalletInv'
  BY <1>1 DEF walletVars, WalletInv, WalletTypeOK, WalletIsCurrent
<1>2. CASE SessionStep
  BY <1>1, <1>2, MountKeeps
     DEF SessionStep, Restored, SignInAsDeveloper, SignOut, Land, SignIn,
         SignedIn, SignInFailed, OtherTab, checkoutVars, Pages
<1>3. CASE PageStep
  <2>1. CASE Open \/ Enter \/ Leave
    BY <2>1, MountKeeps DEF Open, Enter, Leave
  <2>2. CASE Ask \/ WalletStep
    BY <2>2, AskKeeps DEF Ask, ConnectOffered, WalletStep, checkoutVars
  <2>3. CASE PurseStep
    BY <2>3, PurseKeeps DEF PurseStep, Pages
  <2>4. CASE Proceed \/ Back \/ Retry \/ \E n \in Order : Confirm(n)
    BY <1>1, <2>4 DEF Proceed, Back, Retry, Confirm
  <2> QED
    BY <1>3, <2>1, <2>2, <2>3, <2>4 DEF PageStep
<1>4. ASSUME NEW n \in Order, OrderStep(n) PROVE WalletInv'
  BY <1>1, <1>4 DEF OrderStep, ChainStep, Pay, Create, Acknowledged, Finish, Fail,
              EndWith, Book, Refuse, LoseAnswer, Answer, Untouched
<1>5. CASE UNCHANGED vars
  BY <1>1, <1>5 DEF vars, checkoutVars
<1> QED
  BY <1>2, <1>3, <1>4, <1>5 DEF Next

\* A page that says it is connected shows an account, and the one that is open
\* to it unless that changed between two steps of a connect.
THEOREM WalletShown == Spec => []WalletIsCurrent
<1>1. WalletInv => WalletIsCurrent
  BY DEF WalletInv
<1> QED
  BY <1>1, WalletStarts, WalletKept, PTL DEF Spec

-----------------------------------------------------------------------------
(* The orders                                                              *)

\* An order has a job only after it was sent, has one once it is acknowledged,
\* and has been acknowledged only then.
Accountable(o) ==
  /\ o.stage \in {"none", "paying", "settle", "sent", "orphan", "dropped"} => o.jobs = <<>>
  /\ o.stage \in {"created", "finish"} => o.jobs # <<>>
  /\ o.acked => o.stage \in {"finish", "ended"}

\* The payer of an order, if it still has one, is the user shown (who) until the
\* request is sent; that goes out as the user shown then, with that user's token.
Faithful(o, who) ==
  /\ o.stage \in {"paying", "settle"} => o.payer \in {Nobody, who}
  /\ o.stage \in {"sent", "orphan"} => o.token = o.as /\ o.payer \in {Nobody, o.as}

\* While a request is still to be sent the tab has looked at the storage, and
\* holds the token of the user it shows, or none if it shows nobody: the token
\* that is left over from a user who does not parse is gone by then.
InSession ==
  \A n \in Order : order[n].stage \in {"paying", "settle"} => ready /\ client = shown

\* The chain the page waits for is the one it has started last.
Attended(n) == order[n].live => here /\ step = "processing" /\ current = n

\* The result on the page is that of the order it has started last.
Told ==
  /\ step = "success" =>
       current \in Order /\ order[current].stage = "ended" /\ order[current].jobs # <<>>
  /\ step = "error" =>
       current \in Order /\ order[current].stage = "ended" /\ ~order[current].acked

\* A tab that has not looked at the storage shows nobody.
LoadingShowsNobody == ~ready => shown = Nobody /\ signing = {}

OrderInv ==
  /\ CheckoutTypeOK /\ SessionInv /\ LoadingShowsNobody /\ Told /\ InSession
  /\ \A n \in Order : Accountable(order[n]) /\ Faithful(order[n], shown) /\ Attended(n)

LEMMA NoOrderFits == NoOrder \in OrderRecord
BY DEF NoOrder, OrderRecord, Stage, Running, Anyone

LEMMA OrdersStart == Init => OrderInv
<1> SUFFICES ASSUME Init PROVE OrderInv
    OBVIOUS
<1>1. SessionInv
  BY SessionStarts DEF Init
<1>2. WalletTypeOK
  BY WalletStarts DEF WalletInv
<1>3. order \in [Order -> OrderRecord] /\ \A n \in Order : order[n] = NoOrder
  BY NoOrderFits DEF Init, CheckoutInit
<1>4. CheckoutTypeOK
  <2>1. current \in 0..MaxOrders /\ changes \in 0..MaxChanges
    BY CheckoutAssumption DEF Init, CheckoutInit
  <2>2. here \in BOOLEAN /\ step \in Step /\ landing \in BOOLEAN
    BY DEF Init, CheckoutInit, Step
  <2> QED
    BY <1>1, <1>2, <1>3, <2>1, <2>2 DEF CheckoutTypeOK, SessionInv
<1>5. LoadingShowsNobody /\ Told
  BY DEF Init, SessionInit, CheckoutInit, LoadingShowsNobody, Told
<1>6. ASSUME NEW n \in Order
      PROVE  Accountable(order[n]) /\ Faithful(order[n], shown) /\ Attended(n)
  BY <1>3 DEF NoOrder, Accountable, Faithful, Attended
<1>7. InSession
  BY <1>3 DEF NoOrder, InSession
<1> QED
  BY <1>1, <1>4, <1>5, <1>6, <1>7 DEF OrderInv

\* What loading a page, leaving it, and a change of the session do to an order.
LEMMA ClosedOrder ==
  ASSUME NEW o \in OrderRecord, NEW stage \in Stage
  PROVE  LET c == Closed(o, stage)
         IN  /\ c \in OrderRecord /\ c.stage = stage /\ c.token = Nobody
             /\ c.payer = Nobody /\ c.as = Nobody
             /\ c.live = o.live /\ c.jobs = o.jobs /\ c.acked = o.acked
<1>1. Nobody \in Anyone
  BY DEF Anyone
<1> QED
  BY <1>1 DEF Closed, OrderRecord

LEMMA KilledOrder ==
  ASSUME OrderInv, NEW n \in Order
  PROVE  LET o == Killed[n]
         IN  /\ o \in OrderRecord /\ Accountable(o) /\ ~o.live
             /\ o.stage \notin {"paying", "settle"}
             /\ o.stage \in {"sent", "orphan"} =>
                  o.token = o.as /\ o.payer \in {Nobody, o.as}
<1> DEFINE o == [order[n] EXCEPT !.live = FALSE]
<1>1. order[n] \in OrderRecord /\ Accountable(order[n]) /\ Faithful(order[n], shown)
  BY DEF OrderInv, CheckoutTypeOK
<1>2. /\ o \in OrderRecord /\ ~o.live /\ o.stage = order[n].stage
      /\ o.payer = order[n].payer /\ o.token = order[n].token /\ o.as = order[n].as
      /\ o.jobs = order[n].jobs /\ o.acked = order[n].acked
  BY <1>1 DEF OrderRecord
<1>3. Killed[n] = CASE o.stage = "sent" -> [o EXCEPT !.stage = "orphan"]
                    [] o.stage = "paying" -> Closed(o, "dropped")
                    [] o.stage \in Running \ {"paying", "sent"} -> Closed(o, "ended")
                    [] OTHER -> o
  BY DEF Killed
<1>4. "dropped" \in Stage /\ "ended" \in Stage
  BY DEF Stage
<1> HIDE DEF o
<1>5. CASE o.stage = "sent"
  <2>1. Killed[n] = [o EXCEPT !.stage = "orphan"]
    BY <1>3, <1>5 DEF Running
  <2> QED
    BY <1>1, <1>2, <1>5, <2>1 DEF OrderRecord, Stage, Accountable, Faithful
<1>6. CASE o.stage = "paying"
  <2>1. Killed[n] = Closed(o, "dropped")
    BY <1>3, <1>6 DEF Running
  <2> QED
    BY <1>1, <1>2, <1>4, <1>6, <2>1, ClosedOrder DEF Accountable
<1>7. CASE o.stage \in Running \ {"paying", "sent"}
  <2>1. Killed[n] = Closed(o, "ended")
    BY <1>3, <1>7 DEF Running
  <2> QED
    BY <1>1, <1>2, <1>4, <1>7, <2>1, ClosedOrder DEF Accountable
<1>8. CASE o.stage \notin Running
  <2>1. Killed[n] = o
    BY <1>3, <1>8 DEF Running
  <2> QED
    BY <1>1, <1>2, <1>8, <2>1 DEF Running, Accountable, Faithful
<1> QED
  BY <1>5, <1>6, <1>7, <1>8

LEMMA AbandonedOrder ==
  ASSUME OrderInv, NEW n \in Order
  PROVE  LET o == Abandoned[n]
         IN  /\ o \in OrderRecord /\ Accountable(o) /\ Faithful(o, shown) /\ ~o.live
             /\ o.stage = order[n].stage
<1>1. order[n] \in OrderRecord /\ Accountable(order[n]) /\ Faithful(order[n], shown)
  BY DEF OrderInv, CheckoutTypeOK
<1>2. Abandoned[n] = [order[n] EXCEPT !.live = FALSE]
  BY DEF Abandoned
<1> QED
  BY <1>1, <1>2 DEF OrderRecord, Accountable, Faithful

LEMMA HandedOverOrder ==
  ASSUME OrderInv, NEW n \in Order
  PROVE  LET o == HandedOver[n]
         IN  /\ o \in OrderRecord /\ Accountable(o) /\ Faithful(o, shown')
             /\ o.live = order[n].live /\ o.stage = order[n].stage
             /\ o.jobs = order[n].jobs /\ o.acked = order[n].acked
<1>1. order[n] \in OrderRecord /\ Accountable(order[n]) /\ Faithful(order[n], shown)
  BY DEF OrderInv, CheckoutTypeOK
<1>2. Nobody \in Anyone
  BY DEF Anyone
<1>3. CASE order[n].stage \in {"paying", "settle"}
  <2>1. PICK p \in Anyone : /\ p \in {Nobody, shown'}
                            /\ HandedOver[n] = [order[n] EXCEPT !.payer = p]
    <3>1. HandedOver[n] = [order[n] EXCEPT !.payer = IF shown' = @ THEN @ ELSE Nobody]
      BY <1>3 DEF HandedOver
    <3>2. order[n].payer \in Anyone
      BY <1>1 DEF OrderRecord
    <3> QED
      BY <1>2, <3>1, <3>2
  <2> QED
    BY <1>1, <1>3, <2>1 DEF OrderRecord, Accountable, Faithful
<1>4. CASE order[n].stage \notin {"paying", "settle"}
  <2>1. HandedOver[n] = order[n]
    BY <1>4 DEF HandedOver
  <2> QED
    BY <1>1, <1>4, <2>1 DEF Faithful
<1> QED
  BY <1>3, <1>4

-----------------------------------------------------------------------------
(* Pages and session                                                       *)

\* A page is mounted or gone; no chain of an earlier page is called back.
LEMMA PagesKeep ==
  ASSUME OrderInv, SessionInv', WalletInv',
         Mounted \/ Unmounted, landing' \in BOOLEAN, changes' = changes,
         \/ order' = Killed /\ ~ready' /\ shown' = Nobody /\ signing' = {}
         \/ /\ order' = Abandoned \/ (order' = order /\ ~here)
            /\ UNCHANGED sessionVars
  PROVE  OrderInv'
<1>1. order' = [n \in Order |-> order'[n]]
  BY DEF Killed, Abandoned, OrderInv, CheckoutTypeOK
<1>2. ASSUME NEW n \in Order
      PROVE  /\ order'[n] \in OrderRecord /\ Accountable(order'[n])
             /\ ~order'[n].live /\ Faithful(order'[n], shown')
             /\ order'[n].stage \in {"paying", "settle"} => ready' /\ client' = shown'
  <2>1. CASE order' = Killed /\ ~ready'
    BY <2>1, KilledOrder DEF Faithful
  <2>2. CASE order' = Abandoned /\ UNCHANGED sessionVars
    BY <2>2, AbandonedOrder DEF Faithful, sessionVars, OrderInv, InSession
  <2>3. CASE order' = order /\ ~here /\ UNCHANGED sessionVars
    BY <2>3 DEF Faithful, sessionVars, OrderInv, CheckoutTypeOK, Attended,
                OrderRecord, InSession
  <2> QED
    BY <2>1, <2>2, <2>3
<1>3. /\ here' \in BOOLEAN /\ step' = "connect" /\ current' = 0
  BY DEF Mounted, Unmounted
<1>4. CheckoutTypeOK'
  <2>1. 0 \in 0..MaxOrders /\ "connect" \in Step
    BY CheckoutAssumption DEF Step
  <2>2. WalletTypeOK' /\ SessionTypeOK'
    BY DEF WalletInv, SessionInv
  <2>3. order' \in [Order -> OrderRecord]
    BY <1>1, <1>2
  <2> QED
    BY <1>3, <2>1, <2>2, <2>3 DEF CheckoutTypeOK, OrderInv
<1>5. LoadingShowsNobody' /\ Told'
  BY <1>3 DEF LoadingShowsNobody, Told, OrderInv, sessionVars
<1>6. \A n \in Order : Accountable(order[n])' /\ Attended(n)'
  BY <1>2 DEF Accountable, Attended
<1>7. InSession'
  BY <1>2 DEF InSession
<1> QED
  BY <1>2, <1>4, <1>5, <1>6, <1>7 DEF OrderInv, Faithful

\* The session changes: an order that is not sent yet keeps its payer only if that
\* is who the tab shows now.
LEMMA HandOverKeeps ==
  ASSUME OrderInv, SessionInv', WalletInv',
         UNCHANGED <<here, step, current>>, landing' \in BOOLEAN,
         changes' \in 0..MaxChanges,
         ~ready' => ~ready /\ UNCHANGED <<shown, signing>>,
         \/ order' = HandedOver /\ client' = shown' /\ ready' = ready
         \/ order' = order /\ (UNCHANGED <<client, shown, ready>> \/ ~ready)
  PROVE  OrderInv'
<1>1. order' = [n \in Order |-> order'[n]]
  BY DEF HandedOver, OrderInv, CheckoutTypeOK
<1>2. ASSUME NEW n \in Order
      PROVE  /\ order'[n] \in OrderRecord /\ Accountable(order'[n])
             /\ order'[n].live = order[n].live /\ order'[n].stage = order[n].stage
             /\ order'[n].jobs = order[n].jobs /\ order'[n].acked = order[n].acked
             /\ Faithful(order'[n], shown')
             /\ order'[n].stage \in {"paying", "settle"} => ready' /\ client' = shown'
  <2>1. CASE order' = HandedOver /\ client' = shown' /\ ready' = ready
    <3>1. order[n].stage \in {"paying", "settle"} => ready
      BY DEF OrderInv, InSession
    <3> QED
      BY <2>1, <3>1, HandedOverOrder
  <2>2. CASE order' = order /\ (UNCHANGED <<client, shown, ready>> \/ ~ready)
    BY <2>2 DEF Faithful, OrderInv, CheckoutTypeOK, InSession
  <2> QED
    BY <2>1, <2>2
<1>3. CheckoutTypeOK'
  <2>1. WalletTypeOK' /\ SessionTypeOK'
    BY DEF WalletInv, SessionInv
  <2>2. order' \in [Order -> OrderRecord]
    BY <1>1, <1>2
  <2> QED
    BY <2>1, <2>2 DEF CheckoutTypeOK, OrderInv
<1>4. LoadingShowsNobody'
  BY DEF LoadingShowsNobody, OrderInv
<1>5. Told'
  BY <1>2 DEF Told, OrderInv
<1>6. \A n \in Order : Accountable(order[n])' /\ Attended(n)'
  BY <1>2 DEF Accountable, Attended, OrderInv
<1>7. InSession'
  BY <1>2 DEF InSession
<1> QED
  BY <1>2, <1>3, <1>4, <1>5, <1>6, <1>7 DEF OrderInv, Faithful

LEMMA CheckoutSessionKeeps ==
  ASSUME OrderInv, SessionInv', WalletInv', SessionStep
  PROVE  OrderInv'
<1>0. /\ landing \in BOOLEAN /\ changes \in 0..MaxChanges /\ MaxChanges \in Nat
      /\ ~ready => signing = {}
      /\ ready \in BOOLEAN
  BY CheckoutAssumption
     DEF OrderInv, CheckoutTypeOK, SessionTypeOK, LoadingShowsNobody
<1>1. CASE Restored
  BY <1>0, <1>1, HandOverKeeps DEF Restored, Restore, checkoutVars
<1>2. CASE SignInAsDeveloper \/ SignOut
  BY <1>0, <1>2, HandOverKeeps DEF SignInAsDeveloper, SignOut, DevLogin, Logout, Assume, Pages
<1>3. CASE Land
  BY <1>3, PagesKeep DEF Land
<1>4. ASSUME NEW u \in User, SignIn(u) \/ SignInFailed(u) PROVE OrderInv'
  BY <1>0, <1>4, HandOverKeeps
     DEF SignIn, SignInFailed, GoogleLogin, LoginFailed, checkoutVars
<1>5. ASSUME NEW u \in User, SignedIn(u) PROVE OrderInv'
  BY <1>0, <1>5, HandOverKeeps DEF SignedIn, LoginAnswered, Assume, Pages
<1>6. ASSUME NEW u \in Anyone, OtherTab(u) PROVE OrderInv'
  <2>1. changes' \in 0..MaxChanges
    BY <1>0, <1>6 DEF OtherTab, Changed
  <2> QED
    BY <1>0, <1>6, <2>1, HandOverKeeps DEF OtherTab, Elsewhere, Pages
<1> QED
  BY <1>1, <1>2, <1>3, <1>4, <1>5, <1>6 DEF SessionStep

\* The page goes from one step to another that shows no result, while no chain
\* is waited for.
LEMMA StepKeeps ==
  ASSUME OrderInv, WalletInv',
         UNCHANGED <<sessionVars, here, order, current, landing>>,
         changes' \in 0..MaxChanges,
         step' \in Step,
         step' = step \/ (step # "processing" /\ step' \notin {"success", "error"})
  PROVE  OrderInv'
<1>1. CheckoutTypeOK' /\ SessionInv'
  BY DEF OrderInv, CheckoutTypeOK, WalletInv, SessionInv, SessionTypeOK, sessionVars,
         StoredPair, OwnToken
<1>2. LoadingShowsNobody' /\ Told'
  BY DEF OrderInv, LoadingShowsNobody, Told, sessionVars
<1>4. InSession'
  BY DEF OrderInv, InSession, sessionVars
<1>3. \A n \in Order : Accountable(order[n])' /\ Faithful(order[n], shown)' /\ Attended(n)'
  BY DEF OrderInv, Accountable, Faithful, Attended, sessionVars
<1> QED
  BY <1>1, <1>2, <1>3, <1>4 DEF OrderInv

\* One order moves on; step and result of the page follow.
LEMMA MoveKeeps ==
  ASSUME OrderInv, WalletInv', UNCHANGED <<sessionVars, here, landing, changes>>,
         NEW n \in Order, NEW o \in OrderRecord,
         order' = [order EXCEPT ![n] = o],
         Accountable(o), Faithful(o, shown),
         o.stage \in {"paying", "settle"} => ready /\ client = shown,
         order[n].stage # "ended",
         \/ /\ UNCHANGED <<current, step>>
            /\ o.live => order[n].live
         \/ /\ current' = current /\ order[n].live /\ ~o.live
            /\ \/ step' = "success" /\ o.stage = "ended" /\ o.jobs # <<>>
               \/ step' = "error" /\ o.stage = "ended" /\ ~o.acked
         \/ here /\ step # "processing" /\ step' = "processing" /\ current' = n
  PROVE  OrderInv'
<1>1. order \in [Order -> OrderRecord] /\ current \in 0..MaxOrders /\ step \in Step
  BY DEF OrderInv, CheckoutTypeOK
<1>2. order' \in [Order -> OrderRecord] /\ order'[n] = o
      /\ \A m \in Order \ {n} : order'[m] = order[m]
  BY <1>1
<1>3. current' \in 0..MaxOrders /\ step' \in Step
  BY <1>1, CheckoutAssumption DEF Step, Order
<1>4. CheckoutTypeOK' /\ SessionInv'
  BY <1>2, <1>3
     DEF OrderInv, CheckoutTypeOK, WalletInv, SessionInv, SessionTypeOK, sessionVars,
         StoredPair, OwnToken
<1>5. LoadingShowsNobody'
  BY DEF OrderInv, LoadingShowsNobody, sessionVars
<1>6. Told'
  BY <1>2 DEF OrderInv, Told, Attended
<1>7. ASSUME NEW m \in Order
      PROVE  Accountable(order'[m]) /\ Faithful(order'[m], shown') /\ Attended(m)'
  <2>1. CASE m = n
    BY <1>2, <2>1 DEF OrderInv, Attended, sessionVars
  <2>2. CASE m # n
    <3>1. order'[m] = order[m] /\ Accountable(order[m]) /\ Faithful(order[m], shown)
          /\ Attended(m)
      BY <1>2, <2>2 DEF OrderInv
    <3>2. ~(order[m].live /\ order[n].live)
      BY <2>2 DEF OrderInv, Attended
    <3>3. Attended(m)'
      BY <2>2, <3>1, <3>2 DEF Attended
    <3> QED
      BY <3>1, <3>3 DEF sessionVars
  <2> QED
    BY <2>1, <2>2
<1>8. InSession'
  BY <1>2 DEF OrderInv, InSession, sessionVars
<1> QED
  BY <1>4, <1>5, <1>6, <1>7, <1>8 DEF OrderInv, Accountable, Faithful

LEMMA CheckoutPageKeeps ==
  ASSUME OrderInv, SessionInv', WalletInv', PageStep
  PROVE  OrderInv'
<1>0. /\ landing \in BOOLEAN /\ changes \in 0..MaxChanges /\ step \in Step
      /\ MaxChanges \in Nat /\ ready \in BOOLEAN
  BY CheckoutAssumption DEF OrderInv, CheckoutTypeOK, SessionTypeOK
<1>1. CASE Open
  BY <1>1, PagesKeep DEF Open, Load
<1>2. CASE Enter \/ Leave
  BY <1>0, <1>2, PagesKeep DEF Enter, Leave
<1>3. CASE Ask
  BY <1>0, <1>3, StepKeeps DEF Ask, checkoutVars
<1>4. CASE WalletStep
  <2>1. step' = step \/ (step = "connect" /\ step' = "review")
    BY <1>4 DEF WalletStep, Advanced
  <2> QED
    BY <1>0, <1>4, <2>1, StepKeeps DEF WalletStep, Step
<1>5. CASE PurseStep
  <2>1. changes' \in 0..MaxChanges
    BY <1>0, <1>5 DEF PurseStep, Changed
  <2> QED
    BY <1>0, <1>5, <2>1, StepKeeps DEF PurseStep, Pages
<1>6. CASE Proceed \/ Back \/ Retry
  BY <1>0, <1>6, StepKeeps DEF Proceed, Back, Retry, ReviewShown, PaymentShown, ErrorShown, Step
<1>7. ASSUME NEW n \in Order, Confirm(n) PROVE OrderInv'
  <2>1. /\ here /\ step = "payment" /\ step' = "processing" /\ current' = n
        /\ order[n] = NoOrder /\ shown \in Anyone /\ ready /\ client = shown
        /\ order' = [order EXCEPT ![n].stage = "paying", ![n].payer = shown, ![n].live = TRUE]
        /\ UNCHANGED <<sessionVars, here, landing, changes>>
    BY <1>7 DEF Confirm, PaymentShown, Visible, OrderInv, CheckoutTypeOK,
                SessionTypeOK, SessionInv, OwnToken
  <2> DEFINE o == [NoOrder EXCEPT !.stage = "paying", !.payer = shown, !.live = TRUE]
  <2>2. order' = [order EXCEPT ![n] = o]
    BY <2>1 DEF OrderInv, CheckoutTypeOK
  <2>3. o \in OrderRecord /\ Accountable(o) /\ Faithful(o, shown)
    BY <2>1, NoOrderFits DEF OrderRecord, NoOrder, Stage, Running, Accountable, Faithful
  <2>4. order[n].stage = "none"
    BY <2>1 DEF NoOrder
  <2> HIDE DEF o
  <2> QED
    BY <2>1, <2>2, <2>3, <2>4, MoveKeeps
<1> QED
  BY <1>1, <1>2, <1>3, <1>4, <1>5, <1>6, <1>7 DEF PageStep

-----------------------------------------------------------------------------
(* The chain of an order                                                   *)

\* What the server's answer makes of an order that has been sent.
LEMMA AnswerMoves ==
  ASSUME OrderInv, NEW n \in Order,
         NEW stage \in {"created", "refused"}, NEW jobs \in Seq(Account),
         Answer(n, stage, jobs),
         Len(jobs) <= 1, stage = "created" => Len(jobs) = 1
  PROVE  \E o \in OrderRecord :
           /\ order' = [order EXCEPT ![n] = o]
           /\ Accountable(o) /\ Faithful(o, shown) /\ o.live = order[n].live
           /\ o.stage \in {"created", "refused", "ended"}
           /\ order[n].jobs = <<>> /\ o.jobs = jobs
<1>1. /\ order[n] \in OrderRecord /\ Accountable(order[n])
      /\ order[n].stage \in {"sent", "orphan"}
      /\ order \in [Order -> OrderRecord]
  BY DEF OrderInv, CheckoutTypeOK, Answer
<1>2. order[n].jobs = <<>> /\ ~order[n].acked
  BY <1>1 DEF Accountable, OrderRecord
<1>3. <<>> \o jobs = jobs /\ (Len(jobs) = 1 => jobs # <<>>)
  OBVIOUS
<1> DEFINE after == IF order[n].stage = "sent" THEN stage ELSE "ended"
           c == Closed(order[n], after)
           o == [c EXCEPT !.jobs = jobs]
<1>5. after \in Stage
  BY <1>1 DEF Stage, Running
<1> HIDE DEF after
<1>c. /\ c \in OrderRecord /\ c.stage = after /\ c.payer = Nobody /\ c.jobs = <<>>
      /\ c.acked = order[n].acked /\ c.live = order[n].live
  BY <1>1, <1>2, <1>5, ClosedOrder
<1>4. order' = [order EXCEPT ![n] = o]
  <2>1. order' = [order EXCEPT ![n] = [c EXCEPT !.jobs = @ \o jobs]]
    BY <1>1 DEF Answer, after
  <2>2. [c EXCEPT !.jobs = @ \o jobs] = o
    <3> HIDE DEF c
    <3> QED
      BY <1>c, <1>3
  <2> QED
    BY <2>1, <2>2
<1> HIDE DEF c
<1>6. /\ o \in OrderRecord /\ o.stage = after /\ o.payer = Nobody /\ o.jobs = jobs
      /\ o.acked = order[n].acked /\ o.live = order[n].live
  BY <1>c DEF OrderRecord
<1> HIDE DEF o
<1>7. Accountable(o) /\ Faithful(o, shown)
  BY <1>1, <1>2, <1>3, <1>6 DEF Accountable, Faithful, after
<1>8. o.stage \in {"created", "refused", "ended"}
  BY <1>6 DEF after
<1> QED
  BY <1>2, <1>4, <1>6, <1>7, <1>8

\* What the other steps of a chain make of it.
LEMMA ChainMoves ==
  ASSUME OrderInv, NEW n \in Order,
         Pay(n) \/ Create(n) \/ Acknowledged(n) \/ Finish(n) \/ Fail(n)
  PROVE  \E o \in OrderRecord :
           /\ order' = [order EXCEPT ![n] = o]
           /\ Accountable(o) /\ Faithful(o, shown)
           /\ o.jobs = order[n].jobs
           /\ order[n].stage \in {"paying", "settle", "created", "finish", "refused"}
           /\ o.stage \in {"settle", "sent", "finish", "ended"}
           /\ o.stage = "settle" <=> order[n].stage = "paying"
           /\ \/ step' = step /\ (o.live => order[n].live)
              \/ /\ order[n].live /\ ~o.live
                 /\ \/ step' = "success" /\ o.stage = "ended" /\ o.jobs # <<>>
                    \/ step' = "error" /\ o.stage = "ended" /\ ~o.acked
<1>1. /\ order[n] \in OrderRecord /\ Accountable(order[n]) /\ Faithful(order[n], shown)
      /\ order \in [Order -> OrderRecord] /\ client \in Anyone
      /\ order[n].stage \in {"paying", "settle"} => client = shown
  BY DEF OrderInv, CheckoutTypeOK, SessionTypeOK, InSession
<1> USE DEF OrderRecord, Accountable, Faithful, Stage, Running
<1>2. CASE Pay(n)
  <2> DEFINE o == [order[n] EXCEPT !.stage = "settle"]
  <2>1. order' = [order EXCEPT ![n] = o] /\ step' = step
    BY <1>1, <1>2 DEF Pay
  <2>2. o \in OrderRecord /\ Accountable(o) /\ Faithful(o, shown)
    BY <1>1, <1>2 DEF Pay
  <2> QED
    BY <1>1, <1>2, <2>1, <2>2 DEF Pay
<1>3. CASE Create(n)
  <2> DEFINE o == [order[n] EXCEPT !.stage = "sent", !.token = client, !.as = shown]
  <2>1. order' = [order EXCEPT ![n] = o] /\ step' = step
    BY <1>1, <1>3 DEF Create
  <2>2. o \in OrderRecord /\ Accountable(o) /\ Faithful(o, shown)
    BY <1>1, <1>3 DEF Create
  <2> QED
    BY <1>1, <1>3, <2>1, <2>2 DEF Create
<1>4. CASE Acknowledged(n)
  <2> DEFINE o == [order[n] EXCEPT !.stage = "finish", !.acked = TRUE]
  <2>1. order' = [order EXCEPT ![n] = o] /\ step' = step
    BY <1>1, <1>4 DEF Acknowledged
  <2>2. o \in OrderRecord /\ Accountable(o) /\ Faithful(o, shown)
    BY <1>1, <1>4 DEF Acknowledged
  <2> QED
    BY <1>1, <1>4, <2>1, <2>2 DEF Acknowledged
<1>5. CASE Finish(n)
  <2> DEFINE o == [order[n] EXCEPT !.stage = "ended", !.live = FALSE]
  <2>1. order' = [order EXCEPT ![n] = o]
        /\ step' = IF order[n].live THEN "success" ELSE step
    BY <1>1, <1>5 DEF Finish, EndWith
  <2>2. o \in OrderRecord /\ Accountable(o) /\ Faithful(o, shown)
    BY <1>1, <1>5 DEF Finish
  <2> QED
    BY <1>1, <1>5, <2>1, <2>2 DEF Finish
<1>6. CASE Fail(n)
  <2> DEFINE o == [order[n] EXCEPT !.stage = "ended", !.live = FALSE]
  <2>1. order' = [order EXCEPT ![n] = o]
        /\ step' = IF order[n].live THEN "error" ELSE step
    BY <1>1, <1>6 DEF Fail, EndWith
  <2>2. o \in OrderRecord /\ Accountable(o) /\ Faithful(o, shown)
    BY <1>1, <1>6 DEF Fail
  <2> QED
    BY <1>1, <1>6, <2>1, <2>2 DEF Fail
<1> QED
  BY <1>2, <1>3, <1>4, <1>5, <1>6

\* The server deals with a request: whom it books a job for, if it does.
LEMMA ServerAnswers ==
  ASSUME NEW n \in Order, OrderInv,
         Book(n) \/ Refuse(n) \/ LoseAnswer(n)
  PROVE  \E stage \in {"created", "refused"}, jobs \in Seq(Account) :
           /\ Answer(n, stage, jobs)
           /\ Len(jobs) <= 1 /\ (stage = "created" => Len(jobs) = 1)
           /\ jobs # <<>> => jobs = <<Caller[order[n].token]>>
<1>1. order[n].token \in Anyone
  BY DEF OrderInv, CheckoutTypeOK, OrderRecord
<1>2. Caller[order[n].token] # Rejected => Caller[order[n].token] \in Account
  BY <1>1, CheckoutAssumption
<1>3. CASE Refuse(n)
  <2>1. <<>> \in Seq(Account) /\ Len(<<>>) = 0
    OBVIOUS
  <2>2. Answer(n, "refused", <<>>)
    BY <1>3 DEF Refuse
  <2> WITNESS "refused" \in {"created", "refused"}, <<>> \in Seq(Account)
  <2> QED
    BY <2>1, <2>2
<1>4. CASE Book(n) \/ LoseAnswer(n)
  <2> DEFINE c == Caller[order[n].token]
  <2>1. c \in Account
    BY <1>2, <1>4 DEF Book, LoseAnswer
  <2>2. \E stage \in {"created", "refused"} : Answer(n, stage, <<c>>)
    BY <1>4 DEF Book, LoseAnswer
  <2> HIDE DEF c
  <2>3. <<c>> \in Seq(Account) /\ Len(<<c>>) = 1
    BY <2>1
  <2>4. c = Caller[order[n].token]
    BY DEF c
  <2> QED
    BY <2>2, <2>3, <2>4
<1> QED
  BY <1>3, <1>4

LEMMA OrderStepKeeps ==
  ASSUME OrderInv, WalletInv', NEW n \in Order, OrderStep(n)
  PROVE  OrderInv'
<1>1. CASE ChainStep(n)
  <2>1. UNCHANGED <<sessionVars, here, landing, changes, current>>
    BY <1>1 DEF ChainStep, Pay, Create, Acknowledged, Finish, Fail, EndWith, Untouched
  <2> QED
    BY <1>1, <2>1, ChainMoves, MoveKeeps DEF ChainStep, OrderInv, InSession
<1>2. CASE Book(n) \/ Refuse(n) \/ LoseAnswer(n)
  <2>1. PICK stage \in {"created", "refused"}, jobs \in Seq(Account) :
           /\ Answer(n, stage, jobs)
           /\ Len(jobs) <= 1 /\ (stage = "created" => Len(jobs) = 1)
    BY <1>2, ServerAnswers
  <2>2. UNCHANGED <<sessionVars, here, landing, changes, current, step>>
        /\ order[n].stage \in {"sent", "orphan"}
    BY <2>1 DEF Answer, Untouched
  <2> QED
    BY <2>1, <2>2, AnswerMoves, MoveKeeps
<1> QED
  BY <1>1, <1>2 DEF OrderStep

LEMMA OrdersKept == OrderInv /\ WalletInv /\ [Next]_vars => OrderInv'
<1> SUFFICES ASSUME OrderInv, WalletInv, [Next]_vars PROVE OrderInv'
    OBVIOUS
<1>0. SessionInv' /\ WalletInv'
  BY CheckoutMoves, SessionKept, WalletKept DEF OrderInv
<1>1. CASE SessionStep
  BY <1>0, <1>1, CheckoutSessionKeeps
<1>2. CASE PageStep
  BY <1>0, <1>2, CheckoutPageKeeps
<1>3. ASSUME NEW n \in Order, OrderStep(n) PROVE OrderInv'
  BY <1>0, <1>3, OrderStepKeeps
<1>4. CASE UNCHANGED vars
  <2>1. changes \in 0..MaxChanges /\ step \in Step
    BY DEF OrderInv, CheckoutTypeOK
  <2> QED
    BY <1>0, <1>4, <2>1, StepKeeps DEF vars, checkoutVars
<1> QED
  BY <1>1, <1>2, <1>3, <1>4 DEF Next

LEMMA CheckoutHolds == Spec => [](OrderInv /\ WalletInv)
<1>1. Init => OrderInv /\ WalletInv
  BY OrdersStart, WalletStarts
<1>2. OrderInv /\ WalletInv /\ [Next]_vars => (OrderInv /\ WalletInv)'
  BY OrdersKept, WalletKept
<1> QED
  BY <1>1, <1>2, PTL DEF Spec

\* Every variable of the checkout has its type, for any users, wallets and bounds.
THEOREM CheckoutTypes == Spec => []CheckoutTypeOK
<1>1. OrderInv => CheckoutTypeOK
  BY DEF OrderInv
<1> QED
  BY <1>1, CheckoutHolds, PTL

\* After success there is a job; after an error no answer has said that there
\* is one.
THEOREM ResultsAreTrue == Spec => []ResultIsTrue
<1>1. OrderInv => ResultIsTrue
  <2> SUFFICES ASSUME OrderInv PROVE ResultIsTrue
      OBVIOUS
  <2>1. \A n \in Order : Accountable(order[n]) /\ n # 0
    BY CheckoutAssumption DEF OrderInv, Order
  <2>2. Told /\ current \in 0..MaxOrders
    BY DEF OrderInv, CheckoutTypeOK
  <2>3. \A n \in Order : order[n].acked \in BOOLEAN
    BY DEF OrderInv, CheckoutTypeOK, OrderRecord
  <2> QED
    BY <2>1, <2>2, <2>3 DEF ResultIsTrue, SuccessShown, ErrorShown, Told, Accountable
<1> QED
  BY <1>1, CheckoutHolds, PTL

-----------------------------------------------------------------------------
(* What a step does to the orders, and the promise of Sale                 *)

Unpaid == {"none", "paying", "dropped"}

\* No order is paid or delivered.
NothingSold ==
  \A n \in Order :
    /\ order'[n].stage \in Unpaid <=> order[n].stage \in Unpaid
    /\ order'[n].jobs = order[n].jobs

\* One order is, and nothing else: it is paid, or delivered to the user it was sent
\* as, who has paid it if it still has a payer.
Sells(n) ==
  /\ \A m \in Order \ {n} : order'[m] = order[m]
  /\ \/ /\ order[n].stage \in Unpaid /\ order'[n].stage \notin Unpaid
        /\ order'[n].jobs = order[n].jobs
     \/ /\ order[n].stage \notin Unpaid /\ order'[n].stage \notin Unpaid
        /\ order[n].jobs = <<>>
        /\ order[n].payer \in {Nobody, order[n].as}
        /\ \E c \in Account :
             /\ order'[n].jobs = <<c>>
             /\ c = Caller[order[n].as]

\* Every step of the page sells nothing or one order.
LEMMA StepSells ==
  ASSUME OrderInv, [Next]_vars
  PROVE  NothingSold \/ \E n \in Order : Sells(n)
<1>0. order \in [Order -> OrderRecord]
  BY DEF OrderInv, CheckoutTypeOK
<1>1. ASSUME order' \in {order, Abandoned, HandedOver} PROVE NothingSold
  BY <1>0, <1>1 DEF NothingSold, Abandoned, HandedOver, OrderRecord
<1>2. ASSUME order' = Killed PROVE NothingSold
  <2> SUFFICES ASSUME NEW n \in Order
               PROVE  /\ Killed[n].stage \in Unpaid <=> order[n].stage \in Unpaid
                      /\ Killed[n].jobs = order[n].jobs
    BY <1>2 DEF NothingSold
  <2> DEFINE o == [order[n] EXCEPT !.live = FALSE]
  <2>1. o \in OrderRecord /\ o.stage = order[n].stage /\ o.jobs = order[n].jobs
    BY <1>0 DEF OrderRecord
  <2>2. Killed[n] = CASE o.stage = "sent" -> [o EXCEPT !.stage = "orphan"]
                    [] o.stage = "paying" -> Closed(o, "dropped")
                    [] o.stage \in Running \ {"paying", "sent"} -> Closed(o, "ended")
                    [] OTHER -> o
    BY DEF Killed
  <2>0. "dropped" \in Stage /\ "ended" \in Stage
    BY DEF Stage
  <2> HIDE DEF o
  <2>3. CASE o.stage = "sent"
    <3>1. Killed[n] = [o EXCEPT !.stage = "orphan"]
      BY <2>2, <2>3 DEF Running
    <3> QED
      BY <2>1, <2>3, <3>1 DEF OrderRecord, Unpaid
  <2>4. CASE o.stage = "paying"
    <3>1. Killed[n] = Closed(o, "dropped")
      BY <2>2, <2>4 DEF Running
    <3> QED
      BY <2>0, <2>1, <2>4, <3>1, ClosedOrder DEF Unpaid
  <2>5. CASE o.stage \in Running \ {"paying", "sent"}
    <3>1. Killed[n] = Closed(o, "ended")
      BY <2>2, <2>5 DEF Running
    <3> QED
      BY <2>0, <2>1, <2>5, <3>1, ClosedOrder DEF Unpaid, Running
  <2>6. CASE o.stage \notin Running
    <3>1. Killed[n] = o
      BY <2>2, <2>6 DEF Running
    <3> QED
      BY <2>1, <3>1
  <2> QED
    BY <2>3, <2>4, <2>5, <2>6
<1>3. CASE SessionStep
  <2>1. order' \in {order, Abandoned, HandedOver}
    BY <1>3 DEF SessionStep, Restored, SignInAsDeveloper, SignOut, Land, SignIn,
                SignedIn, SignInFailed, OtherTab, Pages, checkoutVars
  <2> QED
    BY <1>1, <2>1
<1>4. CASE PageStep
  <2>1. CASE Open
    BY <1>2, <2>1 DEF Open
  <2>2. CASE Enter \/ Leave \/ Ask \/ WalletStep \/ PurseStep \/ Proceed \/ Back \/ Retry
    <3>1. order' \in {order, Abandoned}
      BY <2>2 DEF Enter, Leave, Ask, WalletStep, PurseStep, Proceed, Back, Retry,
                  checkoutVars
    <3> QED
      BY <1>1, <3>1
  <2>3. ASSUME NEW n \in Order, Confirm(n) PROVE NothingSold
    <3>1. order[n].stage = "none"
      BY <2>3 DEF Confirm, NoOrder
    <3>2. /\ order'[n].stage = "paying" /\ order'[n].jobs = order[n].jobs
          /\ \A m \in Order \ {n} : order'[m] = order[m]
      BY <1>0, <2>3 DEF Confirm, OrderRecord
    <3> QED
      BY <3>1, <3>2 DEF NothingSold, Unpaid
  <2> QED
    BY <1>4, <2>1, <2>2, <2>3 DEF PageStep
<1>5. ASSUME NEW n \in Order, ChainStep(n) PROVE NothingSold \/ Sells(n)
  <2>1. PICK o \in OrderRecord :
          /\ order' = [order EXCEPT ![n] = o]
          /\ o.jobs = order[n].jobs
          /\ order[n].stage \in {"paying", "settle", "created", "finish", "refused"}
          /\ o.stage \in {"settle", "sent", "finish", "ended"}
          /\ o.stage = "settle" <=> order[n].stage = "paying"
    BY <1>5, ChainMoves DEF ChainStep
  <2>2. order'[n] = o /\ \A m \in Order \ {n} : order'[m] = order[m]
    BY <1>0, <2>1
  <2>3. CASE order[n].stage = "paying"
    BY <2>1, <2>2, <2>3 DEF Sells, Unpaid
  <2>4. CASE order[n].stage # "paying"
    BY <2>1, <2>2, <2>4 DEF NothingSold, Unpaid
  <2> QED
    BY <2>3, <2>4
<1>6. ASSUME NEW n \in Order, Book(n) \/ Refuse(n) \/ LoseAnswer(n)
      PROVE  NothingSold \/ Sells(n)
  <2>1. PICK stage \in {"created", "refused"}, jobs \in Seq(Account) :
           /\ Answer(n, stage, jobs)
           /\ Len(jobs) <= 1 /\ (stage = "created" => Len(jobs) = 1)
           /\ jobs # <<>> => jobs = <<Caller[order[n].token]>>
    BY <1>6, ServerAnswers
  <2>2. PICK o \in OrderRecord :
           /\ order' = [order EXCEPT ![n] = o]
           /\ o.stage \in {"created", "refused", "ended"}
           /\ order[n].jobs = <<>> /\ o.jobs = jobs
    BY <2>1, AnswerMoves
  <2>3. order'[n] = o /\ \A m \in Order \ {n} : order'[m] = order[m]
    BY <1>0, <2>2
  <2>4. order[n].stage \in {"sent", "orphan"} /\ Faithful(order[n], shown)
    BY <2>1 DEF Answer, OrderInv
  <2>5. CASE jobs = <<>>
    BY <2>2, <2>3, <2>4, <2>5 DEF NothingSold, Unpaid
  <2>6. CASE jobs # <<>>
    <3> DEFINE c == Caller[order[n].token]
    <3>1. jobs = <<c>>
      BY <2>1, <2>6
    <3>2. c \in Account
      BY <3>1
    <3>3. c = Caller[order[n].as] /\ order[n].payer \in {Nobody, order[n].as}
      BY <2>4 DEF Faithful
    <3> HIDE DEF c
    <3> QED
      BY <2>2, <2>3, <2>4, <3>1, <3>2, <3>3 DEF Sells, Unpaid
  <2> QED
    BY <2>5, <2>6
<1>7. CASE UNCHANGED vars
  BY <1>1, <1>7 DEF vars, checkoutVars
<1> QED
  BY <1>3, <1>4, <1>5, <1>6, <1>7 DEF Next, OrderStep

\* A job is booked for the user the tab showed when the request went out, and for
\* the one who confirmed if the tab had nobody else in between, for any number of
\* users, orders and changes in other tabs.
THEOREM ShownUserGetsTheJob == Spec => BookedForShown
<1>1. OrderInv /\ [Next]_vars =>
        [\A n \in Order :
           order'[n].jobs # order[n].jobs
             => /\ order'[n].jobs = Append(order[n].jobs, Caller[order[n].as])
                /\ order[n].payer \in {Nobody, order[n].as}]_vars
  <2> SUFFICES ASSUME OrderInv, [Next]_vars, NEW n \in Order,
                      order'[n].jobs # order[n].jobs
               PROVE  /\ order'[n].jobs = Append(order[n].jobs, Caller[order[n].as])
                      /\ order[n].payer \in {Nobody, order[n].as}
    OBVIOUS
  <2>1. Sells(n)
    BY StepSells DEF NothingSold, Sells
  <2>2. PICK c \in Account : order'[n].jobs = <<c>> /\ c = Caller[order[n].as]
    BY <2>1 DEF Sells
  <2>3. order[n].jobs = <<>> /\ order[n].payer \in {Nobody, order[n].as}
    BY <2>1 DEF Sells
  <2>4. Append(<<>>, c) = <<c>>
    OBVIOUS
  <2> QED
    BY <2>2, <2>3, <2>4
<1> QED
  BY <1>1, CheckoutHolds, PTL DEF Spec, BookedForShown

LEMMA SalesMove ==
  ASSUME OrderInv, [Next]_vars
  PROVE  [S!Next]_<<PaidOrders, Deliveries>>
<1>0. PaidOrders = {n \in Order : order[n].stage \notin Unpaid}
      /\ PaidOrders' = {n \in Order : order'[n].stage \notin Unpaid}
  BY DEF PaidOrders, Unpaid
<1>1. CASE NothingSold
  <2>1. PaidOrders' = PaidOrders
    BY <1>0, <1>1 DEF NothingSold
  <2>2. Deliveries' = Deliveries
    BY <1>1 DEF NothingSold, Deliveries
  <2> QED
    BY <2>1, <2>2
<1>2. ASSUME NEW n \in Order, Sells(n) PROVE S!Next
  <2>1. CASE order[n].stage \in Unpaid
    <3>1. order'[n].stage \notin Unpaid /\ order'[n].jobs = order[n].jobs
          /\ \A m \in Order \ {n} : order'[m] = order[m]
      BY <1>2, <2>1 DEF Sells
    <3>2. n \notin PaidOrders /\ PaidOrders' = PaidOrders \cup {n}
      BY <1>0, <2>1, <3>1
    <3>3. Deliveries' = Deliveries
      BY <3>1 DEF Deliveries
    <3> QED
      BY <3>2, <3>3 DEF S!Next, S!Pay
  <2>2. CASE order[n].stage \notin Unpaid
    <3>1. PICK c \in Account :
            /\ order'[n].stage \notin Unpaid /\ order[n].jobs = <<>>
            /\ order'[n].jobs = <<c>>
            /\ \A m \in Order \ {n} : order'[m] = order[m]
      BY <1>2, <2>2 DEF Sells
    <3>2. n \in PaidOrders /\ PaidOrders' = PaidOrders
      BY <1>0, <2>2, <3>1
    <3>3. Len(<<>>) = 0 /\ Len(<<c>>) = 1
      OBVIOUS
    <3>4. Deliveries[n] = 0 /\ Deliveries' = [Deliveries EXCEPT ![n] = 1]
      BY <3>1, <3>3 DEF Deliveries
    <3> QED
      BY <3>2, <3>4 DEF S!Next, S!Deliver
  <2> QED
    BY <2>1, <2>2
<1> QED
  BY <1>1, <1>2, StepSells

\* The page keeps the promise of Sale, for any number of orders: none is
\* delivered that has not been paid, and none twice.
THEOREM CheckoutIsSale == Spec => RefinesSale
<1>1. Init => S!Init
  <2> SUFFICES ASSUME Init PROVE S!Init
      OBVIOUS
  <2>1. \A n \in Order : order[n].stage = "none" /\ Len(order[n].jobs) = 0
    BY DEF Init, CheckoutInit, NoOrder
  <2> QED
    BY <2>1 DEF S!Init, PaidOrders, Deliveries
<1>2. OrderInv /\ [Next]_vars => [S!Next]_<<PaidOrders, Deliveries>>
  BY SalesMove
<1> QED
  BY <1>1, <1>2, CheckoutHolds, PTL DEF Spec, RefinesSale, S!Spec
=============================================================================
