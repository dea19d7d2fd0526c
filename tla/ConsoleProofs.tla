---------------------------- MODULE ConsoleProofs ----------------------------
(***************************************************************************)
(* What holds of the console for any users, jobs, providers and bounds:    *)
(* a user's requests carry his token, his list holds his jobs, and no      *)
(* spinner runs without a request that will end it.                        *)
(***************************************************************************)
EXTENDS Console, SessionProofs

-----------------------------------------------------------------------------
(* The session                                                             *)

\* Every step of the console does with the session what a tab can do with it.
LEMMA ConsoleMoves == [Next]_vars => SessionMove
<1> SUFFICES ASSUME [Next]_vars PROVE SessionMove
    OBVIOUS
<1> USE DEF SessionMove
<1>1. CASE SessionStep
  BY <1>1 DEF SessionStep, Restored, SignInAsDeveloper, SignOut, Land, SignIn,
              SignedIn, SignInFailed, sessionVars
<1>2. CASE PageStep
  BY <1>2 DEF PageStep, Open, Go, SendToLogin, SendToDashboard, SelectType,
              SetCount, Fill, RentNow, RetryOffers, Delete, Submit, sessionVars
<1>3. CASE NetworkStep
  BY <1>3 DEF NetworkStep, PollJobs, PollFree, ServeRead, ServeDelete, Fail,
              Arrive, ReceiveJobs, ReceiveDeleted, ReceiveProviders,
              ReceiveFree, ReceiveOffers, sessionVars
<1>4. CASE WorldStep
  BY <1>4 DEF WorldStep, End, Rent, Move, sessionVars
<1>5. CASE \E u \in Anyone : (Anytime \/ ~ready) /\ Elsewhere(u) /\ UNCHANGED consoleVars
  BY <1>5
<1>6. CASE UNCHANGED vars
  BY <1>6 DEF vars
<1> QED
  BY <1>1, <1>2, <1>3, <1>4, <1>5, <1>6 DEF Next

\* A tab that shows a user sends that user's token: for any number of users,
\* logins under way and other tabs.
THEOREM TokenIsOwn == Spec => []OwnToken
<1>1. Init => SessionInv
  BY SessionStarts DEF Init
<1>2. SessionInv /\ [Next]_vars => SessionInv'
  BY ConsoleMoves, SessionKept
<1>3. SessionInv => OwnToken
  BY DEF SessionInv
<1> QED
  BY <1>1, <1>2, <1>3, PTL DEF Spec

-----------------------------------------------------------------------------
(* What the operators on requests and views return                         *)

\* A request as it is sent.
LEMMA AskIsRequest ==
  ASSUME NEW kind \in Reads \cup {"delete"}, NEW job \in SUBSET Job,
         NEW token \in Anyone
  PROVE  LET r == Ask(kind, job, token)
         IN  /\ r \in Request
             /\ r.kind = kind /\ r.token = token /\ r.state = "sent" /\ r.live
BY DEF Ask, Request, Unknown, Level

\* An empty form.
LEMMA BlankIsView == Blank \in View
<1>1. 1 \in 1..MaxCount
  BY ConsoleAssumption
<1> QED
  BY <1>1 DEF Blank, View, Unknown, Level

LEMMA FreshView ==
  ASSUME NEW b \in BOOLEAN, NEW l \in BOOLEAN
  PROVE  LET v == [Blank EXCEPT !.busy = b, !.loading = l]
         IN  v \in View /\ v.list = {} /\ v.busy = b /\ v.loading = l
<1>1. 1 \in 1..MaxCount
  BY ConsoleAssumption
<1> QED
  BY <1>1 DEF Blank, View, Unknown, Level

\* A request that is not called back any more.
LEMMA DeafRequest ==
  ASSUME NEW r \in Request
  PROVE  [r EXCEPT !.live = FALSE] \in Request /\ ~[r EXCEPT !.live = FALSE].live
BY DEF Request

\* A page that has just been mounted: no list, and no request for one but its
\* own, made with the token given if there is a user; a spinner only with a request.
LEMMA EnterMounts ==
  ASSUME NEW p \in Page, NEW token \in Anyone, NEW user \in Anyone,
         flights \subseteq Request, Enter(p, token, user)
  PROVE  /\ page' \in Page /\ view' \in View /\ flights' \subseteq Request
         /\ view'.list = {}
         /\ \A r \in flights' : r.live /\ r.kind \in {"list", "delete"} =>
              /\ r.kind = "list" /\ r.state = "sent"
              /\ r.token = token /\ user # Nobody
         /\ view'.busy => \E r \in flights' : r.kind = "list" /\ r.live
         /\ view'.loading =>
              \E r \in flights' : r.kind \in {"providers", "offers"} /\ r.live
<1> DEFINE lists == MountJobs(p, token, user)
           looks == MountProviders(p)
           offers == MountDeploy(p)
<1>1. lists \subseteq Request
      /\ \A r \in lists : r.live /\ r.kind = "list" /\ r.state = "sent"
                          /\ r.token = token /\ user # Nobody
  BY AskIsRequest DEF MountJobs, Reads
<1>2. looks \subseteq Request
      /\ (\A r \in looks : r.kind \in {"providers", "free"})
      /\ (p = "create" => \E r \in looks : r.kind = "providers" /\ r.live)
  <2>1. Nobody \in Anyone
    BY DEF Anyone
  <2> QED
    BY <2>1, AskIsRequest DEF MountProviders, Reads
<1>3. offers \subseteq Request
      /\ (\A r \in offers : r.kind = "offers")
      /\ (p = "deploy" => \E r \in offers : r.kind = "offers" /\ r.live)
  <2>1. Nobody \in Anyone
    BY DEF Anyone
  <2> QED
    BY <2>1, AskIsRequest DEF MountDeploy, Reads
<1>4. Left \subseteq Request /\ \A r \in Left : ~r.live
  <2>1. Waiting("delete") \subseteq Request
    BY DEF Waiting, Of
  <2> QED
    BY <2>1, DeafRequest DEF Left
<1>5. /\ page' = p
      /\ flights' = Left \cup lists \cup looks \cup offers
      /\ view' = [Blank EXCEPT !.busy = lists # {}, !.loading = p \in {"create", "deploy"}]
  BY DEF Enter
<1>6. /\ view' \in View /\ view'.list = {}
      /\ view'.busy = (lists # {})
      /\ view'.loading = (p \in {"create", "deploy"})
  <2> DEFINE b == lists # {}
             l == p \in {"create", "deploy"}
  <2>1. b \in BOOLEAN /\ l \in BOOLEAN
    OBVIOUS
  <2>2. view' = [Blank EXCEPT !.busy = b, !.loading = l]
    BY <1>5
  <2>3. view' \in View /\ view'.list = {} /\ view'.busy = b /\ view'.loading = l
    <3> HIDE DEF b, l
    <3> QED
      BY <2>1, <2>2, FreshView
  <2> QED
    BY <2>3
<1>7. \A r \in flights' : r.live /\ r.kind \in {"list", "delete"} => r \in lists
  BY <1>2, <1>3, <1>4, <1>5
<1>8. view'.busy => \E r \in flights' : r.kind = "list" /\ r.live
  BY <1>1, <1>5, <1>6
<1>9. view'.loading =>
        \E r \in flights' : r.kind \in {"providers", "offers"} /\ r.live
  BY <1>2, <1>3, <1>5, <1>6
<1> QED
  BY <1>1, <1>2, <1>3, <1>4, <1>5, <1>6, <1>7, <1>8, <1>9

-----------------------------------------------------------------------------
(* The invariant                                                           *)

\* A tab that has not looked at the storage shows nobody anything.
LoadingShowsNothing ==
  ~ready =>
    /\ shown = Nobody /\ signing = {} /\ ~landing
    /\ view.list = {}
    /\ Of("list") = {} /\ Of("delete") = {}

\* The requests for the list are those of the user shown, and so are the answers.
OwnAnswers ==
  shown # Nobody /\ ~landing =>
    \A r \in Of("list") :
      /\ r.state = "sent" => r.token = shown
      /\ r.state = "ok" => \A j \in r.jobs : owner[j] = Caller[shown]

ConsoleInv ==
  /\ ConsoleTypeOK /\ SessionInv
  /\ LoadingShowsNothing /\ OwnAnswers /\ OwnJobsOnly /\ SpinnerStops

LEMMA ConsoleStarts == Init => ConsoleInv
<1> SUFFICES ASSUME Init PROVE ConsoleInv
    OBVIOUS
<1>1. SessionInv
  BY SessionStarts DEF Init
<1>2. view \in View /\ view.list = {} /\ ~view.busy /\ ~view.loading
  BY BlankIsView DEF Init, ConsoleInit, Blank
<1>3. Of("list") = {} /\ Of("delete") = {}
  BY DEF Init, ConsoleInit, Of
<1>4. ConsoleTypeOK
  <2>1. free \in [Provider -> Level] /\ owner \in [Job -> Account \cup {Nobody}]
    BY DEF Init, ConsoleInit
  <2>2. faults \in 0..MaxFaults
    BY ConsoleAssumption DEF Init, ConsoleInit
  <2>3. page \in Page /\ flights \subseteq Request /\ landing \in BOOLEAN
        /\ alive \subseteq {j \in Job : owner[j] # Nobody}
    BY DEF Init, ConsoleInit, Page
  <2> QED
    BY <1>1, <1>2, <2>1, <2>2, <2>3 DEF ConsoleTypeOK, SessionInv
<1>5. shown = Nobody /\ signing = {} /\ ~landing
  BY DEF Init, SessionInit, ConsoleInit
<1> QED
  BY <1>1, <1>2, <1>3, <1>4, <1>5
     DEF ConsoleInv, LoadingShowsNothing, OwnAnswers, OwnJobsOnly, SpinnerStops

\* A page that is entered as the user shown, with the token of the tab.
LEMMA EnterKeeps ==
  ASSUME ConsoleInv, SessionInv',
         NEW p \in Page, NEW token \in Anyone, NEW user \in Anyone,
         Enter(p, token, user),
         token = client', user = shown',
         landing' \in BOOLEAN, UNCHANGED World,
         ~ready' => shown' = Nobody /\ signing' = {} /\ ~landing'
  PROVE  ConsoleInv'
<1>1. flights \subseteq Request
  BY DEF ConsoleInv, ConsoleTypeOK
<1>2. /\ page' \in Page /\ view' \in View /\ flights' \subseteq Request
      /\ view'.list = {}
      /\ \A r \in flights' : r.live /\ r.kind \in {"list", "delete"} =>
           /\ r.kind = "list" /\ r.state = "sent"
           /\ r.token = token /\ user # Nobody
      /\ view'.busy => \E r \in flights' : r.kind = "list" /\ r.live
      /\ view'.loading =>
           \E r \in flights' : r.kind \in {"providers", "offers"} /\ r.live
  BY <1>1, EnterMounts
<1>3. ConsoleTypeOK'
  BY <1>2 DEF ConsoleInv, ConsoleTypeOK, SessionInv, World
<1>4. shown' # Nobody => client' = shown'
  BY DEF SessionInv, OwnToken
<1>5. LoadingShowsNothing'
  BY <1>2 DEF LoadingShowsNothing, Of
<1>6. OwnAnswers'
  BY <1>2, <1>4 DEF OwnAnswers, Of
<1>7. OwnJobsOnly'
  BY <1>2 DEF OwnJobsOnly
<1>8. SpinnerStops'
  <2>1. view'.busy => (Of("list") \cup Of("delete"))' # {}
    BY <1>2 DEF Of
  <2>2. view'.loading => (Of("providers") \cup Of("offers"))' # {}
    BY <1>2 DEF Of
  <2> QED
    BY <2>1, <2>2 DEF SpinnerStops
<1> QED
  BY <1>3, <1>5, <1>6, <1>7, <1>8 DEF ConsoleInv

LEMMA PageKeeps ==
  ASSUME ConsoleInv, SessionInv',
         \/ \E p \in Page : Open(p) \/ Go(p)
         \/ SendToLogin \/ SendToDashboard \/ Submit \/ Land \/ SignInAsDeveloper
         \/ RetryOffers \/ \E p \in Provider : RentNow(p)
  PROVE  ConsoleInv'
<1> USE DEF Page
<1>0. /\ landing \in BOOLEAN
      /\ client \in Anyone /\ shown \in Anyone /\ stored.token \in Anyone
      /\ Nobody \in Anyone /\ DevUser \in Anyone
      /\ ~ready => shown = Nobody /\ signing = {} /\ ~landing
  BY SessionAssumption
     DEF ConsoleInv, ConsoleTypeOK, SessionTypeOK, LoadingShowsNothing, Anyone
<1>1. ASSUME NEW p \in Page, Open(p) PROVE ConsoleInv'
  BY <1>0, <1>1, EnterKeeps DEF Open, Load
<1>2. ASSUME NEW p \in Page, Go(p) PROVE ConsoleInv'
  BY <1>0, <1>2, EnterKeeps DEF Go, sessionVars
<1>3. CASE SendToLogin
  BY <1>0, <1>3, EnterKeeps DEF SendToLogin, sessionVars
<1>4. CASE SendToDashboard
  BY <1>0, <1>4, EnterKeeps DEF SendToDashboard, sessionVars
<1>5. CASE Submit
  BY <1>0, <1>5, EnterKeeps DEF Submit, sessionVars
<1>6. CASE Land
  BY <1>0, <1>6, EnterKeeps DEF Land, sessionVars
<1>7. CASE SignInAsDeveloper
  BY <1>0, <1>7, EnterKeeps DEF SignInAsDeveloper, DevLogin, Assume
<1>8. ASSUME NEW p \in Provider, RentNow(p) PROVE ConsoleInv'
  BY <1>1, <1>8 DEF RentNow
<1>9. CASE RetryOffers
  BY <1>1, <1>9 DEF RetryOffers
<1> QED
  BY <1>1, <1>2, <1>3, <1>4, <1>5, <1>6, <1>7, <1>8, <1>9

\* A step that leaves pages, requests and the world alone, and shows nobody, the
\* same user, or a user who has come to a page without a list.
LEMMA QuietKeeps ==
  ASSUME ConsoleInv, SessionInv',
         UNCHANGED <<page, view, flights, World>>,
         landing' \in BOOLEAN,
         \/ shown' = Nobody \/ landing'
         \/ shown' = shown /\ landing' = landing
         \/ view.list = {} /\ Of("list") = {},
         ~ready' => ~ready /\ UNCHANGED <<shown, signing, landing>>
  PROVE  ConsoleInv'
<1> USE DEF ConsoleInv
<1>1. ConsoleTypeOK'
  BY DEF ConsoleTypeOK, SessionInv, World
<1>2. Of("list")' = Of("list") /\ Of("delete")' = Of("delete")
      /\ Of("providers")' = Of("providers") /\ Of("offers")' = Of("offers")
  BY DEF Of
<1>3. SpinnerStops'
  BY <1>2 DEF SpinnerStops
<1>4. LoadingShowsNothing'
  BY <1>2 DEF LoadingShowsNothing
<1>5. OwnAnswers' /\ OwnJobsOnly'
  BY <1>2 DEF OwnAnswers, OwnJobsOnly, World
<1> QED
  BY <1>1, <1>3, <1>4, <1>5

\* The list is asked for: for the user shown, who was shown before or finds no
\* list.  Requests fs are left, none of them but deletions being taken away.
LEMMA AskingKeeps ==
  ASSUME ConsoleInv, SessionInv',
         NEW token \in Anyone, NEW fs \in SUBSET flights,
         flights \ fs \subseteq Of("delete"),
         flights' = fs \cup {Ask("list", {}, token)},
         view' = [view EXCEPT !.busy = TRUE],
         UNCHANGED <<page, World>>, landing' \in BOOLEAN, ready',
         shown' # Nobody /\ ~landing' =>
           /\ token = shown'
           /\ \/ shown' = shown /\ ~landing
              \/ view.list = {} /\ Of("list") = {}
  PROVE  ConsoleInv'
<1> DEFINE new == Ask("list", {}, token)
<1> USE DEF ConsoleInv
<1>1. /\ new \in Request /\ new.kind = "list" /\ new.token = token
      /\ new.state = "sent" /\ new.live
  BY AskIsRequest DEF Reads
<1>2. view' \in View /\ view'.list = view.list /\ view'.loading = view.loading
  BY DEF ConsoleTypeOK, View
<1>3. ConsoleTypeOK'
  BY <1>1, <1>2 DEF ConsoleTypeOK, SessionInv, World
<1> HIDE DEF new
<1>4. flights' = fs \cup {new}
  BY DEF new
<1>5. Of("list")' \subseteq Of("list") \cup {new} /\ new \in Of("list")'
  BY <1>1, <1>4 DEF Of
<1>6. (Of("providers") \cup Of("offers")) \subseteq (Of("providers") \cup Of("offers"))'
  BY <1>4 DEF Of
<1>7. SpinnerStops'
  BY <1>2, <1>5, <1>6 DEF SpinnerStops
<1>8. LoadingShowsNothing'
  BY DEF LoadingShowsNothing
<1>9. OwnJobsOnly'
  BY <1>2 DEF OwnJobsOnly, World
<1>10. OwnAnswers'
  BY <1>1, <1>5 DEF OwnAnswers, World
<1> QED
  BY <1>3, <1>7, <1>8, <1>9, <1>10

LEMMA SessionKeeps ==
  ASSUME ConsoleInv, SessionInv', SessionStep
  PROVE  ConsoleInv'
<1>0. /\ landing \in BOOLEAN /\ client' \in Anyone
      /\ ~ready => /\ shown = Nobody /\ signing = {} /\ ~landing
                   /\ view.list = {} /\ Of("list") = {}
      /\ shown' # Nobody => client' = shown'
  BY DEF ConsoleInv, ConsoleTypeOK, LoadingShowsNothing, SessionInv, OwnToken,
         SessionTypeOK
<1>1. CASE Restored
  <2>1. ~ready /\ ready' /\ UNCHANGED <<page, landing, World, signing>>
    BY <1>1 DEF Restored, Restore
  <2>2. CASE shown' # Nobody /\ page \in WithJobs
    <3>1. flights' = flights \cup {Ask("list", {}, client')}
          /\ view' = [view EXCEPT !.busy = TRUE]
      BY <1>1, <2>2 DEF Restored, Wake
    <3> QED
      BY <1>0, <2>1, <3>1, AskingKeeps
  <2>3. CASE ~(shown' # Nobody /\ page \in WithJobs)
    <3>1. UNCHANGED <<view, flights>>
      BY <1>1, <2>3 DEF Restored, Wake
    <3> QED
      BY <1>0, <2>1, <3>1, QuietKeeps
  <2> QED
    BY <2>2, <2>3
<1>2. CASE SignInAsDeveloper \/ Land
  BY <1>2, PageKeeps
<1>3. CASE SignOut
  BY <1>0, <1>3, QuietKeeps DEF SignOut, Logout, Assume, consoleVars, World
<1>4. ASSUME NEW u \in User, SignIn(u) PROVE ConsoleInv'
  BY <1>0, <1>4, QuietKeeps DEF SignIn, GoogleLogin, consoleVars, World
<1>5. ASSUME NEW u \in User, SignInFailed(u) PROVE ConsoleInv'
  BY <1>0, <1>5, QuietKeeps DEF SignInFailed, LoginFailed, consoleVars, World
<1>6. ASSUME NEW u \in User, SignedIn(u) PROVE ConsoleInv'
  <2>1. ready /\ ready' /\ landing' /\ UNCHANGED <<page, World>> /\ u \in Anyone
    BY <1>0, <1>6 DEF SignedIn, LoginAnswered, Assume, Anyone
  <2>2. CASE shown = Nobody /\ page \in WithJobs
    <3>1. flights' = flights \cup {Ask("list", {}, u)}
          /\ view' = [view EXCEPT !.busy = TRUE]
      BY <1>6, <2>2 DEF SignedIn, Wake
    <3> QED
      BY <2>1, <3>1, AskingKeeps
  <2>3. CASE ~(shown = Nobody /\ page \in WithJobs)
    <3>1. UNCHANGED <<view, flights>>
      BY <1>6, <2>3 DEF SignedIn, Wake
    <3> QED
      BY <2>1, <3>1, QuietKeeps
  <2> QED
    BY <2>2, <2>3
<1> QED
  BY <1>1, <1>2, <1>3, <1>4, <1>5, <1>6 DEF SessionStep

\* The form changes nothing but itself.
LEMMA FormKeeps ==
  ASSUME ConsoleInv, SessionInv',
         \/ \E x \in Type : SelectType(x)
         \/ \E n \in 1..MaxCount : SetCount(n)
         \/ \E long \in BOOLEAN : Fill(long)
  PROVE  ConsoleInv'
<1> USE DEF ConsoleInv
<1>1. /\ UNCHANGED <<sessionVars, page, flights, landing, World>>
      /\ view' \in View
      /\ view'.list = view.list /\ view'.busy = view.busy
      /\ view'.loading = view.loading
  <2>1. ASSUME NEW x \in Type, SelectType(x) PROVE <1>1
    BY <2>1 DEF SelectType, ConsoleTypeOK, View
  <2>2. ASSUME NEW n \in 1..MaxCount, SetCount(n) PROVE <1>1
    BY <2>2 DEF SetCount, ConsoleTypeOK, View
  <2>3. ASSUME NEW long \in BOOLEAN, Fill(long) PROVE <1>1
    BY <2>3 DEF Fill, ConsoleTypeOK, View
  <2> QED
    BY <2>1, <2>2, <2>3
<1>2. ConsoleTypeOK'
  BY <1>1 DEF ConsoleTypeOK, SessionInv, World
<1>3. LoadingShowsNothing' /\ OwnAnswers' /\ OwnJobsOnly' /\ SpinnerStops'
  BY <1>1 DEF LoadingShowsNothing, OwnAnswers, OwnJobsOnly, SpinnerStops, Of,
              World, sessionVars
<1> QED
  BY <1>2, <1>3

\* The polls and the deletion of a job.
LEMMA PollKeeps ==
  ASSUME ConsoleInv, SessionInv',
         PollJobs \/ PollFree \/ \E j \in Job : Delete(j)
  PROVE  ConsoleInv'
<1>0. /\ landing \in BOOLEAN /\ client \in Anyone /\ Nobody \in Anyone
      /\ ~ready => shown = Nobody
      /\ shown # Nobody => client = shown
  BY DEF ConsoleInv, ConsoleTypeOK, LoadingShowsNothing, SessionInv, OwnToken,
         SessionTypeOK, Anyone
<1>1. CASE PollJobs
  <2>1. ready' /\ shown' = shown /\ UNCHANGED <<page, landing, World>>
    BY <1>0, <1>1 DEF PollJobs, sessionVars, ConsoleInv, SessionInv, SessionTypeOK
  <2>2. /\ flights' = flights \cup {Ask("list", {}, client)}
        /\ view' = [view EXCEPT !.busy = TRUE]
        /\ shown' # Nobody /\ ~landing' => client = shown' /\ shown' = shown /\ ~landing
    BY <1>0, <1>1, <2>1 DEF PollJobs
  <2>3. landing' \in BOOLEAN
    BY <1>0, <2>1
  <2>4. flights \in SUBSET flights /\ flights \ flights \subseteq Of("delete")
    OBVIOUS
  <2> QED
    BY <1>0, <2>1, <2>2, <2>3, <2>4, AskingKeeps
<1>2. ASSUME NEW new \in Request, new.kind \in {"free", "delete"},
             flights' = flights \cup {new}, view' \in View,
             view'.list = view.list, view'.loading = view.loading,
             view'.busy => view.busy \/ (new.kind = "delete" /\ new.live),
             ready \/ new.kind = "free",
             UNCHANGED <<sessionVars, page, landing, World>>
      PROVE  ConsoleInv'
  <2> USE DEF ConsoleInv
  <2>1. ConsoleTypeOK'
    BY <1>2 DEF ConsoleTypeOK, SessionInv, World
  <2>2. /\ Of("list")' = Of("list")
        /\ Of("delete") \subseteq Of("delete")'
        /\ new.kind = "delete" /\ new.live => new \in Of("delete")'
        /\ new.kind = "free" => Of("delete")' = Of("delete")
        /\ Of("providers")' = Of("providers") /\ Of("offers")' = Of("offers")
    BY <1>2 DEF Of
  <2>3. SpinnerStops'
    BY <1>2, <2>2 DEF SpinnerStops
  <2>4. LoadingShowsNothing' /\ OwnAnswers' /\ OwnJobsOnly'
    BY <1>2, <2>2 DEF LoadingShowsNothing, OwnAnswers, OwnJobsOnly, World, sessionVars
  <2> QED
    BY <2>1, <2>3, <2>4
<1>3. CASE PollFree
  <2>1. view \in View
    BY DEF ConsoleInv, ConsoleTypeOK
  <2>2. LET new == Ask("free", {}, Nobody)
        IN  new \in Request /\ new.kind = "free"
    BY <1>0, AskIsRequest DEF Reads
  <2> QED
    BY <1>2, <1>3, <2>1, <2>2 DEF PollFree
<1>4. ASSUME NEW j \in Job, Delete(j) PROVE ConsoleInv'
  <2>1. view \in View
    BY DEF ConsoleInv, ConsoleTypeOK
  <2>2. view' = [view EXCEPT !.busy = TRUE] /\ ready
        /\ flights' = flights \cup {Ask("delete", {j}, client)}
        /\ UNCHANGED <<sessionVars, page, landing, World>>
    BY <1>4 DEF Delete, Listed, Visible
  <2>3. view' \in View /\ view'.list = view.list /\ view'.loading = view.loading
    BY <2>1, <2>2 DEF View
  <2>4. LET new == Ask("delete", {j}, client)
        IN  new \in Request /\ new.kind = "delete" /\ new.live
    BY <1>0, AskIsRequest
  <2> QED
    BY <1>2, <2>2, <2>3, <2>4
<1> QED
  BY <1>1, <1>3, <1>4

-----------------------------------------------------------------------------
(* Answers                                                                 *)

\* The server, or the network, has dealt with a request: what it leaves in the
\* list of requests is of the same kind.
LEMMA AnsweredKeeps ==
  ASSUME ConsoleInv, SessionInv',
         NEW r \in flights, NEW a \in Request, Answered(r, a),
         r.state = "sent",
         a.kind = r.kind, a.live = r.live, a.state # "sent",
         a.kind = "list" /\ a.state = "ok" =>
           \A j \in a.jobs : owner[j] = Caller[r.token],
         alive' \subseteq alive, faults' \in 0..MaxFaults,
         UNCHANGED <<sessionVars, page, view, landing, owner, free>>
  PROVE  ConsoleInv'
<1> DEFINE b == [a EXCEPT !.token = Nobody]
<1> USE DEF ConsoleInv
<1>1. /\ b \in Request /\ b.kind = r.kind /\ b.live = r.live
      /\ b.state = a.state /\ b.jobs = a.jobs
  BY DEF Request, Anyone
<1>2. flights' = (flights \ {r}) \cup (IF r.live THEN {b} ELSE {})
  BY DEF Answered
<1> HIDE DEF b
<1>3. ConsoleTypeOK'
  BY <1>1, <1>2 DEF ConsoleTypeOK, SessionInv
<1>4. \A k : Of(k)' = IF r \in Of(k) THEN (Of(k) \ {r}) \cup {b} ELSE Of(k)
  BY <1>1, <1>2 DEF Of
<1>5. SpinnerStops'
  BY <1>4 DEF SpinnerStops
<1>6. LoadingShowsNothing' /\ OwnJobsOnly'
  BY <1>4 DEF LoadingShowsNothing, OwnJobsOnly, sessionVars
<1>7. OwnAnswers'
  <2> SUFFICES ASSUME shown # Nobody, ~landing, NEW q \in Of("list")'
               PROVE  /\ q.state = "sent" => q.token = shown
                      /\ q.state = "ok" => \A j \in q.jobs : owner[j] = Caller[shown]
    BY DEF OwnAnswers, sessionVars
  <2>1. CASE q \in Of("list")
    BY <2>1 DEF OwnAnswers
  <2>2. CASE q = b /\ r \in Of("list")
    <3>1. r.token = shown /\ a.kind = "list"
      BY <2>2 DEF OwnAnswers, Of
    <3> QED
      BY <1>1, <2>2, <3>1
  <2> QED
    BY <1>4, <2>1, <2>2
<1> QED
  BY <1>3, <1>5, <1>6, <1>7

\* The lists the server returns hold the caller's jobs.
LEMMA ServeKeeps ==
  ASSUME ConsoleInv, SessionInv',
         \E r \in flights : ServeRead(r) \/ ServeDelete(r) \/ Fail(r)
  PROVE  ConsoleInv'
<1>0. flights \subseteq Request /\ faults \in 0..MaxFaults /\ MaxFaults \in Nat
      /\ alive \subseteq Job
  BY ConsoleAssumption DEF ConsoleInv, ConsoleTypeOK
<1>1. ASSUME NEW r \in flights, ServeRead(r) PROVE ConsoleInv'
  <2>1. PICK levels \in FirstLevels :
          Answered(r,
            CASE r.kind = "list" ->
                   IF Caller[r.token] = Rejected THEN [r EXCEPT !.state = "failed"]
                   ELSE [r EXCEPT !.state = "ok",
                          !.jobs = IF page = "jobs" THEN Jobs(Caller[r.token]) ELSE {}]
              [] r.kind = "free" -> [r EXCEPT !.state = "ok", !.level = levels]
              [] r.kind = "offers" ->
                   [r EXCEPT !.state = "ok", !.offers = {p \in Provider : free[p] # Away}]
              [] OTHER -> [r EXCEPT !.state = "ok"])
    BY <1>1 DEF ServeRead
  <2>2. levels \in [Type -> Level]
    BY DEF FirstLevels
  <2>3. /\ r.state = "sent" /\ alive' = alive /\ faults' = faults
        /\ UNCHANGED <<sessionVars, page, view, landing, owner, free>>
    BY <1>1 DEF ServeRead, World
  <2>4. r \in Request
    BY <1>0
  <2> DEFINE jobs == IF page = "jobs" THEN Jobs(Caller[r.token]) ELSE {}
  <2>5. jobs \subseteq Job /\ \A j \in jobs : owner[j] = Caller[r.token]
    BY <1>0 DEF Jobs
  <2>6. CASE r.kind = "list" /\ Caller[r.token] = Rejected
    <3> DEFINE a == [r EXCEPT !.state = "failed"]
    <3>1. a \in Request /\ a.kind = r.kind /\ a.live = r.live /\ a.state = "failed"
      BY <2>4 DEF Request
    <3>2. Answered(r, a)
      BY <2>1, <2>6
    <3> HIDE DEF a
    <3> QED
      BY <1>0, <2>3, <3>1, <3>2, AnsweredKeeps
  <2>7. CASE r.kind = "list" /\ Caller[r.token] # Rejected
    <3> DEFINE a == [r EXCEPT !.state = "ok", !.jobs = jobs]
    <3> HIDE DEF jobs
    <3>1. /\ a \in Request /\ a.kind = r.kind /\ a.live = r.live
          /\ a.state = "ok" /\ a.jobs = jobs
      BY <2>4, <2>5 DEF Request
    <3>2. Answered(r, a)
      BY <2>1, <2>7 DEF jobs
    <3> HIDE DEF a
    <3> QED
      BY <1>0, <2>3, <2>5, <3>1, <3>2, AnsweredKeeps
  <2>8. CASE r.kind = "free"
    <3> DEFINE a == [r EXCEPT !.state = "ok", !.level = levels]
    <3>1. a \in Request /\ a.kind = "free" /\ a.live = r.live /\ a.state = "ok"
      BY <2>2, <2>4, <2>8 DEF Request
    <3>2. Answered(r, a)
      BY <2>1, <2>8
    <3> HIDE DEF a
    <3> QED
      BY <1>0, <2>3, <2>8, <3>1, <3>2, AnsweredKeeps
  <2>9. CASE r.kind = "offers"
    <3> DEFINE a == [r EXCEPT !.state = "ok", !.offers = {p \in Provider : free[p] # Away}]
    <3>1. a \in Request /\ a.kind = "offers" /\ a.live = r.live /\ a.state = "ok"
      BY <2>4, <2>9 DEF Request
    <3>2. Answered(r, a)
      BY <2>1, <2>9
    <3> HIDE DEF a
    <3> QED
      BY <1>0, <2>3, <2>9, <3>1, <3>2, AnsweredKeeps
  <2>10. CASE r.kind \notin {"list", "free", "offers"}
    <3> DEFINE a == [r EXCEPT !.state = "ok"]
    <3>1. a \in Request /\ a.kind = r.kind /\ a.live = r.live /\ a.state = "ok"
      BY <2>4 DEF Request
    <3>2. Answered(r, a)
      BY <2>1, <2>10
    <3> HIDE DEF a
    <3> QED
      BY <1>0, <2>3, <2>10, <3>1, <3>2, AnsweredKeeps
  <2> QED
    BY <2>6, <2>7, <2>8, <2>9, <2>10
<1>2. ASSUME NEW r \in flights, ServeDelete(r) PROVE ConsoleInv'
  <2>1. PICK s \in {"ok", "failed"} : Answered(r, [r EXCEPT !.state = s])
    BY <1>2 DEF ServeDelete
  <2>2. /\ r.state = "sent" /\ r.kind = "delete"
        /\ alive' \subseteq alive /\ faults' = faults
        /\ UNCHANGED <<sessionVars, page, view, landing, owner, free>>
    BY <1>2 DEF ServeDelete
  <2> DEFINE a == [r EXCEPT !.state = s]
  <2>3. a \in Request /\ a.kind = "delete" /\ a.live = r.live /\ a.state = s
    BY <1>0, <2>2 DEF Request
  <2> HIDE DEF a
  <2>4. Answered(r, a)
    BY <2>1 DEF a
  <2> QED
    BY <1>0, <2>2, <2>3, <2>4, AnsweredKeeps
<1>3. ASSUME NEW r \in flights, Fail(r) PROVE ConsoleInv'
  <2>1. /\ r.state = "sent" /\ faults < MaxFaults /\ faults' = faults + 1
        /\ Answered(r, [r EXCEPT !.state = "failed"])
        /\ alive' \subseteq alive
        /\ UNCHANGED <<sessionVars, page, view, landing, owner, free>>
    BY <1>3 DEF Fail
  <2>2. faults' \in 0..MaxFaults
    BY <1>0, <2>1
  <2> DEFINE a == [r EXCEPT !.state = "failed"]
  <2>3. a \in Request /\ a.kind = r.kind /\ a.live = r.live /\ a.state = "failed"
    BY <1>0 DEF Request
  <2>4. Answered(r, a)
    BY <2>1
  <2> HIDE DEF a
  <2> QED
    BY <2>1, <2>2, <2>3, <2>4, AnsweredKeeps
<1> QED
  BY <1>1, <1>2, <1>3

\* An answer is taken from the list of requests.  What it does to the view ends
\* the spinner it stands for, and brings a list only if it is one.
LEMMA TakenKeeps ==
  ASSUME ConsoleInv, SessionInv',
         NEW r \in flights, flights' = flights \ {r},
         view' \in View,
         \/ r.kind \in {"list", "delete"} /\ ~view'.busy /\ view'.loading = view.loading
         \/ r.kind \in {"providers", "offers"} /\ ~view'.loading /\ view'.busy = view.busy
         \/ r.kind = "free" /\ view'.busy = view.busy /\ view'.loading = view.loading,
         \/ view'.list = view.list
         \/ r \in Of("list") /\ r.state = "ok" /\ view'.list = r.jobs,
         UNCHANGED <<sessionVars, page, landing, World>>
  PROVE  ConsoleInv'
<1> USE DEF ConsoleInv
<1>1. ConsoleTypeOK'
  BY DEF ConsoleTypeOK, SessionInv, World
<1>2. \A k : Of(k)' = Of(k) \ {r} /\ (r.kind # k => Of(k)' = Of(k))
  BY DEF Of
<1>3. SpinnerStops'
  BY <1>2 DEF SpinnerStops
<1>4. OwnAnswers'
  BY <1>2 DEF OwnAnswers, World, sessionVars
<1>5. OwnJobsOnly'
  BY DEF OwnJobsOnly, OwnAnswers, World, sessionVars
<1>6. LoadingShowsNothing'
  BY <1>2 DEF LoadingShowsNothing, sessionVars
<1> QED
  BY <1>1, <1>3, <1>4, <1>5, <1>6

\* What the hooks do with their answers.
LEMMA ArriveKeeps ==
  ASSUME ConsoleInv, SessionInv', NEW r \in flights, Arrive(r)
  PROVE  ConsoleInv'
<1>0. /\ view \in View /\ r \in Request /\ landing \in BOOLEAN
      /\ client \in Anyone /\ flights \in SUBSET Request
      /\ ~ready => Of("delete") = {}
      /\ shown # Nobody => client = shown
  BY DEF ConsoleInv, ConsoleTypeOK, LoadingShowsNothing, SessionInv, OwnToken,
         SessionTypeOK
<1>1. CASE ReceiveJobs(r)
  <2>1. /\ r \in Of("list") /\ r.kind = "list" /\ flights' = flights \ {r}
        /\ UNCHANGED <<sessionVars, page, landing, World>>
    BY <1>1 DEF ReceiveJobs, Of
  <2> DEFINE list == IF r.state = "ok" THEN r.jobs ELSE view.list
  <2>2. view' = [view EXCEPT !.busy = FALSE, !.list = list]
    BY <1>1 DEF ReceiveJobs
  <2>3. list \in SUBSET Job
    BY <1>0 DEF Request, View
  <2> HIDE DEF list
  <2>4. view' \in View /\ view'.list = list /\ ~view'.busy /\ view'.loading = view.loading
    BY <1>0, <2>2, <2>3 DEF View
  <2>5. view'.list = view.list \/ (r.state = "ok" /\ view'.list = r.jobs)
    BY <2>4 DEF list
  <2> QED
    BY <2>1, <2>4, <2>5, TakenKeeps
<1>2. CASE ReceiveDeleted(r)
  <2>1. /\ r \in Of("delete") /\ r.kind = "delete"
        /\ UNCHANGED <<sessionVars, page, landing, World>>
    BY <1>2 DEF ReceiveDeleted, Of
  <2>2. CASE r.state = "ok"
    <3>1. /\ flights' = (flights \ {r}) \cup {Ask("list", {}, client)}
          /\ view' = [view EXCEPT !.busy = TRUE]
      BY <1>2, <2>2 DEF ReceiveDeleted
    <3>2. /\ flights \ {r} \in SUBSET flights
          /\ flights \ (flights \ {r}) \subseteq Of("delete")
      BY <2>1
    <3>3. ready /\ ready' /\ shown' = shown /\ landing' = landing
      BY <1>0, <2>1 DEF sessionVars, ConsoleInv, SessionInv, SessionTypeOK
    <3>4. landing' \in BOOLEAN /\ UNCHANGED <<page, World>>
      BY <1>0, <2>1
    <3>5. shown' # Nobody /\ ~landing' => client = shown' /\ shown' = shown /\ ~landing
      BY <1>0, <3>3
    <3> QED
      BY <1>0, <3>1, <3>2, <3>3, <3>4, <3>5, AskingKeeps
  <2>3. CASE r.state # "ok"
    <3>1. /\ flights' = flights \ {r}
          /\ view' = [view EXCEPT !.busy = FALSE]
      BY <1>2, <2>3 DEF ReceiveDeleted
    <3>2. view' \in View /\ view'.list = view.list /\ ~view'.busy
          /\ view'.loading = view.loading
      BY <1>0, <3>1 DEF View
    <3> QED
      BY <2>1, <3>1, <3>2, TakenKeeps
  <2> QED
    BY <2>2, <2>3
<1>3. CASE ReceiveProviders(r)
  <2>1. /\ r.kind = "providers" /\ flights' = flights \ {r}
        /\ UNCHANGED <<sessionVars, page, landing, World>>
    BY <1>3 DEF ReceiveProviders, Of
  <2> DEFINE types == IF r.state = "ok" THEN GPUTypes ELSE view.types
  <2>2. PICK first \in IF types = {} THEN {Untyped} ELSE types :
          view' = [view EXCEPT !.loading = FALSE, !.types = types,
                               !.selected = IF @ = Untyped THEN first ELSE @]
    BY <1>3 DEF ReceiveProviders
  <2>3. types \subseteq Type
    BY <1>0, ConsoleAssumption DEF View, GPUTypes
  <2> DEFINE selected == IF view.selected = Untyped THEN first ELSE view.selected
  <2>4. selected \in Type \cup {Untyped}
    BY <1>0, <2>2, <2>3 DEF View
  <2>5. view' = [view EXCEPT !.loading = FALSE, !.types = types, !.selected = selected]
    BY <2>2
  <2> HIDE DEF types, selected
  <2>6. view' \in View /\ view'.list = view.list /\ view'.busy = view.busy
        /\ ~view'.loading
    BY <1>0, <2>3, <2>4, <2>5 DEF View
  <2> QED
    BY <2>1, <2>6, TakenKeeps
<1>4. CASE ReceiveFree(r)
  <2>1. /\ r.kind = "free" /\ flights' = flights \ {r}
        /\ UNCHANGED <<sessionVars, page, landing, World>>
    BY <1>4 DEF ReceiveFree, Of
  <2> DEFINE level == IF r.state = "ok" THEN r.level ELSE view.level
  <2>2. level \in [Type -> Level]
    BY <1>0 DEF Request, View
  <2>3. view' = [view EXCEPT !.level = level]
    BY <1>4 DEF ReceiveFree
  <2> HIDE DEF level
  <2>4. view' \in View /\ view'.list = view.list /\ view'.busy = view.busy
        /\ view'.loading = view.loading
    BY <1>0, <2>2, <2>3 DEF View
  <2> QED
    BY <2>1, <2>4, TakenKeeps
<1>5. CASE ReceiveOffers(r)
  <2>1. /\ r.kind = "offers" /\ flights' = flights \ {r}
        /\ UNCHANGED <<sessionVars, page, landing, World>>
    BY <1>5 DEF ReceiveOffers, Of
  <2> DEFINE offers == IF r.state = "ok" THEN r.offers ELSE view.offers
  <2>2. offers \subseteq Provider
    BY <1>0 DEF Request, View
  <2> DEFINE failed == r.state = "failed"
  <2>3. view' = [view EXCEPT !.loading = FALSE, !.failed = failed, !.offers = offers]
      /\ failed \in BOOLEAN
    BY <1>5 DEF ReceiveOffers
  <2> HIDE DEF offers, failed
  <2>4. view' \in View /\ view'.list = view.list /\ view'.busy = view.busy
        /\ ~view'.loading
    BY <1>0, <2>2, <2>3 DEF View
  <2> QED
    BY <2>1, <2>4, TakenKeeps
<1> QED
  BY <1>1, <1>2, <1>3, <1>4, <1>5 DEF Arrive

-----------------------------------------------------------------------------
(* The world, and the theorems                                             *)

\* A job on a user's list is rented; nobody else can rent it.
LEMMA WorldKeeps ==
  ASSUME ConsoleInv, SessionInv', WorldStep
  PROVE  ConsoleInv'
<1> USE DEF ConsoleInv
<1>1. /\ UNCHANGED <<sessionVars, page, view, flights, landing, faults>>
      /\ owner' \in [Job -> Account \cup {Nobody}]
      /\ alive' \subseteq {j \in Job : owner'[j] # Nobody}
      /\ free' \in [Provider -> Level]
      /\ \A j \in Job : owner[j] # Nobody => owner'[j] = owner[j]
  <2>1. ASSUME NEW j \in Job, End(j) PROVE <1>1
    BY <2>1 DEF End, ConsoleTypeOK
  <2>2. ASSUME NEW j \in Job, NEW a \in Account, Rent(a, j) PROVE <1>1
    BY <2>2, ConsoleAssumption DEF Rent, ConsoleTypeOK
  <2>3. ASSUME NEW p \in Provider, NEW n \in Level, Move(p, n) PROVE <1>1
    BY <2>3 DEF Move, ConsoleTypeOK
  <2> QED
    BY <2>1, <2>2, <2>3 DEF WorldStep
<1>2. ConsoleTypeOK'
  BY <1>1 DEF ConsoleTypeOK, SessionInv
<1>3. SpinnerStops' /\ LoadingShowsNothing'
  BY <1>1 DEF SpinnerStops, LoadingShowsNothing, Of, sessionVars
<1>4. shown # Nobody => Caller[shown] # Nobody
  BY ConsoleAssumption DEF ConsoleTypeOK, SessionTypeOK
<1>5. OwnJobsOnly'
  BY <1>1, <1>4 DEF OwnJobsOnly, sessionVars, ConsoleTypeOK, View
<1>6. OwnAnswers'
  <2>1. Of("list")' = Of("list") /\ Of("list") \subseteq Request
    BY <1>1 DEF Of, ConsoleTypeOK
  <2>2. \A r \in Of("list") : r.jobs \subseteq Job
    BY <2>1 DEF Request
  <2> QED
    BY <1>1, <1>4, <2>1, <2>2 DEF OwnAnswers, sessionVars
<1> QED
  BY <1>2, <1>3, <1>5, <1>6

LEMMA ConsoleKept == ConsoleInv /\ [Next]_vars => ConsoleInv'
<1> SUFFICES ASSUME ConsoleInv, [Next]_vars PROVE ConsoleInv'
    OBVIOUS
<1>0. SessionInv' /\ landing \in BOOLEAN
  BY ConsoleMoves, SessionKept DEF ConsoleInv, ConsoleTypeOK
<1>1. CASE SessionStep
  BY <1>0, <1>1, SessionKeeps
<1>2. CASE PageStep
  BY <1>0, <1>2, PageKeeps, FormKeeps, PollKeeps DEF PageStep
<1>3. CASE NetworkStep
  BY <1>0, <1>3, PollKeeps, ServeKeeps, ArriveKeeps DEF NetworkStep
<1>4. CASE WorldStep
  BY <1>0, <1>4, WorldKeeps
<1>5. ASSUME NEW u \in Anyone, Elsewhere(u), UNCHANGED consoleVars
      PROVE  ConsoleInv'
  BY <1>0, <1>5, QuietKeeps DEF Elsewhere, consoleVars, World
<1>6. CASE UNCHANGED vars
  BY <1>0, <1>6, QuietKeeps DEF vars, sessionVars, consoleVars, World
<1> QED
  BY <1>1, <1>2, <1>3, <1>4, <1>5, <1>6 DEF Next

LEMMA ConsoleHolds == Spec => []ConsoleInv
  BY ConsoleStarts, ConsoleKept, PTL DEF Spec

\* Every variable of the console has its type, for any users, jobs, providers
\* and bounds.
THEOREM ConsoleTypes == Spec => []ConsoleTypeOK
<1>1. ConsoleInv => ConsoleTypeOK
  BY DEF ConsoleInv
<1> QED
  BY <1>1, ConsoleHolds, PTL

\* The list a user sees holds this user's jobs only, whoever used the tab before
\* and whatever answers were still under way.
THEOREM JobsAreOwn == Spec => []OwnJobsOnly
<1>1. ConsoleInv => OwnJobsOnly
  BY DEF ConsoleInv
<1> QED
  BY <1>1, ConsoleHolds, PTL

\* A page that says it is loading has a request under way that will end it.
THEOREM SpinnersStop == Spec => []SpinnerStops
<1>1. ConsoleInv => SpinnerStops
  BY DEF ConsoleInv
<1> QED
  BY <1>1, ConsoleHolds, PTL
=============================================================================
