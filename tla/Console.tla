------------------------------- MODULE Console -------------------------------
(***************************************************************************)
(* The console of the web frontend: the pages that list, delete and        *)
(* configure jobs, with the hooks useJobs (polls the jobs every 5 s) and   *)
(* useProviders (polls the free GPUs every 3 s), over the API of the       *)
(* control plane.  Requests overlap, answers come in any order and to a    *)
(* page that shows something else by then; other tabs log in and out.      *)
(*                                                                         *)
(* The error texts of the pages are left out: nothing depends on them.     *)
(* Two requests of a tab that are equal and unanswered are one: a poll     *)
(* does nothing but wait until the server looks at it.                     *)
(***************************************************************************)
EXTENDS Session, Integers, FiniteSets

CONSTANTS
  Job, Provider, Type,
  Kind,        \* Kind[p]: the type of a provider's GPUs
  Offered,     \* Offered[p]: the GPUs a provider was registered with
  Account,     \* the users the server knows
  Caller,      \* Caller[token]: the account the server takes a token for
  Rejected,    \* no account: the server answers 401
  MaxCount,    \* the largest GPU count of the form
  MaxPolls,    \* bound: MaxPolls[page] polls of the jobs under way
  MaxLooks,    \* bound: polls of the free GPUs under way
  MaxDeletes,  \* bound: deletions under way
  Supply,      \* bound: Supply[p], the numbers of GPUs provider p has free at times
  MaxFaults,   \* bound: requests that fail or whose answer is lost
  Anytime      \* bound: FALSE lets other tabs act only while this one loads a
               \* page, and it reads the storage at no other time

Untyped == "no type"  \* nothing selected
Away == -1            \* a provider that is not available; no answer yet

Level == {Away} \cup 0..MaxCount

ASSUME ConsoleAssumption ==
  /\ Kind \in [Provider -> Type]
  /\ Untyped \notin Type
  /\ Offered \in [Provider -> Nat]
  /\ Rejected \notin Account /\ Nobody \notin Account /\ Rejected # Nobody
  /\ Caller \in [Anyone -> Account \cup {Rejected}]
  /\ MaxCount \in Nat \ {0} /\ MaxFaults \in Nat /\ Anytime \in BOOLEAN
  /\ Supply \in [Provider -> SUBSET Level]
  /\ MaxPolls \in [{"jobs", "create"} -> Nat \ {0}]
  /\ MaxLooks \in Nat \ {0} /\ MaxDeletes \in Nat

VARIABLES
  page,     \* the page the tab is on
  view,     \* what the hooks of the page hold
  flights,  \* the requests under way
  landing,  \* a Google login has been answered, its redirect is to come
  owner,    \* owner[j]: who has rented job j, Nobody so far
  alive,    \* the jobs that have a pod
  free,     \* free[p]: the GPUs provider p has free, Away if it takes no jobs
  faults

consoleVars == <<page, view, flights, landing, owner, alive, free, faults>>
vars == <<sessionVars, consoleVars>>

Page == {"login", "home", "dashboard", "jobs", "create", "checkout", "deploy"}
Guarded == {"dashboard", "jobs", "create", "checkout"}
WithJobs == {"jobs", "create"}
Reads == {"list", "providers", "free", "offers"}

Request ==
  [kind : Reads \cup {"delete"}, job : SUBSET Job, token : Anyone,
   state : {"sent", "ok", "failed"}, live : BOOLEAN,
   jobs : SUBSET Job, level : [Type -> Level], offers : SUBSET Provider]

View ==
  [list : SUBSET Job, busy : BOOLEAN, loading : BOOLEAN, types : SUBSET Type,
   selected : Type \cup {Untyped}, count : 1..MaxCount, filled : BOOLEAN,
   level : [Type -> Level], offers : SUBSET Provider, failed : BOOLEAN]

Unknown == [x \in Type |-> Away]

\* The state of the hooks and of the form at mount.
Blank == [list |-> {}, busy |-> FALSE, loading |-> FALSE, types |-> {},
          selected |-> Untyped, count |-> 1, filled |-> FALSE,
          level |-> Unknown, offers |-> {}, failed |-> FALSE]

\* request: the Authorization header carries the token the client has by now.
\* It is kept while it matters: the provider routes do not look at it.
Ask(kind, job, token) ==
  [kind |-> kind, job |-> job, token |-> token, state |-> "sent", live |-> TRUE,
   jobs |-> {}, level |-> Unknown, offers |-> {}]

Of(kind) == {r \in flights : r.kind = kind /\ r.live}
Waiting(kind) == {r \in Of(kind) : r.state = "sent"}

\* What ListUserJobs returns to a caller.
Jobs(caller) == {j \in alive : owner[j] = caller}

ConsoleInit ==
  /\ page = "home"
  /\ view = Blank
  /\ flights = {}
  /\ landing = FALSE
  /\ owner = [j \in Job |-> Nobody]
  /\ alive = {}
  /\ free \in {f \in [Provider -> Level] : \A p \in Provider : f[p] \in Supply[p]}
  /\ faults = 0

Init == SessionInit /\ ConsoleInit

World == <<owner, alive, free, faults>>

-----------------------------------------------------------------------------
(* Pages: what a page asks for when it is mounted, what is left of it        *)

\* The deletions of a page that is left are not called back.
Left == {[r EXCEPT !.live = FALSE] : r \in Waiting("delete")}
           \cup {r \in flights : ~r.live}

\* useJobs asks for the jobs if a user is logged in; useProviders, and the
\* deploy page, ask in any case.
MountJobs(p, token, user) ==
  IF p \in WithJobs /\ user # Nobody THEN {Ask("list", {}, token)} ELSE {}

MountProviders(p) ==
  IF p = "create" THEN {Ask("providers", {}, Nobody), Ask("free", {}, Nobody)} ELSE {}

MountDeploy(p) ==
  IF p = "deploy" THEN {Ask("offers", {}, Nobody)} ELSE {}

\* Mutant: what the hooks hold outlives the page.
EnterKeepsView(p, token, user) ==
  LET asked == MountJobs(p, token, user)
  IN  /\ page' = p
      /\ flights' = Left \cup asked \cup MountProviders(p) \cup MountDeploy(p)
      /\ view' = [view EXCEPT !.busy = asked # {}, !.loading = p \in {"create", "deploy"}]

\* The tab shows page p from now on; token and user are those of the new page.
Enter(p, token, user) ==
  LET asked == MountJobs(p, token, user)
  IN  /\ page' = p
      /\ flights' = Left \cup asked \cup MountProviders(p) \cup MountDeploy(p)
      /\ view' = [Blank EXCEPT !.busy = asked # {}, !.loading = p \in {"create", "deploy"}]

\* A guarded page renders nothing for a tab without a user.
Visible == ready /\ (page \in Guarded => shown # Nobody)

\* An address is opened or the page loaded anew: only the storage survives.
Open(p) ==
  /\ p # "checkout"
  /\ Load
  /\ Enter(p, stored.token, Nobody)
  /\ landing' = FALSE
  /\ UNCHANGED World

\* A link is followed.
Go(p) ==
  /\ Visible
  /\ p \notin {page, "checkout"}
  /\ Enter(p, client, shown)
  /\ UNCHANGED <<sessionVars, landing, World>>

\* The guard of a page: no user, go to the login page.
SendToLogin ==
  /\ ready /\ shown = Nobody
  /\ page \in Guarded
  /\ Enter("login", client, Nobody)
  /\ UNCHANGED <<sessionVars, landing, World>>

\* The login page has no use for a user who is logged in.
SendToDashboard ==
  /\ ready /\ shown # Nobody
  /\ page = "login"
  /\ Enter("dashboard", client, shown)
  /\ UNCHANGED <<sessionVars, landing, World>>

-----------------------------------------------------------------------------
(* Logging in and out                                                      *)

\* isAuthenticated has become true under a mounted useJobs: its effect runs again.
Wake(token) ==
  IF page \in WithJobs
  THEN /\ flights' = flights \cup {Ask("list", {}, token)}
       /\ view' = [view EXCEPT !.busy = TRUE]
  ELSE UNCHANGED <<view, flights>>

Restored ==
  /\ Restore
  /\ IF shown' # Nobody THEN Wake(client') ELSE UNCHANGED <<view, flights>>
  /\ UNCHANGED <<page, landing, World>>

\* The login page shows its Google button, not a spinner.
SignInOffered == page = "login" /\ ready /\ shown = Nobody /\ signing = {}

\* The button is used; the answer may come when the tab has left the page.
SignIn(u) ==
  /\ SignInOffered /\ u # DevUser
  /\ GoogleLogin(u)
  /\ UNCHANGED consoleVars

SignedIn(u) ==
  /\ LoginAnswered(u)
  /\ landing' = TRUE
  /\ IF shown = Nobody THEN Wake(u) ELSE UNCHANGED <<view, flights>>
  /\ UNCHANGED <<page, World>>

\* What handleGoogleCallback does last.
Land ==
  /\ landing
  /\ landing' = FALSE
  /\ Enter("dashboard", client, shown)
  /\ UNCHANGED <<sessionVars, World>>

SignInFailed(u) ==
  /\ LoginFailed(u)
  /\ UNCHANGED consoleVars

\* The development login goes to the dashboard by itself.
SignInAsDeveloper ==
  /\ page = "login"
  /\ DevLogin
  /\ Enter("dashboard", DevUser, DevUser)
  /\ UNCHANGED <<landing, World>>

\* A hook that loses its user stops polling; what it holds stays.
SignOut ==
  /\ page \in {"home", "dashboard", "jobs", "create"}
  /\ Logout
  /\ UNCHANGED consoleVars

-----------------------------------------------------------------------------
(* useJobs and useProviders                                                *)

\* Mutant: polled only until there is an answer.
PollFreeOnce ==
  /\ page = "create"
  /\ Of("free") = {} /\ view.level = Unknown
  /\ flights' = flights \cup {Ask("free", {}, Nobody)}
  /\ UNCHANGED <<sessionVars, page, view, landing, World>>

\* Every 3 seconds, whoever is logged in.
PollFree ==
  /\ page = "create"
  /\ Cardinality(Of("free")) < MaxLooks
  /\ flights' = flights \cup {Ask("free", {}, Nobody)}
  /\ UNCHANGED <<sessionVars, page, view, landing, World>>

\* Mutant: the poll is for a list that has nothing to show.
PollJobsUntilShown ==
  /\ page \in WithJobs /\ shown # Nobody
  /\ Cardinality(Of("list")) < MaxPolls[page]
  /\ view.list = {}
  /\ flights' = flights \cup {Ask("list", {}, client)}
  /\ view' = [view EXCEPT !.busy = TRUE]
  /\ UNCHANGED <<sessionVars, page, landing, World>>

\* Every 5 seconds while a user is logged in.
PollJobs ==
  /\ page \in WithJobs /\ shown # Nobody
  /\ Cardinality(Of("list")) < MaxPolls[page]
  /\ flights' = flights \cup {Ask("list", {}, client)}
  /\ view' = [view EXCEPT !.busy = TRUE]
  /\ UNCHANGED <<sessionVars, page, landing, World>>

\* The jobs the page lists, each with a button to delete it.
Listed == IF page = "jobs" /\ Visible THEN view.list ELSE {}

\* deleteJob; the user has confirmed.
Delete(j) ==
  /\ j \in Listed
  /\ Cardinality(Of("delete")) < MaxDeletes
  /\ flights' = flights \cup {Ask("delete", {j}, client)}
  /\ view' = [view EXCEPT !.busy = TRUE]
  /\ UNCHANGED <<sessionVars, page, landing, World>>

\* Mutant: an error leaves loading as it is.
ReceiveJobsNoFinally(r) ==
  /\ r \in Of("list") /\ r.state # "sent"
  /\ view' = IF r.state = "failed" THEN view
             ELSE [view EXCEPT !.busy = FALSE,
                               !.list = r.jobs]
  /\ flights' = flights \ {r}
  /\ UNCHANGED <<sessionVars, page, landing, World>>

\* The answer to fetchJobs replaces the list, also by an older one; an error
\* leaves it.  The create page has no use for the list.
ReceiveJobs(r) ==
  /\ r \in Of("list") /\ r.state # "sent"
  /\ view' = [view EXCEPT !.busy = FALSE,
                          !.list = IF r.state = "ok" THEN r.jobs ELSE @]
  /\ flights' = flights \ {r}
  /\ UNCHANGED <<sessionVars, page, landing, World>>

\* After a deletion the list is asked for again, before loading is cleared.
ReceiveDeleted(r) ==
  /\ r \in Of("delete") /\ r.state # "sent"
  /\ IF r.state = "ok"
     THEN /\ flights' = (flights \ {r}) \cup {Ask("list", {}, client)}
          /\ view' = [view EXCEPT !.busy = TRUE]
     ELSE /\ flights' = flights \ {r}
          /\ view' = [view EXCEPT !.busy = FALSE]
  /\ UNCHANGED <<sessionVars, page, landing, World>>

\* The types of the providers' GPUs.
GPUTypes == {Kind[p] : p \in Provider}

\* Mutant: gpuTypes[0] is selected without a look at the length.
ReceiveProvidersUnchecked(r) ==
  /\ r \in Of("providers") /\ r.state # "sent"
  /\ flights' = flights \ {r}
  /\ LET types == IF r.state = "ok" THEN GPUTypes ELSE view.types
     IN  \E first \in IF types = {} THEN {"undefined"} ELSE types :
           view' = [view EXCEPT !.loading = FALSE, !.types = types,
                                !.selected = IF @ = Untyped THEN first ELSE @]
  /\ UNCHANGED <<sessionVars, page, landing, World>>

\* fetchProviders; the effect of the create page selects the first type.
ReceiveProviders(r) ==
  /\ r \in Of("providers") /\ r.state # "sent"
  /\ flights' = flights \ {r}
  /\ LET types == IF r.state = "ok" THEN GPUTypes ELSE view.types
     IN  \E first \in IF types = {} THEN {Untyped} ELSE types :
           view' = [view EXCEPT !.loading = FALSE, !.types = types,
                                !.selected = IF @ = Untyped THEN first ELSE @]
  /\ UNCHANGED <<sessionVars, page, landing, World>>

\* fetchGPUAvailability; an error leaves what is shown.
ReceiveFree(r) ==
  /\ r \in Of("free") /\ r.state # "sent"
  /\ flights' = flights \ {r}
  /\ view' = [view EXCEPT !.level = IF r.state = "ok" THEN r.level ELSE @]
  /\ UNCHANGED <<sessionVars, page, landing, World>>

\* fetchGPUs of the deploy page, which asks once; an error stays on show.
ReceiveOffers(r) ==
  /\ r \in Of("offers") /\ r.state # "sent"
  /\ flights' = flights \ {r}
  /\ view' = [view EXCEPT !.loading = FALSE, !.failed = r.state = "failed",
                          !.offers = IF r.state = "ok" THEN r.offers ELSE @]
  /\ UNCHANGED <<sessionVars, page, landing, World>>

-----------------------------------------------------------------------------
(* The form of the create page, and the deploy page                        *)

\* The buttons of the form, one for each type of GPU.
TypeButtons == IF page = "create" /\ Visible THEN view.types ELSE {}

SelectType(x) ==
  /\ x \in TypeButtons
  /\ view' = [view EXCEPT !.selected = x]
  /\ UNCHANGED <<sessionVars, page, flights, landing, World>>

SetCount(n) ==
  /\ page = "create" /\ Visible
  /\ view' = [view EXCEPT !.count = n]
  /\ UNCHANGED <<sessionVars, page, flights, landing, World>>

\* The other fields: they have a default or one of a list of values, but for the
\* password, which has to have six characters.
Fill(long) ==
  /\ page = "create" /\ Visible
  /\ view.filled # long
  /\ view' = [view EXCEPT !.filled = long]
  /\ UNCHANGED <<sessionVars, page, flights, landing, World>>

\* canCreateJob, on the provider that comes first in the last answer.
CanCreateJob ==
  view.selected # Untyped /\ view.level[view.selected] >= view.count

\* The button is enabled.
SubmitEnabled ==
  /\ page = "create" /\ Visible
  /\ ~view.busy /\ ~view.loading
  /\ CanCreateJob

\* handleSubmit; a form that is not filled in gets an error text.
Submit ==
  /\ SubmitEnabled /\ view.filled
  /\ Enter("checkout", client, shown)
  /\ UNCHANGED <<sessionVars, landing, World>>

\* availableCount: the capacity a provider has registered, not what is free of it.
AvailableCount(p) == Offered[p]

\* The grid of the deploy page, its buttons disabled where nothing is on offer.
Rentable ==
  IF page = "deploy" /\ ~view.loading /\ ~view.failed
  THEN {p \in view.offers : AvailableCount(p) > 0} ELSE {}

\* handleRentClick loads the create page; what it puts into the address is not read.
RentNow(p) ==
  /\ p \in Rentable
  /\ Open("create")

\* What stands in for the grid: a skeleton, a link to the docs, or an error with a
\* button that loads the page anew.
RetryOffers ==
  /\ page = "deploy" /\ ~view.loading /\ view.failed
  /\ Open("deploy")

-----------------------------------------------------------------------------
(* The control plane and the world                                         *)

\* GetGPUAvailability lists the active providers in no order; the page looks
\* at the first one of a type.
FirstLevels ==
  {f \in [Type -> Level] : \A x \in Type :
     LET up == {p \in Provider : Kind[p] = x /\ free[p] # Away}
     IN  IF up = {} THEN f[x] = Away ELSE f[x] \in {free[p] : p \in up}}

Answered(r, a) ==
  flights' = (flights \ {r}) \cup (IF r.live THEN {[a EXCEPT !.token = Nobody]} ELSE {})

ServeRead(r) ==
  /\ r \in flights /\ r.state = "sent" /\ r.kind \in Reads
  /\ \E levels \in FirstLevels :
       Answered(r,
         CASE r.kind = "list" ->
                IF Caller[r.token] = Rejected THEN [r EXCEPT !.state = "failed"]
                ELSE [r EXCEPT !.state = "ok",
                               !.jobs = IF page = "jobs" THEN Jobs(Caller[r.token]) ELSE {}]
           [] r.kind = "free" -> [r EXCEPT !.state = "ok", !.level = levels]
           [] r.kind = "offers" ->
                [r EXCEPT !.state = "ok", !.offers = {p \in Provider : free[p] # Away}]
           [] OTHER -> [r EXCEPT !.state = "ok"])
  /\ UNCHANGED <<sessionVars, page, view, landing, World>>

\* DeleteJob: the pod of the caller's job goes now or after its grace period.
ServeDelete(r) ==
  /\ r \in flights /\ r.state = "sent" /\ r.kind = "delete"
  /\ IF r.job \subseteq Jobs(Caller[r.token])
     THEN /\ Answered(r, [r EXCEPT !.state = "ok"])
          /\ alive' \in {alive, alive \ r.job}
     ELSE /\ Answered(r, [r EXCEPT !.state = "failed"])
          /\ UNCHANGED alive
  /\ UNCHANGED <<sessionVars, page, view, landing, owner, free, faults>>

\* A request is lost or turned down, or its answer is: a deletion may have
\* been carried out.
Fail(r) ==
  /\ faults < MaxFaults
  /\ r \in flights /\ r.state = "sent"
  /\ faults' = faults + 1
  /\ Answered(r, [r EXCEPT !.state = "failed"])
  /\ alive' \in {alive} \cup
       {alive \ d : d \in {r.job} \cap SUBSET Jobs(Caller[r.token])}
  /\ UNCHANGED <<sessionVars, page, view, landing, owner, free>>

\* Somebody rents a job, in this browser or another.
Rent(a, j) ==
  /\ owner[j] = Nobody
  /\ owner' = [owner EXCEPT ![j] = a]
  /\ alive' = alive \cup {j}
  /\ UNCHANGED <<sessionVars, page, view, flights, landing, free, faults>>

\* A pod is gone: deleted, crashed or swept.
End(j) ==
  /\ j \in alive
  /\ alive' = alive \ {j}
  /\ UNCHANGED <<sessionVars, page, view, flights, landing, owner, free, faults>>

\* GPUs are taken and freed, providers come and go.
Move(p, n) ==
  /\ n \in Supply[p] \ {free[p]}
  /\ free' = [free EXCEPT ![p] = n]
  /\ UNCHANGED <<sessionVars, page, view, flights, landing, owner, alive, faults>>

-----------------------------------------------------------------------------
SessionStep ==
  \/ Restored \/ SignInAsDeveloper \/ SignOut \/ Land
  \/ \E u \in User : SignIn(u) \/ SignedIn(u) \/ SignInFailed(u)

PageStep ==
  \/ \E p \in Page : Open(p) \/ Go(p)
  \/ SendToLogin \/ SendToDashboard
  \/ \E x \in Type : SelectType(x)
  \/ \E n \in 1..MaxCount : SetCount(n)
  \/ \E long \in BOOLEAN : Fill(long)
  \/ \E p \in Provider : RentNow(p)
  \/ RetryOffers
  \/ \E j \in Job : Delete(j)
  \/ Submit

Arrive(r) ==
  \/ ReceiveJobs(r) \/ ReceiveDeleted(r) \/ ReceiveProviders(r)
  \/ ReceiveFree(r) \/ ReceiveOffers(r)

NetworkStep ==
  \/ PollJobs \/ PollFree
  \/ \E r \in flights : ServeRead(r) \/ ServeDelete(r) \/ Fail(r) \/ Arrive(r)

WorldStep ==
  \/ \E j \in Job : End(j) \/ \E a \in Account : Rent(a, j)
  \/ \E p \in Provider, n \in Level : Move(p, n)

Next ==
  \/ SessionStep \/ PageStep \/ NetworkStep \/ WorldStep
  \/ \E u \in Anyone : (Anytime \/ ~ready) /\ Elsewhere(u) /\ UNCHANGED consoleVars

Spec == Init /\ [][Next]_vars

\* The timers of a mounted page go off again and again; the server and the
\* network deal with polls of either kind.  Nobody has to do anything else.
Fairness ==
  /\ SF_vars(PollJobs) /\ SF_vars(PollFree)
  /\ \A k \in {"list", "free"} :
       /\ WF_vars(\E r \in Waiting(k) : ServeRead(r))
       /\ WF_vars(\E r \in Of(k) : Arrive(r))

FairSpec == Spec /\ Fairness

-----------------------------------------------------------------------------
ConsoleTypeOK ==
  /\ SessionTypeOK
  /\ page \in Page
  /\ view \in View
  /\ flights \subseteq Request
  /\ landing \in BOOLEAN
  /\ owner \in [Job -> Account \cup {Nobody}]
  /\ alive \subseteq {j \in Job : owner[j] # Nobody}
  /\ free \in [Provider -> Level]
  /\ faults \in 0..MaxFaults

\* The list a user sees holds jobs of this user only: what was fetched for
\* whoever used the tab before, the answers that were still under way included,
\* is gone with the page.  A Google login answered late takes over a page that
\* has been opened meanwhile, until its redirect follows.
OwnJobsOnly ==
  shown # Nobody /\ ~landing =>
    \A j \in view.list : owner[j] = Caller[shown]

\* A page that says it is loading has a request under way that will end it:
\* with polls, deletions and refreshes sharing one flag, failing or answered
\* out of order, none leaves it set.
SpinnerStops ==
  /\ view.busy => Of("list") \cup Of("delete") # {}
  /\ view.loading => Of("providers") \cup Of("offers") # {}

\* Whatever fails, is deleted or comes late, the list of a user who stays on
\* the jobs page ends up being the list the server has.
ShownJobsCatchUp ==
  \A u \in User :
    <>[](page = "jobs" /\ shown = u /\ Caller[u] # Rejected)
      => <>[](view.list = Jobs(Caller[u]))

\* Two polls keep coming in, one of them blocking the form while it lasts.  The
\* button is nevertheless enabled again and again if every provider of the
\* selected type has the GPUs.
SubmitComesBack ==
  \A x \in Type :
    <>[](/\ page = "create" /\ Visible /\ ~view.loading
         /\ view.selected = x
         /\ \E p \in Provider : Kind[p] = x
         /\ \A p \in Provider : Kind[p] = x => free[p] >= view.count)
      => []<>SubmitEnabled
=============================================================================
