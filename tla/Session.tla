------------------------------- MODULE Session -------------------------------
(***************************************************************************)
(* Who a tab of the web frontend thinks is logged in: localStorage, which  *)
(* all tabs of the browser share, the token the tab's apiClient holds in   *)
(* memory, and the user its AuthProvider shows.  Nothing tells the tab     *)
(* what another one has stored; the other tabs are the action Elsewhere.   *)
(*                                                                         *)
(* A token stands for the user it was issued to.  Sources: lib/api-client  *)
(* (the token), hooks/useAuth (the rest).                                  *)
(***************************************************************************)
CONSTANTS
  User,     \* the users that can be logged in
  DevUser,  \* the user of the development login
  Nobody,   \* no user, no token
  Garbled   \* a stored user that does not parse

ASSUME SessionAssumption ==
  /\ DevUser \in User
  /\ Nobody \notin User /\ Garbled \notin User /\ Garbled # Nobody

VARIABLES
  stored,   \* localStorage: auth_user and auth_token
  client,   \* the token of apiClient
  shown,    \* the user of AuthProvider; isAuthenticated if there is one
  ready,    \* AuthProvider has looked at the storage: not isLoading
  signing   \* the Google logins sent and not answered

sessionVars == <<stored, client, shown, ready, signing>>

Anyone == User \cup {Nobody}
NoSession == [user |-> Nobody, token |-> Nobody]
SessionOf(u) == [user |-> u, token |-> u]

\* A browser with nothing stored, or with a user it cannot read any more.
SessionInit ==
  /\ stored \in {NoSession} \cup [user : {Garbled}, token : User \ {DevUser}]
  /\ client = stored.token
  /\ shown = Nobody
  /\ ready = FALSE
  /\ signing = {}

\* The page is loaded: the constructor of ApiClient takes the stored token,
\* AuthProvider starts out loading.
Load ==
  /\ client' = stored.token
  /\ shown' = Nobody
  /\ ready' = FALSE
  /\ signing' = {}
  /\ UNCHANGED stored

\* Mutant: the token the constructor has read is not replaced.
RestoreUserOnly ==
  /\ ~ready
  /\ ready' = TRUE
  /\ shown' = IF stored.user \in User THEN stored.user ELSE Nobody
  /\ UNCHANGED <<stored, client, signing>>

\* The mount effect of AuthProvider.  A user that does not parse is removed
\* from the storage; the token apiClient has loaded stays in its memory.
Restore ==
  /\ ~ready
  /\ ready' = TRUE
  /\ UNCHANGED signing
  /\ CASE stored.user \in User /\ stored.token \in User ->
            /\ client' = stored.token
            /\ shown' = stored.user
            /\ UNCHANGED stored
       [] stored.user = Garbled /\ stored.token \in User ->
            stored' = NoSession /\ UNCHANGED <<client, shown>>
       [] OTHER -> UNCHANGED <<stored, client, shown>>

\* A login or logout: storage, apiClient and AuthProvider in one go.
Assume(user) ==
  /\ stored' = SessionOf(user)
  /\ client' = user
  /\ shown' = user
  /\ UNCHANGED ready

GoogleLogin(u) ==
  /\ ready
  /\ signing' = signing \cup {u}
  /\ UNCHANGED <<stored, client, shown, ready>>

\* The answer to loginWithGoogle, whatever the tab has done since.
LoginAnswered(u) ==
  /\ u \in signing
  /\ signing' = signing \ {u}
  /\ Assume(u)

LoginFailed(u) ==
  /\ u \in signing
  /\ signing' = signing \ {u}
  /\ UNCHANGED <<stored, client, shown, ready>>

DevLogin ==
  /\ ready
  /\ Assume(DevUser)
  /\ UNCHANGED signing

Logout ==
  /\ ready /\ shown # Nobody
  /\ Assume(Nobody)
  /\ UNCHANGED signing

\* Another tab logs somebody in or out.
Elsewhere(u) ==
  /\ stored # SessionOf(u)
  /\ stored' = SessionOf(u)
  /\ UNCHANGED <<client, shown, ready, signing>>

-----------------------------------------------------------------------------
SessionTypeOK ==
  /\ stored \in [user : Anyone \cup {Garbled}, token : Anyone]
  /\ client \in Anyone
  /\ shown \in Anyone
  /\ ready \in BOOLEAN
  /\ signing \subseteq User

\* A tab that shows a user sends that user's token and no other, whoever has
\* logged in or out in the other tabs, between the loading of the page and the
\* effect that reads the storage, or while a login of this tab was under way.
OwnToken == shown # Nobody => client = shown

\* The strengthening that makes it inductive: the storage holds a user and the
\* token of that user, or no user one could read.
StoredPair == stored.user \in User => stored.token = stored.user
=============================================================================
