---------------------------- MODULE SessionProofs ----------------------------
(***************************************************************************)
(* What every step of the session keeps, for the modules that build on it. *)
(***************************************************************************)
EXTENDS Session, TLAPS

SessionInv == SessionTypeOK /\ StoredPair /\ OwnToken

\* What a tab can do with the session, in any page.
SessionMove ==
  \/ Load \/ Restore \/ DevLogin \/ Logout
  \/ \E u \in User : GoogleLogin(u) \/ LoginAnswered(u) \/ LoginFailed(u)
  \/ \E u \in Anyone : Elsewhere(u)
  \/ UNCHANGED sessionVars

\* A browser starts with a session in order.
LEMMA SessionStarts == SessionInit => SessionInv
<1> SUFFICES ASSUME SessionInit PROVE SessionInv
    OBVIOUS
<1>1. SessionTypeOK
  <2>1. CASE stored = NoSession
    <3>1. stored.token = Nobody
      BY <2>1 DEF NoSession
    <3> QED
      BY <2>1, <3>1 DEF SessionInit, SessionTypeOK, NoSession, Anyone
  <2>2. CASE stored \in [user : {Garbled}, token : User \ {DevUser}]
    <3>1. stored.token \in Anyone /\ stored \in [user : Anyone \cup {Garbled}, token : Anyone]
      BY <2>2 DEF Anyone
    <3> QED
      BY <3>1 DEF SessionInit, SessionTypeOK, Anyone
  <2> QED
    BY <2>1, <2>2 DEF SessionInit
<1>2. StoredPair
  BY SessionAssumption DEF SessionInit, StoredPair, NoSession
<1>3. OwnToken
  BY DEF SessionInit, OwnToken
<1> QED
  BY <1>1, <1>2, <1>3 DEF SessionInv

\* Logging in or out leaves a user with his own token, in the storage and in
\* the tab.
LEMMA Assumed ==
  ASSUME SessionInv, NEW u \in Anyone, Assume(u),
         signing' \subseteq User
  PROVE  SessionInv'
<1>1. SessionTypeOK'
  BY DEF SessionInv, SessionTypeOK, Assume, SessionOf, Anyone
<1>2. StoredPair'
  BY DEF Assume, SessionOf, StoredPair
<1>3. OwnToken'
  BY DEF Assume, OwnToken
<1> QED
  BY <1>1, <1>2, <1>3 DEF SessionInv

\* The mount effect of AuthProvider shows a user only with the token the
\* storage holds beside him, which is his.
LEMMA Restores == SessionInv /\ Restore => SessionInv'
<1> SUFFICES ASSUME SessionInv, Restore PROVE SessionInv'
    OBVIOUS
<1> USE DEF SessionInv, SessionTypeOK, StoredPair, OwnToken, Restore
<1>1. CASE stored.user \in User /\ stored.token \in User
  <2>1. client' = stored.token /\ shown' = stored.user /\ stored' = stored
    BY <1>1, SessionAssumption
  <2> QED
    BY <2>1, <1>1 DEF Anyone
<1>2. CASE ~(stored.user \in User /\ stored.token \in User)
  <2>1. UNCHANGED <<client, shown>> /\ stored' \in {stored, NoSession}
    BY <1>2
  <2> QED
    BY <2>1, SessionAssumption DEF Anyone, NoSession
<1> QED
  BY <1>1, <1>2

\* No step of the session, in this tab or in another, breaks it.
LEMMA SessionKept == SessionInv /\ SessionMove => SessionInv'
<1> SUFFICES ASSUME SessionInv, SessionMove PROVE SessionInv'
    OBVIOUS
<1>1. CASE Load
  BY <1>1 DEF Load, SessionInv, SessionTypeOK, StoredPair, OwnToken, Anyone
<1>2. CASE Restore
  BY <1>2, Restores
<1>3. CASE DevLogin
  BY <1>3, Assumed, SessionAssumption
     DEF DevLogin, Anyone, SessionInv, SessionTypeOK
<1>4. CASE Logout
  BY <1>4, Assumed DEF Logout, Anyone, SessionInv, SessionTypeOK
<1>5. ASSUME NEW u \in User, GoogleLogin(u) PROVE SessionInv'
  BY <1>5 DEF GoogleLogin, SessionInv, SessionTypeOK, StoredPair, OwnToken
<1>6. ASSUME NEW u \in User, LoginAnswered(u) PROVE SessionInv'
  BY <1>6, Assumed DEF LoginAnswered, Anyone, SessionInv, SessionTypeOK
<1>7. ASSUME NEW u \in User, LoginFailed(u) PROVE SessionInv'
  BY <1>7 DEF LoginFailed, SessionInv, SessionTypeOK, StoredPair, OwnToken
<1>8. ASSUME NEW u \in Anyone, Elsewhere(u) PROVE SessionInv'
  BY <1>8 DEF Elsewhere, SessionOf, SessionInv, SessionTypeOK, StoredPair,
              OwnToken, Anyone
<1>9. CASE UNCHANGED sessionVars
  BY <1>9 DEF sessionVars, SessionInv, SessionTypeOK, StoredPair, OwnToken
<1> QED
  BY <1>1, <1>2, <1>3, <1>4, <1>5, <1>6, <1>7, <1>8, <1>9 DEF SessionMove
=============================================================================
