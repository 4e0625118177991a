------------------------------ MODULE WebClient -----------------------------
(***************************************************************************)
(* The browser: the session of AuthProvider, and the bell and the board    *)
(* that RequireAuth and AppLayout show while there is a user.              *)
(***************************************************************************)
EXTENDS BellClient, BoardClient

clientVars == <<sessionVars, bellVars, serverVars, page>>

ClientTypeOK == SessionTypeOK /\ BellTypeOK /\ BoardTypeOK
ClientInit == SessionInit /\ BellInit /\ BoardInit

Elsewhere == UNCHANGED <<bellVars, serverVars, page>>

\* meAnswered and signIn show the pages: their first effects run.
Enter ==
  /\ meAnswered \/ signIn
  /\ page' = IF auth' = "in" /\ route = "todos" THEN NewPage ELSE page
  /\ UNCHANGED <<bellVars, serverVars>>

\* The user is gone, and the pages with it.
Leave(left) ==
  /\ SignedOut(left)
  /\ BellUnmounted
  /\ page' = NoPage
  /\ UNCHANGED serverVars

\* request(): a 401 to any call.  Another call may be refused later.
Unauthenticated ==
  /\ auth = "in" /\ ~session
  /\ BellWaits \/ BoardWaits
  /\ \/ Leave("none") \/ Leave("refused")
     \/ leaving /\ Leave("logout")
  /\ UNCHANGED <<session, spent>>

logoutAnswered ==
  /\ leaving
  /\ \/ Leave("none")
     \/ (BellWaits \/ BoardWaits) /\ Leave("refused")
  /\ UNCHANGED <<session, spent>>

\* An answer to a page that was left: the user may have signed in again.  The
\* one to logout() takes the cookie with it.
StrayAnswer ==
  /\ stray # "none"
  /\ session' = (session /\ stray # "logout")
  /\ IF auth = "in" THEN Leave("none")
     ELSE stray' = "none" /\ UNCHANGED <<route, auth, leaving>> /\ Elsewhere
  /\ UNCHANGED spent

SessionStep ==
  \/ (meFails \/ retry \/ signInFails \/ logout \/ logoutFails \/ SessionEnds) /\ Elsewhere
  \/ Enter \/ Unauthenticated \/ logoutAnswered \/ StrayAnswer

ClientNext ==
  \/ SessionStep
  \/ (BellStep /\ UNCHANGED <<serverVars, page>>)
  \/ (BoardStep /\ UNCHANGED bellVars)

ClientSpec == ClientInit /\ [][ClientNext]_clientVars

\* The interval keeps polling, and what was asked is answered unless it fails.
FairClientSpec ==
  /\ ClientSpec
  /\ WF_clientVars(BellWorks /\ UNCHANGED <<serverVars, page>>)
  /\ WF_clientVars(Unauthenticated) /\ WF_clientVars(StrayAnswer)

=============================================================================
