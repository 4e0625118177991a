--------------------------- MODULE ClientSession ----------------------------
(***************************************************************************)
(* Whether the browser believes it is signed in (AuthProvider), and        *)
(* whether its cookie still resolves on the server.                        *)
(*                                                                         *)
(* Signing in is one step: the pages behind RequireAuth are not there      *)
(* while it is under way, and the button is disabled.                      *)
(***************************************************************************)
EXTENDS Naturals

CONSTANTS
  MaxGestures,   \* bound on what the user does
  MaxFaults      \* bound on failures, and on what others do meanwhile

ASSUME ClientAssumption == MaxGestures \in Nat /\ MaxFaults \in Nat

VARIABLES
  route,     \* the page of this behaviour
  session,   \* the cookie resolves to the user
  auth,      \* user, loading and error of AuthProvider
  leaving,   \* logout() has ended the session and is not answered
  stray,     \* an answer to the pages that were left, which signs out
  spent      \* gestures and faults so far

sessionVars == <<route, session, auth, leaving, stray, spent>>

Auths == {"checking", "failed", "out", "in"}
Strays == {"none", "refused", "logout"}

SessionTypeOK ==
  /\ route \in {"home", "todos"}
  /\ session \in BOOLEAN /\ leaving \in BOOLEAN
  /\ auth \in Auths /\ stray \in Strays
  /\ spent \in [gestures : 0..MaxGestures, faults : 0..MaxFaults]

SessionInit ==
  /\ route \in {"home", "todos"}
  /\ session \in BOOLEAN
  /\ auth = "checking" /\ leaving = FALSE /\ stray = "none"
  /\ spent = [gestures |-> 0, faults |-> 0]

Act ==
  /\ spent.gestures < MaxGestures
  /\ spent' = [spent EXCEPT !.gestures = @ + 1]

Fault ==
  /\ spent.faults < MaxFaults
  /\ spent' = [spent EXCEPT !.faults = @ + 1]

Idle == UNCHANGED <<route, session, auth, leaving, stray>>

\* GET /auth/me, when the page is loaded and on retry().
meAnswered ==
  /\ auth = "checking"
  /\ auth' = IF session THEN "in" ELSE "out"
  /\ UNCHANGED <<route, session, leaving, stray, spent>>

meFails ==
  /\ auth = "checking" /\ Fault
  /\ auth' = "failed"
  /\ UNCHANGED <<route, session, leaving, stray>>

retry ==
  /\ auth = "failed"
  /\ auth' = "checking"
  /\ UNCHANGED <<route, session, leaving, stray, spent>>

signIn ==
  /\ auth \in {"out", "failed"} /\ Act
  /\ session' = TRUE /\ auth' = "in"
  /\ UNCHANGED <<route, leaving, stray>>

\* The answer is lost, after the cookie or before it.
signInFails ==
  /\ auth \in {"out", "failed"} /\ Fault
  /\ session' \in {session, TRUE}
  /\ UNCHANGED <<route, auth, leaving, stray>>

logout ==
  /\ auth = "in" /\ ~leaving /\ Act
  /\ session' = FALSE /\ leaving' = TRUE
  /\ UNCHANGED <<route, auth, stray>>

\* The session is over, and the page stays with an error.
logoutFails ==
  /\ leaving /\ Fault
  /\ leaving' = FALSE
  /\ UNCHANGED <<route, session, auth, stray>>

\* The session expires, or ends in another window.
SessionEnds ==
  /\ session /\ Fault
  /\ session' = FALSE
  /\ UNCHANGED <<route, auth, leaving, stray>>

\* setUser(null): by the event of request() or by the end of logout().  What
\* was waiting for an answer is left behind, with an answer that signs out too.
SignedOut(left) ==
  /\ auth' = "out" /\ UNCHANGED route
  /\ leaving' = FALSE
  /\ stray' = left

=============================================================================
