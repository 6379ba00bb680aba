-------------------------------- MODULE Main --------------------------------
(***************************************************************************)
(* main() of scripts/signin_helper.py as a whole: helper.signin_flow (the  *)
(* handshake of SignIn) runs first, and what it returns decides the exit   *)
(* path and the cookies every probe of ProbeDispatch is sent with.  The    *)
(* two components share no variable; they meet in one step, the return of *)
(* signin_flow to main.                                                    *)
(***************************************************************************)
EXTENDS Integers, FiniteSets

CONSTANTS Flows, Nonces, Cookies, StatusCodes,
          UserIds, OrgIds, NewId, CLIArgs

VARIABLES
  pc, jar, flowId, code, sent, db, expired, callbackSet, outcome, reports,
  phase, args, cookies, sessionInfo, step, createdId, calls, ran, exitCode

siVars == <<pc, jar, flowId, code, sent, db, expired, callbackSet, outcome,
            reports>>
pdVars == <<phase, args, cookies, sessionInfo, step, createdId, calls, ran,
            exitCode>>
vars == <<siVars, pdVars>>

SI == INSTANCE SignIn
PD == INSTANCE ProbeDispatch

(* The handshake's assumptions on its constants, which the composition   *)
(* inherits: some flow ids, some codes, real status codes, and sentinels *)
(* apart from every flow id, code and cookie name.                        *)
ASSUME SignInAssumption ==
  /\ Flows # {} /\ IsFiniteSet(Flows)
  /\ Nonces # {}
  /\ StatusCodes \subseteq 100..599
  /\ {SI!None, SI!Empty, SI!NoRow} \cap (Flows \cup Nonces \cup Cookies) = {}

Init == SI!Init /\ PD!Init

(* One statement of signin_flow: the four calls in order.                 *)
SignInStep ==
  /\ phase = "signin"
  /\ \/ SI!ListAuthStrategies
     \/ SI!InitiateSignin
     \/ SI!GetOtpFromDb
     \/ SI!CompleteSignin
  /\ UNCHANGED pdVars

(* The service expires the flow while signin_flow runs.                   *)
ExpireFlow ==
  /\ SI!ExpireFlow
  /\ UNCHANGED pdVars

(* signin_flow returns to main.  On success complete_signin returns the   *)
(* jar's cookies, or None when the jar is empty, and session_info, which  *)
(* is non-empty whenever the jar is (a cookie comes with a Set-Cookie     *)
(* header) and may be non-empty without it; every failure returns         *)
(* (None, None).                                                          *)
SignInReturns ==
  /\ pc = "done"
  /\ LET ok == outcome = "authenticated"
         c  == ok /\ jar # {}
     IN \E s \in BOOLEAN :
          /\ ok = (c \/ s)
          /\ PD!SignInReturns(c, s)
  /\ UNCHANGED siVars

(* One probe block of main after a successful sign-in, or its exit.      *)
ProbeStep ==
  /\ phase \in {"probes", "exited"}
  /\ PD!Next
  /\ UNCHANGED siVars

Next ==
  \/ SignInStep
  \/ ExpireFlow
  \/ SignInReturns
  \/ ProbeStep

(* The script is one thread: each statement of main and signin_flow runs *)
(* once the previous one is done, provided every request returns (the     *)
(* model joins each request to its answer, and requests has no timeout).  *)
(* The service's expiry of a flow is not required to happen.              *)
Fairness ==
  /\ WF_vars(SignInStep)
  /\ WF_vars(SignInReturns)
  /\ WF_vars(ProbeStep)

Spec == Init /\ [][Next]_vars /\ Fairness

-----------------------------------------------------------------------------
(***************************************************************************)
(* Properties                                                              *)
(***************************************************************************)
(* Spec section 2 and 8: the script exits 0, and sends a probe, only      *)
(* after the service accepted the AuthCallback request; cookies that      *)
(* ListAuthStrategies or Authenticate left in the shared jar must not     *)
(* carry a failed callback through main's "if cookies or session_info".   *)
SessionGatesProbes ==
  (exitCode = 0 \/ calls # << >>) => sent # SI!NotSent /\ sent.accepted

(* Provided every request returns, the script terminates: signin_flow    *)
(* does not retry, and main runs each probe block once and exits.        *)
Termination == <>(exitCode # PD!Running)

=============================================================================
