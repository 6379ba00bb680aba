----------------------------- MODULE MainProofs -----------------------------
(***************************************************************************)
(* Proof that main() exits 0, and sends probes, only after the service    *)
(* accepted the AuthCallback request, for all constants.                   *)
(*                                                                         *)
(* The handshake's half is SignInProofs' invariant IInv, whose last       *)
(* conjunct says an "authenticated" outcome had an accepted callback;     *)
(* the steps of main other than signin_flow leave the handshake's         *)
(* variables alone, so IInv carries over.  Main's half, Gate, records     *)
(* what the return of signin_flow fixes: from then on the handshake is    *)
(* done, cookies and session_info never change, and they are truthy only *)
(* after an authenticated outcome; before it nothing was sent and the     *)
(* process has not exited; a request, or exit 0, needs them truthy.       *)
(***************************************************************************)
EXTENDS Main, TLAPS

SIP == INSTANCE SignInProofs


Gate ==
  /\ phase \in {"signin", "probes", "exited"}
  /\ cookies \in BOOLEAN /\ sessionInfo \in BOOLEAN
  /\ phase = "signin" => calls = << >> /\ exitCode = PD!Running
  /\ phase # "signin" =>
       /\ pc = "done"
       /\ (cookies \/ sessionInfo) => outcome = "authenticated"
  /\ (calls # << >> \/ exitCode = 0 \/ phase = "probes") =>
       cookies \/ sessionInfo

MInv == SIP!IInv /\ Gate

LEMMA InitMInv == Init => MInv
<1> SUFFICES ASSUME Init PROVE MInv
  OBVIOUS
<1>1. SIP!IInv
  <2>1. SIP!Init
    BY DEF Init, SI!Init, SIP!Init, SI!None, SIP!None, SI!NotSent,
       SIP!NotSent, SI!Empty, SIP!Empty, SI!NoRow, SIP!NoRow
  <2>2. QED
    BY <2>1, SIP!InitIInv, SignInAssumption, Zenon
       DEF SI!None, SIP!None, SI!Empty, SIP!Empty, SI!NoRow, SIP!NoRow,
           SIP!IsFiniteSet, IsFiniteSet
<1>2. Gate
  <2>1. PD!Running # 0
    BY DEF PD!Running
  <2>2. QED
    BY <2>1, Zenon DEF Init, PD!Init, Gate
<1>3. QED
  BY <1>1, <1>2 DEF MInv

(* A step of signin_flow, or the service's expiry, is a step of SignIn.  *)
LEMMA SignInStepIsStep ==
  ASSUME SignInStep \/ ExpireFlow
  PROVE  SIP!Next
BY DEF SignInStep, ExpireFlow, SIP!Next, SI!ListAuthStrategies,
       SIP!ListAuthStrategies, SI!InitiateSignin, SIP!InitiateSignin,
       SI!GetOtpFromDb, SIP!GetOtpFromDb, SI!CompleteSignin,
       SIP!CompleteSignin, SI!ExpireFlow, SIP!ExpireFlow,
       SI!None, SIP!None, SI!Empty, SIP!Empty, SI!NoRow, SIP!NoRow,
       SI!NotSent, SIP!NotSent, SI!Fail, SIP!Fail, SI!Responses,
       SIP!Responses, SI!NoResponse, SIP!NoResponse, SI!Failed, SIP!Failed,
       SI!RaisesForStatus, SIP!RaisesForStatus, SI!JarAfter, SIP!JarAfter,
       SI!ReportsAfter, SIP!ReportsAfter, SI!Report, SIP!Report,
       SI!ResponseTruthy, SIP!ResponseTruthy

(* Every block of main after sign-in keeps cookies and session_info, and *)
(* only the probes phase lets anything happen.                            *)
LEMMA ProbeStepFrame ==
  ASSUME ProbeStep
  PROVE  /\ UNCHANGED <<cookies, sessionInfo>>
         /\ phase' \in {"probes", "exited"}
         /\ phase = "probes" \/ UNCHANGED pdVars
<1>1. ~PD!SignInFlow
  BY DEF ProbeStep, PD!SignInFlow, PD!SignInReturns
<1>2. CASE phase = "probes"
  <2>1. CASE PD!SkipProbe
    BY <1>2, <2>1, Zenon DEF PD!SkipProbe
  <2>2. CASE PD!ListUsers
    BY <1>2, <2>2, Zenon DEF PD!ListUsers, PD!Ran
  <2>3. CASE PD!CreateUser
    BY <1>2, <2>3, Zenon DEF PD!CreateUser, PD!Ran
  <2>4. CASE PD!GetUser
    BY <1>2, <2>4, Zenon DEF PD!GetUser, PD!Ran
  <2>5. CASE PD!GetCurrentUser
    BY <1>2, <2>5, Zenon DEF PD!GetCurrentUser, PD!Ran
  <2>6. CASE PD!UpdateUser
    BY <1>2, <2>6, Zenon DEF PD!UpdateUser, PD!Ran, PD!Crash
  <2>7. CASE PD!UpdateCurrentUser
    BY <1>2, <2>7, Zenon DEF PD!UpdateCurrentUser, PD!Ran, PD!Crash
  <2>8. CASE PD!EnableUser
    BY <1>2, <2>8, Zenon DEF PD!EnableUser, PD!IdProbe, PD!Ran
  <2>9. CASE PD!DisableUser
    BY <1>2, <2>9, Zenon DEF PD!DisableUser, PD!IdProbe, PD!Ran
  <2>10. CASE PD!DeleteUser
    BY <1>2, <2>10, Zenon DEF PD!DeleteUser, PD!IdProbe, PD!Ran
  <2>11. CASE PD!ListUserGroups
    BY <1>2, <2>11, Zenon DEF PD!ListUserGroups, PD!IdProbe, PD!Ran
  <2>12. CASE PD!ListCurrentUserGroups
    BY <1>2, <2>12, Zenon DEF PD!ListCurrentUserGroups, PD!CurrentUserProbe, PD!Ran
  <2>13. CASE PD!ListOrganizationsByUser
    BY <1>2, <2>13, Zenon DEF PD!ListOrganizationsByUser, PD!IdProbe, PD!Ran
  <2>14. CASE PD!ListOrganizationsByCurrentUser
    BY <1>2, <2>14, Zenon DEF PD!ListOrganizationsByCurrentUser, PD!CurrentUserProbe, PD!Ran
  <2>15. CASE PD!ListProjectsByUser
    BY <1>2, <2>15, Zenon DEF PD!ListProjectsByUser, PD!IdProbe, PD!Ran
  <2>16. CASE PD!ListProjectsByCurrentUser
    BY <1>2, <2>16, Zenon DEF PD!ListProjectsByCurrentUser, PD!CurrentUserProbe, PD!Ran
  <2>17. CASE PD!ListServiceUsers
    BY <1>2, <2>17, Zenon DEF PD!ListServiceUsers, PD!Ran
  <2>18. CASE PD!ExitSuccess
    BY <1>2, <2>18, Zenon DEF PD!ExitSuccess
  <2>19. CASE PD!Terminated
    BY <1>2, <2>19, Zenon DEF PD!Terminated, PD!vars
  <2>20. QED
    BY <1>1, <2>1, <2>2, <2>3, <2>4, <2>5, <2>6, <2>7, <2>8, <2>9, <2>10, <2>11, <2>12, <2>13, <2>14, <2>15, <2>16, <2>17, <2>18, <2>19 DEF ProbeStep, PD!Next
<1>3. CASE phase = "exited"
  BY <1>3 DEF ProbeStep, PD!Next, PD!SignInFlow, PD!SignInReturns,
     PD!SkipProbe, PD!Ran, PD!ListUsers,
     PD!CreateUser, PD!GetUser, PD!GetCurrentUser, PD!UpdateUser,
     PD!UpdateCurrentUser, PD!IdProbe, PD!EnableUser,
     PD!DisableUser, PD!DeleteUser, PD!ListUserGroups,
     PD!ListCurrentUserGroups, PD!ListOrganizationsByUser,
     PD!ListOrganizationsByCurrentUser, PD!ListProjectsByUser,
     PD!ListProjectsByCurrentUser, PD!CurrentUserProbe,
     PD!ListServiceUsers, PD!ExitSuccess, PD!Terminated, PD!vars, pdVars
<1>4. QED
  BY <1>2, <1>3 DEF ProbeStep

(* Steps of main other than signin_flow leave the handshake's state.     *)
LEMMA SignInFrozen ==
  ASSUME SIP!IInv, UNCHANGED siVars
  PROVE  SIP!IInv'
BY SIP!NextIInv, SignInAssumption, Zenon
   DEF siVars, SIP!vars, SI!None, SIP!None, SI!Empty, SIP!Empty, SI!NoRow,
       SIP!NoRow, SIP!IsFiniteSet, IsFiniteSet

LEMMA NextMInv == MInv /\ [Next]_vars => MInv'
<1> SUFFICES ASSUME MInv, [Next]_vars PROVE MInv'
  OBVIOUS
<1>1. CASE SignInStep \/ ExpireFlow
  <2>1. phase = "signin" /\ UNCHANGED pdVars
    <3>1. CASE SignInStep
      BY <3>1 DEF SignInStep
    <3>2. CASE ExpireFlow
      BY <3>2 DEF ExpireFlow, SI!ExpireFlow, MInv, Gate
    <3>3. QED
      BY <1>1, <3>1, <3>2
  <2>2. SIP!IInv'
    BY <1>1, SignInStepIsStep, SIP!NextIInv, SignInAssumption, Zenon
       DEF MInv, SI!None, SIP!None, SI!Empty, SIP!Empty, SI!NoRow,
           SIP!NoRow, SIP!IsFiniteSet, IsFiniteSet
  <2>3. Gate'
    BY <2>1, Zenon DEF MInv, Gate, pdVars
  <2>4. QED
    BY <2>2, <2>3 DEF MInv
<1>2. CASE SignInReturns
  <2>1. SIP!IInv'
    BY <1>2, SignInFrozen DEF SignInReturns, MInv
  <2>2. PICK s \in BOOLEAN :
          LET ok == outcome = "authenticated"
              c  == ok /\ jar # {}
          IN  /\ ok = (c \/ s)
              /\ PD!SignInReturns(c, s)
    BY <1>2 DEF SignInReturns
  <2> DEFINE c == outcome = "authenticated" /\ jar # {}
  <2>3. /\ pc' = "done" /\ outcome' = outcome
        /\ phase = "signin" /\ exitCode = PD!Running /\ calls' = << >>
        /\ cookies' = c /\ sessionInfo' = s
        /\ (outcome = "authenticated") = (c \/ s)
    BY <1>2, <2>2 DEF SignInReturns, PD!SignInReturns, siVars, MInv, Gate
  <2>4. PD!Running # 0 /\ 1 # 0
    BY DEF PD!Running
  <2>5. Gate'
    <3>1. CASE c \/ s
      <4>1. phase' = "probes" /\ exitCode' = exitCode
        BY <2>2, <3>1 DEF PD!SignInReturns
      <4>2. QED
        BY <2>3, <2>4, <3>1, <4>1, Zenon DEF Gate
    <3>2. CASE ~(c \/ s)
      <4>1. phase' = "exited" /\ exitCode' = 1
        BY <2>2, <3>2 DEF PD!SignInReturns
      <4>2. QED
        BY <2>3, <2>4, <3>2, <4>1, Zenon DEF Gate
    <3>3. QED
      BY <3>1, <3>2
  <2>6. QED
    BY <2>1, <2>5 DEF MInv
<1>3. CASE ProbeStep
  <2>1. SIP!IInv'
    BY <1>3, SignInFrozen DEF ProbeStep, MInv
  <2>2. /\ UNCHANGED <<cookies, sessionInfo>>
        /\ phase' \in {"probes", "exited"}
        /\ phase = "probes" \/ UNCHANGED pdVars
    BY <1>3, ProbeStepFrame
  <2>3. phase # "signin" /\ UNCHANGED siVars
    BY <1>3 DEF ProbeStep
  <2>4. Gate'
    BY <2>2, <2>3, Zenon DEF MInv, Gate, pdVars, siVars
  <2>5. QED
    BY <2>1, <2>4 DEF MInv
<1>4. CASE UNCHANGED vars
  <2>1. SIP!IInv'
    BY <1>4, SignInFrozen DEF vars, MInv
  <2>2. Gate'
    BY <1>4, Zenon DEF vars, siVars, pdVars, MInv, Gate
  <2>3. QED
    BY <2>1, <2>2 DEF MInv
<1>5. QED
  BY <1>1, <1>2, <1>3, <1>4 DEF Next

(* Spec sections 2 and 8, for every set of flows, codes, cookies,        *)
(* statuses and command lines: main exits 0, or sends a probe, only after *)
(* the service accepted the AuthCallback request.                         *)
THEOREM SessionGated == Spec => []SessionGatesProbes
<1>1. MInv => SessionGatesProbes
  <2> SUFFICES ASSUME MInv PROVE SessionGatesProbes
    OBVIOUS
  <2>1. PD!Running # 0
    BY DEF PD!Running
  <2>2. (exitCode = 0 \/ calls # << >>) => outcome = "authenticated"
    BY <2>1, Zenon DEF MInv, Gate
  <2>3. outcome = "authenticated" => sent # SIP!NotSent /\ sent.accepted
    BY DEF MInv, SIP!IInv
  <2>4. QED
    BY <2>2, <2>3 DEF SessionGatesProbes, SI!NotSent, SIP!NotSent,
       SI!None, SIP!None
<1>2. QED
  BY InitMInv, NextMInv, <1>1, PTL DEF Spec

=============================================================================
