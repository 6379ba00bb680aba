---------------------------- MODULE SignInProofs ----------------------------
(***************************************************************************)
(* Proofs about the sign-in handshake, for all flow ids, nonces, cookie   *)
(* names and status codes.                                                 *)
(*                                                                         *)
(* CallbackUsesIssuedFlow is not inductive by itself: it speaks of the     *)
(* flow row only once the callback is sent, and a step may change db.  The *)
(* strengthening IInv records where in signin_flow each variable is set:  *)
(* before initiate_signin returns there is no flow id and no request; from *)
(* the lookup on the flow id is fixed; at the callback the code is the    *)
(* row's nonce.  Since only InitiateSignin writes db, and only when no    *)
(* flow id has been taken yet, the row read stays the row sent.           *)
(***************************************************************************)
EXTENDS SignIn, TLAPS

IInv ==
  /\ TypeOK
  /\ pc \in {"strategies", "initiate"} => flowId = None /\ sent = NotSent
  /\ pc \in {"lookup", "callback"} => flowId \in Flows /\ sent = NotSent
  /\ pc = "callback" => code = db[flowId] /\ code \in Nonces
  /\ sent # NotSent =>
       /\ flowId \in Flows
       /\ sent.state = flowId
       /\ sent.code = db[flowId]
       /\ sent.code \in Nonces
  /\ outcome = "authenticated" => sent # NotSent /\ sent.accepted

(* The sentinels differ from every flow id, nonce and cookie name.        *)
LEMMA Sentinels ==
  /\ None \notin Flows /\ None \notin Nonces
  /\ Empty \notin Nonces /\ NoRow \notin Nonces
  /\ None # Empty /\ None # NoRow /\ Empty # NoRow
BY SentinelAssumption DEF None, Empty, NoRow

(* Every pseudo-response leaves the jar and the reports well typed.       *)
LEMMA ResponseTyping ==
  ASSUME NEW r \in Responses \cup {NoResponse}, NEW call \in Calls,
         NEW J \in SUBSET Cookies, NEW R \in SUBSET Report_
  PROVE  /\ r.cookies \subseteq Cookies
         /\ J \cup r.cookies \subseteq Cookies
         /\ Report(call, r) \in Report_
         /\ (IF Failed(r) THEN R \cup {Report(call, r)} ELSE R)
              \subseteq Report_
<1>1. r.cookies \subseteq Cookies
  <2>1. CASE r = NoResponse
    BY <2>1 DEF NoResponse
  <2>2. CASE r \in Responses
    BY <2>2 DEF Responses
  <2>3. QED
    BY <2>1, <2>2
<1>2. Report(call, r) \in Report_
  BY Zenon DEF Report, Report_
<1>3. QED
  BY <1>1, <1>2

LEMMA InitIInv == Init => IInv
BY Sentinels DEF Init, IInv, TypeOK, Sent, NotSent, Phases

LEMMA NextIInv == IInv /\ [Next]_vars => IInv'
<1> SUFFICES ASSUME IInv, [Next]_vars PROVE IInv'
  OBVIOUS
<1> USE Sentinels
<1>1. CASE ListAuthStrategies
  <2>1. PICK r \in Responses \cup {NoResponse} :
          /\ jar' = JarAfter(r)
          /\ reports' = ReportsAfter("ListAuthStrategies", r)
    BY <1>1 DEF ListAuthStrategies
  <2>2. TypeOK'
    BY <1>1, <2>1, ResponseTyping
       DEF IInv, TypeOK, ListAuthStrategies, JarAfter, ReportsAfter, Calls,
           Phases
  <2>3. QED
    BY <1>1, <2>2 DEF IInv, ListAuthStrategies, NotSent
<1>2. CASE InitiateSignin
  <2>1. PICK r \in Responses \cup {NoResponse} :
          /\ jar' = JarAfter(r)
          /\ reports' = ReportsAfter("Authenticate", r)
          /\ IF Failed(r)
               THEN /\ Fail
                    /\ UNCHANGED <<flowId, db>>
               ELSE \/ /\ Fail
                       /\ UNCHANGED <<flowId, db>>
                    \/ \E f \in Flows, n \in Nonces \cup {Empty, NoRow} :
                          /\ db[f] = NoRow
                          /\ db' = [db EXCEPT ![f] = n]
                          /\ flowId' = f
                          /\ pc' = "lookup"
                          /\ UNCHANGED outcome
    BY <1>2 DEF InitiateSignin
  <2>2. /\ jar' \subseteq Cookies
        /\ reports' \subseteq Report_
    BY <2>1, ResponseTyping DEF IInv, TypeOK, JarAfter, ReportsAfter, Calls
  <2>3. CASE Fail /\ UNCHANGED <<flowId, db>>
    BY <1>2, <2>2, <2>3
       DEF IInv, TypeOK, InitiateSignin, Fail, Phases, NotSent
  <2>4. CASE \E f \in Flows, n \in Nonces \cup {Empty, NoRow} :
                /\ db[f] = NoRow
                /\ db' = [db EXCEPT ![f] = n]
                /\ flowId' = f
                /\ pc' = "lookup"
                /\ UNCHANGED outcome
    BY <1>2, <2>2, <2>4 DEF IInv, TypeOK, InitiateSignin, Phases, NotSent
  <2>5. QED
    BY <2>1, <2>3, <2>4
<1>3. CASE GetOtpFromDb
  BY <1>3 DEF IInv, TypeOK, GetOtpFromDb, Fail, Phases, NotSent
<1>4. CASE CompleteSignin
  <2> DEFINE accepted == code = db[flowId] /\ flowId \notin expired
  <2>1. PICK r \in Responses \cup {NoResponse}, hdr \in BOOLEAN :
          /\ sent' = [state |-> flowId, code |-> code, accepted |-> accepted]
          /\ ~accepted => Failed(r)
          /\ jar' = JarAfter(r)
          /\ reports' = ReportsAfter("AuthCallback", r)
          /\ callbackSet' = r.cookies
          /\ pc' = "done"
          /\ outcome' = IF ~Failed(r) /\ (jar' # {} \/ hdr)
                          THEN "authenticated" ELSE "failed"
    BY <1>4 DEF CompleteSignin
  <2>2. /\ jar' \subseteq Cookies
        /\ reports' \subseteq Report_
        /\ callbackSet' \subseteq Cookies
    BY <2>1, ResponseTyping DEF IInv, TypeOK, JarAfter, ReportsAfter, Calls
  <2>3. /\ flowId \in Flows
        /\ code = db[flowId]
        /\ code \in Nonces
    BY <1>4 DEF IInv, CompleteSignin
  <2>4. sent' \in Sent /\ sent' # NotSent
    BY <2>1, <2>3 DEF Sent, NotSent
  <2>5. outcome' = "authenticated" => sent'.accepted
    BY <2>1
  <2>6. QED
    BY <1>4, <2>1, <2>2, <2>3, <2>4, <2>5
       DEF IInv, TypeOK, CompleteSignin, Phases
<1>5. CASE ExpireFlow
  BY <1>5 DEF IInv, TypeOK, ExpireFlow
<1>6. CASE Terminated
  BY <1>6 DEF IInv, TypeOK, Terminated, vars
<1>7. CASE UNCHANGED vars
  BY <1>7 DEF IInv, TypeOK, vars
<1>8. QED
  BY <1>1, <1>2, <1>3, <1>4, <1>5, <1>6, <1>7 DEF Next

(* Type correctness of the handshake model.                               *)
THEOREM TypeCorrect == Spec => []TypeOK
<1>1. IInv => TypeOK
  BY DEF IInv
<1>2. QED
  BY InitIInv, NextIInv, <1>1, PTL DEF Spec

(* In every run of signin_flow, the AuthCallback request carries the flow *)
(* id initiate_signin returned and the nonce stored for exactly that flow, *)
(* and the lookup and callback only follow a successful previous step.   *)
THEOREM IssuedFlowUsed == Spec => []CallbackUsesIssuedFlow
<1>1. IInv => CallbackUsesIssuedFlow
  BY Sentinels DEF IInv, TypeOK, CallbackUsesIssuedFlow
<1>2. QED
  BY InitIInv, NextIInv, <1>1, PTL DEF Spec

(* signin_flow reports success only for a callback the service accepted. *)
THEOREM OnlyAcceptedAuthenticates == Spec => []AuthenticatedOnlyWhenAccepted
<1>1. IInv => AuthenticatedOnlyWhenAccepted
  BY DEF IInv, AuthenticatedOnlyWhenAccepted
<1>2. QED
  BY InitIInv, NextIInv, <1>1, PTL DEF Spec

-----------------------------------------------------------------------------
(***************************************************************************)
(* Refinement of the section 4 state machine.  The phase AbsPhase is read *)
(* off pc while outcome is pending, so the proof also needs that outcome  *)
(* is pending exactly until signin_flow returns (pc = "done").           *)
(***************************************************************************)
RInv ==
  /\ IInv
  /\ pc # "done" <=> outcome = "pending"

habs == <<AbsPhase, flowId, code, db, expired>>

LEMMA InitRInv == Init => RInv
BY InitIInv DEF Init, RInv

LEMMA NextRInv == RInv /\ [Next]_vars => RInv'
<1> SUFFICES ASSUME RInv, [Next]_vars PROVE RInv'
  OBVIOUS
<1>1. IInv'
  BY NextIInv DEF RInv
<1>2. (pc # "done" <=> outcome = "pending")'
  BY DEF RInv, Next, vars, ListAuthStrategies, InitiateSignin, GetOtpFromDb,
         CompleteSignin, ExpireFlow, Terminated, Fail
<1>3. QED
  BY <1>1, <1>2 DEF RInv

(* Initial states of the handshake are initial states of section 4.       *)
LEMMA InitRefines == Init => HS!Init
BY DEF Init, HS!Init, AbsPhase, HS!None, HS!Empty, HS!NoRow, None, Empty, NoRow

(* Every step of signin_flow or of the service is a step of the section  *)
(* 4 state machine or leaves its state unchanged.                         *)
LEMMA NextRefines == RInv /\ [Next]_vars => [HS!Next]_habs
<1> SUFFICES ASSUME RInv, [Next]_vars PROVE [HS!Next]_habs
  OBVIOUS
<1> USE Sentinels
<1>1. CASE ListAuthStrategies
  BY <1>1 DEF ListAuthStrategies, RInv, habs, AbsPhase
<1>2. CASE InitiateSignin
  <2>1. AbsPhase = "INIT"
    BY <1>2 DEF InitiateSignin, RInv, AbsPhase
  <2>2. CASE Fail /\ UNCHANGED <<flowId, db>>
    BY <1>2, <2>1, <2>2 DEF InitiateSignin, Fail, HS!Next, HS!Abort, AbsPhase
  <2>3. CASE \E f \in Flows, n \in Nonces \cup {Empty, NoRow} :
                /\ db[f] = NoRow
                /\ db' = [db EXCEPT ![f] = n]
                /\ flowId' = f
                /\ pc' = "lookup"
                /\ UNCHANGED outcome
    <3>1. PICK f \in Flows, n \in Nonces \cup {Empty, NoRow} :
                /\ db[f] = NoRow
                /\ db' = [db EXCEPT ![f] = n]
                /\ flowId' = f
                /\ pc' = "lookup"
                /\ UNCHANGED outcome
      BY <2>3
    <3>2. AbsPhase' = "FLOW_STARTED"
      BY <1>2, <2>1, <3>1 DEF RInv, AbsPhase
    <3>3. HS!StartFlow
      BY <1>2, <2>1, <3>1, <3>2
         DEF InitiateSignin, HS!StartFlow, HS!Empty, HS!NoRow, Empty, NoRow
    <3>4. QED
      BY <3>3 DEF HS!Next
  <2>4. QED
    BY <1>2, <2>2, <2>3 DEF InitiateSignin
<1>3. CASE GetOtpFromDb
  <2>1. AbsPhase = "FLOW_STARTED"
    BY <1>3 DEF GetOtpFromDb, RInv, AbsPhase
  <2>2. CASE pc' = "callback"
    <3>1. db[flowId] \in Nonces /\ code' = db[flowId] /\ UNCHANGED outcome
      BY <1>3, <2>2 DEF GetOtpFromDb, Fail
    <3>2. AbsPhase' = "CODE_RETRIEVED"
      BY <1>3, <2>2, <3>1 DEF GetOtpFromDb, RInv, AbsPhase
    <3>3. QED
      BY <1>3, <2>1, <3>1, <3>2 DEF GetOtpFromDb, HS!Next, HS!RetrieveCode
  <2>3. CASE pc' # "callback"
    <3>1. outcome' = "failed" /\ pc' = "done" /\ UNCHANGED code
      BY <1>3, <2>3 DEF GetOtpFromDb, Fail
    <3>2. AbsPhase' = "FAILED"
      BY <3>1 DEF AbsPhase
    <3>3. QED
      BY <1>3, <2>1, <3>1, <3>2 DEF GetOtpFromDb, HS!Next, HS!Abort
  <2>4. QED
    BY <2>2, <2>3
<1>4. CASE CompleteSignin
  <2>1. AbsPhase = "CODE_RETRIEVED"
    BY <1>4 DEF CompleteSignin, RInv, AbsPhase
  <2>2. outcome' = "authenticated" => code = db[flowId] /\ flowId \notin expired
    BY <1>4 DEF CompleteSignin
  <2>3. outcome' \in {"authenticated", "failed"}
    BY <1>4 DEF CompleteSignin
  <2>4. QED
    BY <1>4, <2>1, <2>2, <2>3 DEF CompleteSignin, HS!Next, HS!Authenticate,
                                  HS!Abort, AbsPhase
<1>5. CASE ExpireFlow
  <2>1. AbsPhase \in {"INIT", "FLOW_STARTED", "CODE_RETRIEVED"}
    BY <1>5 DEF ExpireFlow, RInv, AbsPhase
  <2>2. AbsPhase' = AbsPhase
    BY <1>5 DEF ExpireFlow, AbsPhase
  <2>3. QED
    BY <1>5, <2>1, <2>2 DEF ExpireFlow, HS!Next, HS!Expire, HS!NoRow, NoRow
<1>6. CASE Terminated \/ UNCHANGED vars
  BY <1>6 DEF Terminated, vars, habs, AbsPhase
<1>7. QED
  BY <1>1, <1>2, <1>3, <1>4, <1>5, <1>6 DEF Next

(* signin_flow implements the section 4 state machine: it never skips    *)
(* the OTP lookup, never retries, and reaches AUTHENTICATED only with the *)
(* issued flow's code while that flow is live.                            *)
THEOREM Refinement == Spec => HandshakeRefined
<1>1. Init => RInv /\ HS!Init
  BY InitRInv, InitRefines
<1>2. RInv /\ [Next]_vars => RInv' /\ [HS!Next]_habs
  BY NextRInv, NextRefines
<1>3. QED
  BY <1>1, <1>2, PTL DEF Spec, HandshakeRefined, HS!Spec, habs

=============================================================================
