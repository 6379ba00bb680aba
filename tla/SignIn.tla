------------------------------- MODULE SignIn -------------------------------
(***************************************************************************)
(* The sign-in handshake of scripts/signin_helper.py: FrontierSignInHelper *)
(* .signin_flow and the four calls it makes in order,                      *)
(*                                                                         *)
(*   list_auth_strategies -> initiate_signin -> get_otp_from_db            *)
(*                        -> complete_signin                               *)
(*                                                                         *)
(* together with the part of the Frontier service and its flows table     *)
(* that the script observes.  The three HTTP calls go through one          *)
(* requests.Session (self.session), whose cookie jar keeps every cookie    *)
(* any response has set, error responses included.  The service and the   *)
(* database are the environment: each call's outcome is a nondeterministic *)
(* choice among what they can answer.                                      *)
(***************************************************************************)
EXTENDS Integers, FiniteSets

CONSTANTS
  Flows,        \* flow ids (UUIDs) the service can hand out
  Nonces,       \* non-empty OTP codes stored in flows.nonce
  Cookies,      \* cookie names the service can set
  StatusCodes   \* HTTP status codes the service can answer with

ASSUME FlowsAssumption == Flows # {} /\ IsFiniteSet(Flows)
ASSUME NoncesAssumption == Nonces # {}
ASSUME StatusAssumption == StatusCodes \subseteq 100..599

(* Python None, and the two values of flows.nonce that are not a usable   *)
(* code: an empty or NULL nonce ("if nonce:" fails), and no row at all.  *)
None  == "None"
Empty == "Empty"
NoRow == "NoRow"

ASSUME SentinelAssumption ==
  {None, Empty, NoRow} \cap (Flows \cup Nonces \cup Cookies) = {}

VARIABLES
  pc,           \* the statement signin_flow is at
  jar,          \* names of the cookies in self.session.cookies
  flowId,       \* flow_id returned by initiate_signin (state field)
  code,         \* code returned by get_otp_from_db
  sent,         \* the AuthCallback request [state, code], once sent,
                \* with the service's verdict on it (accepted)
  db,           \* flows table: id -> nonce, Empty or NoRow
  expired,      \* flows the service no longer accepts (expires_at passed)
  callbackSet,  \* cookies set by the AuthCallback response itself
  outcome,      \* "pending", "authenticated" or "failed"
  reports       \* error reports printed by the except handlers

vars == <<pc, jar, flowId, code, sent, db, expired, callbackSet, outcome,
          reports>>

Calls == {"ListAuthStrategies", "Authenticate", "AuthCallback"}
Phases == {"strategies", "initiate", "lookup", "callback", "done"}

(***************************************************************************)
(* An HTTP exchange: no response (transport error, requests raises         *)
(* ConnectionError with e.response = None), written as the pseudo-status  *)
(* 0, or a response with a status and the cookies its Set-Cookie headers  *)
(* carry.                                                                  *)
(***************************************************************************)
NoResponse == [status |-> 0, cookies |-> {}]
Responses == [status : StatusCodes, cookies : SUBSET Cookies]

(* response.raise_for_status() raises for 4xx and 5xx. *)
RaisesForStatus(s) == 400 <= s /\ s < 600

(* bool(response) is response.ok, i.e. FALSE exactly when                 *)
(* raise_for_status would raise.                                          *)
ResponseTruthy(s) == ~RaisesForStatus(s)

Failed(r) == r = NoResponse \/ RaisesForStatus(r.status)

(* Session.send stores the cookies of every response in the jar before    *)
(* raise_for_status is called.                                            *)
JarAfter(r) == jar \cup r.cookies

(***************************************************************************)
(* The except requests.RequestException handler:                          *)
(*   print error; if hasattr(e, 'response') and e.response: print body    *)
(***************************************************************************)
Report(call, r) ==
  [call      |-> call,
   response  |-> r # NoResponse,
   bodyShown |-> r # NoResponse /\ ResponseTruthy(r.status)]

ReportsAfter(call, r) ==
  IF Failed(r) THEN reports \cup {Report(call, r)} ELSE reports

(* sent before the AuthCallback request has gone out.                     *)
NotSent == [state |-> None, code |-> None, accepted |-> FALSE]

Fail == /\ pc' = "done"
        /\ outcome' = "failed"

-----------------------------------------------------------------------------
Init ==
  /\ pc = "strategies"
  /\ jar = {}
  /\ flowId = None
  /\ code = None
  /\ sent = NotSent
  /\ db \in [Flows -> Nonces \cup {Empty, NoRow}]
  /\ \E f \in Flows : db[f] = NoRow
  /\ expired = {}
  /\ callbackSet = {}
  /\ outcome = "pending"
  /\ reports = {}

(* Step 0: list_auth_strategies.  Its failure is printed and ignored.     *)
ListAuthStrategies ==
  /\ pc = "strategies"
  /\ \E r \in Responses \cup {NoResponse} :
       /\ jar' = JarAfter(r)
       /\ reports' = ReportsAfter("ListAuthStrategies", r)
  /\ pc' = "initiate"
  /\ UNCHANGED <<flowId, code, sent, db, expired, callbackSet, outcome>>

(* Step 1: initiate_signin, and signin_flow's "if not flow_id" check.  On *)
(* a 2xx answer the service has created a fresh flow row whose nonce the  *)
(* script's database connection sees as stored, empty, or not (yet)       *)
(* there; the body may lack the state field.                              *)
InitiateSignin ==
  /\ pc = "initiate"
  /\ \E r \in Responses \cup {NoResponse} :
       /\ jar' = JarAfter(r)
       /\ reports' = ReportsAfter("Authenticate", r)
       /\ IF Failed(r)
            THEN /\ Fail
                 /\ UNCHANGED <<flowId, db>>
            ELSE \/ /\ Fail
                    /\ UNCHANGED <<flowId, db>>
                 \/ \E f \in Flows, n \in Nonces \cup {Empty, NoRow} :
                       /\ db[f] = NoRow
                       /\ db' = [db EXCEPT ![f] = n]
                       /\ flowId' = f
                       /\ pc' = "lookup"
                       /\ UNCHANGED outcome
  /\ UNCHANGED <<code, sent, expired, callbackSet>>

(* Mutants of get_otp_from_db, each a plausible slip in that code:         *)
(* the "if nonce:" check dropped, the row picked without "WHERE id = %s",  *)
(* and signin_flow retrying the whole flow when no code is found.         *)
GetOtpFromDbNoNonceCheck ==
  /\ pc = "lookup"
  /\ \E dbUp \in BOOLEAN :
       IF dbUp /\ db[flowId] # NoRow
         THEN /\ code' = db[flowId]
              /\ pc' = "callback"
              /\ UNCHANGED outcome
         ELSE /\ Fail
              /\ UNCHANGED code
  /\ UNCHANGED <<jar, flowId, sent, db, expired, callbackSet, reports>>

GetOtpFromDbAnyRow ==
  /\ pc = "lookup"
  /\ \/ \E g \in Flows :
          /\ db[g] \in Nonces
          /\ code' = db[g]
          /\ pc' = "callback"
          /\ UNCHANGED outcome
     \/ /\ Fail
        /\ UNCHANGED code
  /\ UNCHANGED <<jar, flowId, sent, db, expired, callbackSet, reports>>

GetOtpFromDbRetry ==
  /\ pc = "lookup"
  /\ \E dbUp \in BOOLEAN :
       IF dbUp /\ db[flowId] \in Nonces
         THEN /\ code' = db[flowId]
              /\ pc' = "callback"
         ELSE /\ pc' = "initiate"
              /\ UNCHANGED code
  /\ UNCHANGED <<jar, flowId, sent, db, expired, callbackSet, reports, outcome>>

(* Step 2: get_otp_from_db(flow_id): SELECT ... FROM flows WHERE id = %s; *)
(* a connection or query error is caught and returns None.                *)
GetOtpFromDb ==
  /\ pc = "lookup"
  /\ \E dbUp \in BOOLEAN :
       IF dbUp /\ db[flowId] \in Nonces
         THEN /\ code' = db[flowId]
              /\ pc' = "callback"
              /\ UNCHANGED outcome
         ELSE /\ Fail
              /\ UNCHANGED code
  /\ UNCHANGED <<jar, flowId, sent, db, expired, callbackSet, reports>>

(* Mutant of complete_signin: the cookies of the jar returned whatever the *)
(* status, as if the except branch also read self.session.cookies.        *)
CompleteSigninIgnoreStatus ==
  /\ pc = "callback"
  /\ LET accepted == code = db[flowId] /\ flowId \notin expired
     IN /\ sent' = [state |-> flowId, code |-> code, accepted |-> accepted]
        /\ \E r \in Responses \cup {NoResponse}, hdr \in BOOLEAN :
             /\ ~accepted => Failed(r)
             /\ r # NoResponse /\ r.cookies # {} => hdr
             /\ jar' = JarAfter(r)
             /\ reports' = ReportsAfter("AuthCallback", r)
             /\ callbackSet' = r.cookies
             /\ pc' = "done"
             /\ outcome' = IF jar' # {} \/ (~Failed(r) /\ hdr)
                             THEN "authenticated" ELSE "failed"
  /\ UNCHANGED <<flowId, code, db, expired>>

(* Step 3: complete_signin, and signin_flow's "if cookies or              *)
(* session_info" check.  The service accepts the request when the code is *)
(* the flow's nonce and the flow has not expired; on an accepted request  *)
(* it may still fail.  On 2xx the returned cookies are the whole jar, and *)
(* session_info holds the headers whose name contains "session" or        *)
(* "cookie" (Set-Cookie among them whenever a cookie is set).             *)
CompleteSignin ==
  /\ pc = "callback"
  /\ LET accepted == code = db[flowId] /\ flowId \notin expired
     IN /\ sent' = [state |-> flowId, code |-> code, accepted |-> accepted]
        /\ \E r \in Responses \cup {NoResponse}, hdr \in BOOLEAN :
             /\ ~accepted => Failed(r)
             /\ r # NoResponse /\ r.cookies # {} => hdr
             /\ jar' = JarAfter(r)
             /\ reports' = ReportsAfter("AuthCallback", r)
             /\ callbackSet' = r.cookies
             /\ pc' = "done"
             /\ outcome' = IF ~Failed(r) /\ (jar' # {} \/ hdr)
                             THEN "authenticated" ELSE "failed"
  /\ UNCHANGED <<flowId, code, db, expired>>

(* The service expires a stored flow (expires_at passes) at any time.    *)
ExpireFlow ==
  /\ pc # "done"
  /\ \E f \in Flows \ expired :
       /\ db[f] # NoRow
       /\ expired' = expired \cup {f}
  /\ UNCHANGED <<pc, jar, flowId, code, sent, db, callbackSet, outcome,
                 reports>>

(* signin_flow has returned; main exits.                                  *)
Terminated ==
  /\ pc = "done"
  /\ UNCHANGED vars

Next ==
  \/ ListAuthStrategies
  \/ InitiateSignin
  \/ GetOtpFromDb
  \/ CompleteSignin
  \/ ExpireFlow
  \/ Terminated

Spec == Init /\ [][Next]_vars

-----------------------------------------------------------------------------
(***************************************************************************)
(* Properties                                                              *)
(***************************************************************************)
Sent == [state : Flows, code : Nonces \cup {Empty, NoRow}, accepted : BOOLEAN]
Report_ == [call : Calls, response : BOOLEAN, bodyShown : BOOLEAN]

TypeOK ==
  /\ pc \in Phases
  /\ jar \subseteq Cookies
  /\ flowId \in Flows \cup {None}
  /\ code \in Nonces \cup {None}
  /\ sent \in Sent \cup {NotSent}
  /\ db \in [Flows -> Nonces \cup {Empty, NoRow}]
  /\ expired \subseteq Flows
  /\ callbackSet \subseteq Cookies
  /\ outcome \in {"pending", "authenticated", "failed"}
  /\ reports \subseteq Report_

(* Spec section 8: the AuthCallback request carries the flow id that     *)
(* initiate_signin returned and, as code, the nonce stored in the flows   *)
(* row with exactly that id; a lookup happens only after a flow id was    *)
(* returned and a callback only after a non-empty code was read.          *)
CallbackUsesIssuedFlow ==
  /\ pc \in {"lookup", "callback"} => flowId # None
  /\ pc = "callback" => code \in Nonces
  /\ sent # NotSent =>
       /\ sent.state = flowId
       /\ sent.code = db[flowId]
       /\ sent.code \in Nonces

(* signin_flow reports success (main then exits 0) only when the service  *)
(* accepted the AuthCallback: cookies left in the jar by earlier calls    *)
(* must not turn a rejected or failed callback into a sign-in.            *)
AuthenticatedOnlyWhenAccepted ==
  outcome = "authenticated" => sent # NotSent /\ sent.accepted

(* Spec section 3: the session is the set of cookies returned by the      *)
(* callback response, so a successful sign-in holds at least one cookie   *)
(* that AuthCallback itself set.                                          *)
SessionFromCallback ==
  outcome = "authenticated" => callbackSet # {} /\ callbackSet \subseteq jar

(* Spec section 7: an HTTP error is reported with the response body when  *)
(* a response is available.                                               *)
ErrorBodyReported ==
  \A rep \in reports : rep.response => rep.bodyShown


-----------------------------------------------------------------------------
(***************************************************************************)
(* Refinement: the handshake implements the state machine of Handshake.   *)
(* list_auth_strategies is a stutter of it; the phase is read off pc and  *)
(* the outcome signin_flow returned.                                      *)
(***************************************************************************)
AbsPhase ==
  CASE outcome = "authenticated"         -> "AUTHENTICATED"
    [] outcome = "failed"                -> "FAILED"
    [] pc \in {"strategies", "initiate"} -> "INIT"
    [] pc = "lookup"                     -> "FLOW_STARTED"
    [] OTHER                             -> "CODE_RETRIEVED"

HS == INSTANCE Handshake WITH phase <- AbsPhase, flow <- flowId

(* Every behaviour of signin_flow, seen through AbsPhase, is a behaviour  *)
(* of the section 4 state machine: no step skips the OTP lookup, retries, *)
(* or authenticates without the service accepting the issued flow's code. *)
HandshakeRefined == HS!Spec

=============================================================================
