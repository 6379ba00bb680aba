------------------------------ MODULE Handshake ------------------------------
(***************************************************************************)
(* What the sign-in handshake promises, as the state machine of spec       *)
(* section 4:                                                              *)
(*                                                                         *)
(*   INIT -> FLOW_STARTED -> CODE_RETRIEVED -> AUTHENTICATED               *)
(*   any non-terminal state -> FAILED                                      *)
(*                                                                         *)
(* with no retry.  A flow is started by the service creating a fresh row  *)
(* in its flows table; the code retrieved is that row's nonce; the         *)
(* handshake authenticates only with that code while the flow is live.   *)
(***************************************************************************)
CONSTANTS Flows, Nonces

VARIABLES phase, flow, code, db, expired

None  == "None"
Empty == "Empty"
NoRow == "NoRow"

Phase == {"INIT", "FLOW_STARTED", "CODE_RETRIEVED", "AUTHENTICATED", "FAILED"}

Init ==
  /\ phase = "INIT"
  /\ flow = None
  /\ code = None
  /\ db \in [Flows -> Nonces \cup {Empty, NoRow}]
  /\ expired = {}

StartFlow ==
  /\ phase = "INIT"
  /\ \E f \in Flows, n \in Nonces \cup {Empty, NoRow} :
       /\ db[f] = NoRow
       /\ db' = [db EXCEPT ![f] = n]
       /\ flow' = f
  /\ phase' = "FLOW_STARTED"
  /\ UNCHANGED <<code, expired>>

RetrieveCode ==
  /\ phase = "FLOW_STARTED"
  /\ db[flow] \in Nonces
  /\ code' = db[flow]
  /\ phase' = "CODE_RETRIEVED"
  /\ UNCHANGED <<flow, db, expired>>

Authenticate ==
  /\ phase = "CODE_RETRIEVED"
  /\ code = db[flow]
  /\ flow \notin expired
  /\ phase' = "AUTHENTICATED"
  /\ UNCHANGED <<flow, code, db, expired>>

Abort ==
  /\ phase \in {"INIT", "FLOW_STARTED", "CODE_RETRIEVED"}
  /\ phase' = "FAILED"
  /\ UNCHANGED <<flow, code, db, expired>>

(* The service lets a stored flow expire.                                 *)
Expire ==
  /\ phase \in {"INIT", "FLOW_STARTED", "CODE_RETRIEVED"}
  /\ \E f \in Flows \ expired :
       /\ db[f] # NoRow
       /\ expired' = expired \cup {f}
  /\ UNCHANGED <<phase, flow, code, db>>

Next == StartFlow \/ RetrieveCode \/ Authenticate \/ Abort \/ Expire

Spec == Init /\ [][Next]_<<phase, flow, code, db, expired>>

=============================================================================
