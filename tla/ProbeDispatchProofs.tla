-------------------------- MODULE ProbeDispatchProofs --------------------------
(***************************************************************************)
(* Proofs about main()'s probe dispatch, for every set of command lines,   *)
(* user ids, org ids and created id.                                       *)
(*                                                                         *)
(* RequestedProbesRan speaks only of the final state.  The strengthening  *)
(* says the same of every block already passed: while the probes run,     *)
(* ran holds exactly the requested probes before the current block whose *)
(* test held.  created_user_id is set only by the CreateUser block, the   *)
(* second one, and no block before the third is guarded, so the tests of *)
(* the blocks already passed never change value afterwards.               *)
(***************************************************************************)
EXTENDS ProbeDispatch, TLAPS

(* The condition RequestedProbesRan states for one probe.                 *)
Req(p) ==
  /\ args[p] # Off
  /\ cookies
  /\ (p \in Guarded /\ args[p] = Created) => createdId # None

(* The probe blocks main() has passed before block k.                     *)
Before(k) == {Order[i] : i \in 1..(k - 1)}

IInv ==
  /\ phase \in {"signin", "probes", "exited"}
  /\ cookies \in BOOLEAN
  /\ step \in 1..(Len(Order) + 1)
  /\ createdId \in {None, NewId}
  /\ exitCode \in {Running, 0, 1}
  /\ phase = "signin" => /\ step = 1 /\ ran = {} /\ createdId = None
                         /\ exitCode = Running
  /\ createdId # None => step > 2
  /\ phase = "probes" => /\ ran = {p \in Before(step) : Req(p)}
                         /\ exitCode = Running
  /\ exitCode = 0 => /\ phase = "exited"
                     /\ step = Len(Order) + 1
                     /\ ran = {p \in Before(step) : Req(p)}

(* The order of the blocks in main(), as the provers need it.             *)
LEMMA OrderFacts ==
  /\ Len(Order) = 16
  /\ Order[1] = "ListUsers" /\ Order[2] = "CreateUser"
  /\ \A i \in 1..16 : Order[i] = "CreateUser" => i = 2
  /\ \A i \in 1..2 : Order[i] \notin Guarded
  /\ Before(1) = {}
  /\ Before(3) = {"ListUsers", "CreateUser"}
BY DEF Order, Guarded, Before

(* Passing block k adds exactly that block to the blocks passed.          *)
LEMMA BeforeStep ==
  ASSUME NEW k \in 1..Len(Order)
  PROVE  Before(k + 1) = Before(k) \cup {Order[k]}
BY OrderFacts DEF Before

(* A block's test (Runs) holds exactly when the probe is requested in the *)
(* sense of RequestedProbesRan: "created" resolves to the created id,     *)
(* which is never the word "created" itself.                              *)
LEMMA RunsIffReq ==
  ASSUME createdId \in {None, NewId}, NEW p \in Probes
  PROVE  Runs(p) <=> Req(p)
BY IdsAssumption DEF Runs, Req, Target, None, Created, Off, On

(* The probes main() knows.                                                *)
LEMMA ProbesFacts ==
  Probes = {"ListUsers", "CreateUser", "GetUser", "GetCurrentUser",
            "UpdateUser", "UpdateCurrentUser", "EnableUser", "DisableUser",
            "DeleteUser", "ListUserGroups", "ListCurrentUserGroups",
            "ListOrganizationsByUser", "ListOrganizationsByCurrentUser",
            "ListProjectsByUser", "ListProjectsByCurrentUser",
            "ListServiceUsers"}
BY DEF Probes, Order

LEMMA InitIInv == Init => IInv
<1> SUFFICES ASSUME Init PROVE IInv
  OBVIOUS
<1>1. step \in 1..(Len(Order) + 1)
  BY OrderFacts DEF Init
<1>2. exitCode \in {Running, 0, 1} /\ exitCode # 0
  BY DEF Init, Running
<1>3. /\ phase = "signin" /\ phase # "probes"
      /\ cookies \in BOOLEAN
      /\ createdId \in {None, NewId} /\ createdId = None
      /\ ran = {} /\ step = 1 /\ exitCode = Running
  BY Zenon DEF Init
<1>4. QED
  BY <1>1, <1>2, <1>3, Zenon DEF IInv

(* One block that runs its probe keeps the invariant, whether the probe   *)
(* returns to main or crashes the process; only the CreateUser block may  *)
(* change created_user_id.                                                *)
LEMMA RanPreserves ==
  ASSUME IInv, NEW p \in Probes, NEW sent, Ran(p, sent),
         UNCHANGED <<args, cookies>>,
         \/ phase' = "probes" /\ exitCode' = exitCode
         \/ phase' = "exited" /\ exitCode' = 1,
         createdId' \in {None, NewId},
         createdId' # createdId => p = "CreateUser"
  PROVE  IInv'
<1>1. /\ phase = "probes"
      /\ step \in 1..Len(Order)
      /\ Order[step] = p
      /\ Runs(p)
      /\ ran' = ran \cup {p}
      /\ step' = step + 1
  BY DEF Ran, IInv
<1>2. Req(p)
  BY <1>1, RunsIffReq DEF IInv
<1>3. Before(step') = Before(step) \cup {p}
  BY <1>1, BeforeStep
<1>4. \A q \in Before(step') : Req(q)' <=> Req(q)
  <2>1. CASE createdId' = createdId
    BY <2>1 DEF Req
  <2>2. CASE createdId' # createdId
    <3>1. step = 2
      BY <1>1, <2>2, OrderFacts
    <3>2. Before(step') = {"ListUsers", "CreateUser"}
      BY <1>1, <3>1, OrderFacts
    <3>3. QED
      BY <3>2 DEF Req, Guarded
  <2>3. QED
    BY <2>1, <2>2
<1>5. (phase' = "probes") => ran' = {q \in Before(step') : Req(q)'}
  BY <1>1, <1>2, <1>3, <1>4 DEF IInv
<1>6. createdId' # None => step' > 2
  BY <1>1, OrderFacts DEF IInv
<1>7. QED
  BY <1>1, <1>5, <1>6 DEF IInv

CurrentProbes == {"ListCurrentUserGroups", "ListOrganizationsByCurrentUser",
                  "ListProjectsByCurrentUser"}

LEMMA NextIInv == IInv /\ [Next]_vars => IInv'
<1> SUFFICES ASSUME IInv, [Next]_vars PROVE IInv'
  OBVIOUS
<1>1. CASE SignInFlow
  BY <1>1, OrderFacts DEF SignInFlow, SignInReturns, IInv
<1>2. CASE SkipProbe
  <2>1. /\ step \in 1..Len(Order)
        /\ ~Req(Order[step])
    BY <1>2, RunsIffReq, OrderFacts DEF SkipProbe, IInv, Probes
  <2>2. Before(step + 1) = Before(step) \cup {Order[step]}
    BY <2>1, BeforeStep
  <2>3. QED
    BY <1>2, <2>1, <2>2 DEF SkipProbe, IInv, Req
<1>3. CASE ListUsers
  <2>1. /\ Ran("ListUsers", <<Call("ListUsers", None)>>)
        /\ UNCHANGED <<phase, args, cookies, createdId, exitCode>>
        /\ phase = "probes"
    BY <1>3 DEF ListUsers, Ran
  <2>2. QED
    BY <2>1, ProbesFacts, RanPreserves DEF IInv
<1>4. CASE CreateUser
  <2>1. PICK sent :
          /\ Ran("CreateUser", sent)
          /\ UNCHANGED <<args, cookies>>
          /\ \/ phase' = "probes" /\ exitCode' = exitCode
             \/ phase' = "exited" /\ exitCode' = 1
          /\ createdId' \in {None, NewId}
          /\ createdId' # createdId => "CreateUser" = "CreateUser"
    BY <1>4 DEF CreateUser, IInv, Ran
  <2>2. "CreateUser" \in Probes
    BY ProbesFacts
  <2>3. QED
    BY <2>1, <2>2, RanPreserves
<1>5. CASE GetUser
  <2>1. PICK sent :
          /\ Ran("GetUser", sent)
          /\ UNCHANGED <<args, cookies>>
          /\ \/ phase' = "probes" /\ exitCode' = exitCode
             \/ phase' = "exited" /\ exitCode' = 1
          /\ createdId' \in {None, NewId}
          /\ createdId' # createdId => "GetUser" = "CreateUser"
    BY <1>5 DEF GetUser, IInv, Ran
  <2>2. "GetUser" \in Probes
    BY ProbesFacts
  <2>3. QED
    BY <2>1, <2>2, RanPreserves
<1>6. CASE GetCurrentUser
  <2>1. PICK sent :
          /\ Ran("GetCurrentUser", sent)
          /\ UNCHANGED <<args, cookies>>
          /\ \/ phase' = "probes" /\ exitCode' = exitCode
             \/ phase' = "exited" /\ exitCode' = 1
          /\ createdId' \in {None, NewId}
          /\ createdId' # createdId => "GetCurrentUser" = "CreateUser"
    BY <1>6 DEF GetCurrentUser, IInv, Ran
  <2>2. "GetCurrentUser" \in Probes
    BY ProbesFacts
  <2>3. QED
    BY <2>1, <2>2, RanPreserves
<1>7. CASE UpdateUser
  <2>1. PICK sent :
          /\ Ran("UpdateUser", sent)
          /\ UNCHANGED <<args, cookies>>
          /\ \/ phase' = "probes" /\ exitCode' = exitCode
             \/ phase' = "exited" /\ exitCode' = 1
          /\ createdId' \in {None, NewId}
          /\ createdId' # createdId => "UpdateUser" = "CreateUser"
    BY <1>7 DEF UpdateUser, Crash, IInv, Ran
  <2>2. "UpdateUser" \in Probes
    BY ProbesFacts
  <2>3. QED
    BY <2>1, <2>2, RanPreserves
<1>8. CASE UpdateCurrentUser
  <2>1. PICK sent :
          /\ Ran("UpdateCurrentUser", sent)
          /\ UNCHANGED <<args, cookies>>
          /\ \/ phase' = "probes" /\ exitCode' = exitCode
             \/ phase' = "exited" /\ exitCode' = 1
          /\ createdId' \in {None, NewId}
          /\ createdId' # createdId => "UpdateCurrentUser" = "CreateUser"
    BY <1>8 DEF UpdateCurrentUser, Crash, IInv, Ran
  <2>2. "UpdateCurrentUser" \in Probes
    BY ProbesFacts
  <2>3. QED
    BY <2>1, <2>2, RanPreserves
<1>9. CASE \E p \in Guarded \ {"UpdateUser"} : IdProbe(p)
  <2>0. PICK p \in Guarded \ {"UpdateUser"} : IdProbe(p)
    BY <1>9
  <2>1. PICK sent :
          /\ Ran(p, sent)
          /\ UNCHANGED <<args, cookies>>
          /\ \/ phase' = "probes" /\ exitCode' = exitCode
             \/ phase' = "exited" /\ exitCode' = 1
          /\ createdId' \in {None, NewId}
          /\ createdId' # createdId => p = "CreateUser"
    BY <2>0 DEF IdProbe, IInv, Ran
  <2>2. p \in Probes
    BY <2>0, ProbesFacts DEF Guarded
  <2>3. QED
    BY <2>1, <2>2, RanPreserves
<1>10. CASE \E p \in CurrentProbes : CurrentUserProbe(p)
  <2>0. PICK p \in CurrentProbes : CurrentUserProbe(p)
    BY <1>10
  <2>1. PICK sent :
          /\ Ran(p, sent)
          /\ UNCHANGED <<args, cookies>>
          /\ \/ phase' = "probes" /\ exitCode' = exitCode
             \/ phase' = "exited" /\ exitCode' = 1
          /\ createdId' \in {None, NewId}
          /\ createdId' # createdId => p = "CreateUser"
    BY <2>0 DEF CurrentUserProbe, IInv, Ran
  <2>2. p \in Probes
    BY <2>0, ProbesFacts DEF CurrentProbes
  <2>3. QED
    BY <2>1, <2>2, RanPreserves
<1>11. CASE ListServiceUsers
  <2>1. PICK sent :
          /\ Ran("ListServiceUsers", sent)
          /\ UNCHANGED <<args, cookies>>
          /\ \/ phase' = "probes" /\ exitCode' = exitCode
             \/ phase' = "exited" /\ exitCode' = 1
          /\ createdId' \in {None, NewId}
          /\ createdId' # createdId => "ListServiceUsers" = "CreateUser"
    BY <1>11 DEF ListServiceUsers, IInv, Ran
  <2>2. "ListServiceUsers" \in Probes
    BY ProbesFacts
  <2>3. QED
    BY <2>1, <2>2, RanPreserves
<1>12. CASE ExitSuccess
  BY <1>12, Zenon DEF ExitSuccess, IInv, Running, Req
<1>13. CASE Terminated \/ UNCHANGED vars
  BY <1>13 DEF Terminated, vars, IInv, Req, Before
<1>14. QED
  BY <1>1, <1>2, <1>3, <1>4, <1>5, <1>6, <1>7, <1>8, <1>9, <1>10, <1>11,
     <1>12, <1>13
  DEF Next, EnableUser, DisableUser, DeleteUser, ListUserGroups,
      ListOrganizationsByUser, ListProjectsByUser, ListCurrentUserGroups,
      ListOrganizationsByCurrentUser, ListProjectsByCurrentUser, Guarded,
      CurrentProbes

(* When main() exits 0, exactly the requested probes ran whose cookie and *)
(* "created" tests held, for every command line: no requested probe is    *)
(* silently skipped and no unrequested one runs.                          *)
THEOREM ProbesRunAsRequested == Spec => []RequestedProbesRan
<1>1. IInv => RequestedProbesRan
  BY OrderFacts DEF IInv, RequestedProbesRan, Req, Before, Probes
<1>2. QED
  BY InitIInv, NextIInv, <1>1, PTL DEF Spec

-----------------------------------------------------------------------------
(***************************************************************************)
(* Type correctness.  What a probe sends is typed by what the command     *)
(* line can hold (ArgsAssumption): a block runs only on an argument other *)
(* than Off, so it sends a user id, "created", the created id, or an org  *)
(* id, never the Off marker.                                              *)
(***************************************************************************)
CallT == [rpc : Rpcs, target : Targets]

(* The argument of a probe that takes a user id.                          *)
LEMMA IdArg ==
  ASSUME TypeOK, NEW p \in Probes \ (Flags \cup {"ListServiceUsers"})
  PROVE  args[p] \in {Off, Created} \cup UserIds
<1>1. args[p] \in ArgValues(p)
  BY ArgsAssumption, Zenon DEF TypeOK
<1>2. ArgValues(p) = {Off, Created} \cup UserIds
  BY DEF ArgValues
<1>3. QED
  BY <1>1, <1>2

(* A block that runs sends a well-typed request on its resolved user id. *)
LEMMA TargetTyped ==
  ASSUME TypeOK, NEW p \in Probes \ (Flags \cup {"ListServiceUsers"}),
         Runs(p)
  PROVE  /\ Target(p) \in Targets
         /\ Call(p, Target(p)) \in CallT
<1>1. args[p] \in {Created} \cup UserIds
  BY IdArg DEF Runs
<1>2. Target(p) \in Targets
  BY <1>1 DEF TypeOK, Target, Targets
<1>3. QED
  BY <1>2 DEF Call, CallT, Rpcs

(* A block that runs, appends well-typed requests and returns or crashes *)
(* keeps the state well typed.                                            *)
LEMMA RanTyped ==
  ASSUME TypeOK, NEW p \in Probes, NEW sent \in Seq(CallT), Ran(p, sent),
         UNCHANGED <<args, cookies, sessionInfo>>,
         createdId' \in {None, NewId},
         phase' \in {"probes", "exited"},
         exitCode' \in {Running, 0, 1}
  PROVE  TypeOK'
<1>1. /\ step \in 1..Len(Order) /\ step' = step + 1
      /\ calls' = calls \o sent /\ ran' = ran \cup {p}
  BY DEF Ran, TypeOK
<1>2. calls' \in Seq(CallT)
  BY <1>1 DEF TypeOK, CallT
<1>3. QED
  BY <1>1, <1>2, OrderFacts DEF TypeOK, CallT

LEMMA InitTypeOK == Init => TypeOK
<1> SUFFICES ASSUME Init PROVE TypeOK
  OBVIOUS
<1>1. step \in 1..(Len(Order) + 1) /\ exitCode \in {Running, 0, 1}
  BY OrderFacts DEF Init
<1>2. calls \in Seq([rpc : Rpcs, target : Targets])
  BY DEF Init
<1>3. QED
  BY <1>1, <1>2, Zenon DEF Init, TypeOK

(* A request with no user id, by one of the probe RPCs.                   *)
LEMMA NoneCallTyped ==
  ASSUME NEW q \in Probes
  PROVE  <<Call(q, None)>> \in Seq(CallT)
BY DEF Call, CallT, Rpcs, Targets

LEMMA NextTypeOK == TypeOK /\ [Next]_vars => TypeOK'
<1> SUFFICES ASSUME TypeOK, [Next]_vars PROVE TypeOK'
  OBVIOUS
<1>1. CASE SignInFlow
  BY <1>1 DEF SignInFlow, SignInReturns, TypeOK, Running
<1>2. CASE SkipProbe
  BY <1>2, OrderFacts DEF SkipProbe, TypeOK
<1>3. CASE ListUsers \/ GetCurrentUser \/ CreateUser
  <2>1. {"ListUsers", "GetCurrentUser", "CreateUser"} \subseteq Probes
    BY ProbesFacts
  <2>2. QED
    BY <1>3, <2>1, NoneCallTyped, RanTyped, Zenon
       DEF ListUsers, GetCurrentUser, CreateUser, TypeOK, Ran
<1>4. CASE \E q \in CurrentProbes : CurrentUserProbe(q)
  <2>1. PICK q \in CurrentProbes : CurrentUserProbe(q)
    BY <1>4
  <2>2. q \in Probes
    BY ProbesFacts DEF CurrentProbes
  <2>3. QED
    BY <2>1, <2>2, NoneCallTyped, RanTyped, Zenon
       DEF CurrentUserProbe, TypeOK, Ran
<1>5. CASE \E q \in Guarded \cup {"GetUser"} :
             /\ Ran(q, <<Call(q, Target(q))>>)
             /\ UNCHANGED <<phase, args, cookies, sessionInfo, createdId,
                            exitCode>>
  <2>1. PICK q \in Guarded \cup {"GetUser"} :
          /\ Ran(q, <<Call(q, Target(q))>>)
          /\ UNCHANGED <<phase, args, cookies, sessionInfo, createdId,
                         exitCode>>
    BY <1>5
  <2>2. q \in Probes \ (Flags \cup {"ListServiceUsers"})
    BY ProbesFacts DEF Guarded, Flags
  <2>3. Call(q, Target(q)) \in CallT
    BY <2>1, <2>2, TargetTyped DEF Ran
  <2>4. <<Call(q, Target(q))>> \in Seq(CallT)
    BY <2>3
  <2>5. QED
    BY <2>1, <2>2, <2>4, RanTyped, Zenon DEF TypeOK, Ran
<1>6. CASE UpdateUser
  <2> DEFINE t == Target("UpdateUser")
  <2>1. "UpdateUser" \in Probes \ (Flags \cup {"ListServiceUsers"})
    BY ProbesFacts DEF Flags
  <2>2. /\ Ran("UpdateUser", <<Call("GetUser", t), Call("UpdateUser", t)>>)
        /\ UNCHANGED <<args, cookies, sessionInfo, createdId>>
        /\ \/ UNCHANGED <<phase, exitCode>>
           \/ phase' = "exited" /\ exitCode' = 1
    BY <1>6 DEF UpdateUser, Crash
  <2>3. t \in Targets /\ "GetUser" \in Rpcs /\ "UpdateUser" \in Rpcs
    BY <2>1, <2>2, TargetTyped, ProbesFacts DEF Ran, Rpcs
  <2>4. <<Call("GetUser", t), Call("UpdateUser", t)>> \in Seq(CallT)
    BY <2>3 DEF Call, CallT
  <2>5. phase = "probes"
    BY <2>2 DEF Ran
  <2>6. QED
    BY <2>1, <2>2, <2>4, <2>5, RanTyped, Zenon DEF TypeOK
<1>7. CASE UpdateCurrentUser
  <2>1. "GetCurrentUser" \in Probes /\ "UpdateCurrentUser" \in Probes
    BY ProbesFacts
  <2>2. /\ <<Call("GetCurrentUser", None)>> \in Seq(CallT)
        /\ <<Call("GetCurrentUser", None),
             Call("UpdateCurrentUser", None)>> \in Seq(CallT)
    BY <2>1 DEF Call, CallT, Rpcs, Targets
  <2>3. QED
    BY <1>7, <2>1, <2>2, RanTyped, Zenon
       DEF UpdateCurrentUser, Crash, TypeOK, Ran
<1>8. CASE ListServiceUsers
  <2> DEFINE o == args["ListServiceUsers"]
  <2>1. /\ Ran("ListServiceUsers", <<Call("ListServiceUsers", o)>>)
        /\ UNCHANGED <<phase, args, cookies, sessionInfo, createdId, exitCode>>
    BY <1>8 DEF ListServiceUsers
  <2>2. "ListServiceUsers" \in Probes
    BY ProbesFacts
  <2>3. o \in {Off} \cup OrgIds
    <3>1. o \in ArgValues("ListServiceUsers")
      BY <2>2, ArgsAssumption, Zenon DEF TypeOK
    <3>2. QED
      BY <3>1 DEF ArgValues, Flags
  <2>4. o # Off
    BY <2>1 DEF Ran, Runs
  <2>5. <<Call("ListServiceUsers", o)>> \in Seq(CallT)
    BY <2>2, <2>3, <2>4 DEF Call, CallT, Rpcs, Targets
  <2>6. QED
    BY <2>1, <2>2, <2>5, RanTyped, Zenon DEF TypeOK, Ran
<1>9. CASE ExitSuccess
  BY <1>9 DEF ExitSuccess, TypeOK
<1>10. CASE Terminated \/ UNCHANGED vars
  BY <1>10 DEF Terminated, vars, TypeOK
<1>11. QED
  BY <1>1, <1>2, <1>3, <1>4, <1>5, <1>6, <1>7, <1>8, <1>9, <1>10, Zenon
  DEF Next, GetUser, EnableUser, DisableUser, DeleteUser, ListUserGroups,
      ListOrganizationsByUser, ListProjectsByUser, IdProbe,
      ListCurrentUserGroups, ListOrganizationsByCurrentUser,
      ListProjectsByCurrentUser, Guarded, CurrentProbes

(* Every command line and every answer leave main's state well typed: in *)
(* particular every probe request names a probe RPC and a real target,    *)
(* never the Off marker of an option left out.                            *)
THEOREM DispatchTypeCorrect == Spec => []TypeOK
BY InitTypeOK, NextTypeOK, PTL DEF Spec

=============================================================================
