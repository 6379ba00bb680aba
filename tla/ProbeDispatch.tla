---------------------------- MODULE ProbeDispatch ----------------------------
(***************************************************************************)
(* main() of scripts/signin_helper.py after argument parsing: the sign-in  *)
(* result decides the exit path, then each requested probe runs in the    *)
(* order of the code, each with a fresh requests.Session carrying the     *)
(* cookies.  "created" as a user id stands for the id CreateUser returned  *)
(* earlier in the same run.  The service's answers are the environment.    *)
(* The probes' printing is left out; what each sends and what it returns  *)
(* to main is kept.                                                        *)
(***************************************************************************)
EXTENDS Integers, Sequences

CONSTANTS
  UserIds,      \* literal user ids that can be given on the command line
  OrgIds,       \* literal org ids for --test-list-service-users
  NewId,        \* id the service gives the user CreateUser creates
  CLIArgs       \* the command lines considered: Probes -> argument

(* An option left out: store_true flags are False, string options None.   *)
Off == "off"
On  == "on"
None == "None"
Created == "created"

(* exitCode before the process has exited.                                *)
Running == -1

(* The probes in the order main() runs them.                              *)
Order == <<"ListUsers", "CreateUser", "GetUser", "GetCurrentUser",
           "UpdateUser", "UpdateCurrentUser", "EnableUser", "DisableUser",
           "DeleteUser", "ListUserGroups", "ListCurrentUserGroups",
           "ListOrganizationsByUser", "ListOrganizationsByCurrentUser",
           "ListProjectsByUser", "ListProjectsByCurrentUser",
           "ListServiceUsers">>

Probes == {Order[i] : i \in 1..Len(Order)}

(* Probes that take a user id and refuse "created" when no user was made. *)
Guarded == {"UpdateUser", "EnableUser", "DisableUser", "DeleteUser",
            "ListUserGroups", "ListOrganizationsByUser", "ListProjectsByUser"}

(* Probes given by a store_true flag.                                     *)
Flags == {"ListUsers", "CreateUser", "GetCurrentUser", "UpdateCurrentUser",
          "ListCurrentUserGroups", "ListOrganizationsByCurrentUser",
          "ListProjectsByCurrentUser"}

ArgValues(p) ==
  CASE p \in Flags              -> {Off, On}
    [] p = "ListServiceUsers"   -> {Off} \cup OrgIds
    [] OTHER                    -> {Off, Created} \cup UserIds

ASSUME ArgsAssumption ==
  /\ CLIArgs # {}
  /\ \A a \in CLIArgs : a \in [Probes -> UNION {ArgValues(p) : p \in Probes}]
                        /\ \A p \in Probes : a[p] \in ArgValues(p)
ASSUME IdsAssumption ==
  /\ NewId \notin UserIds \cup {Off, On, None, Created}
  /\ (UserIds \cup OrgIds) \cap {Off, On, None, Created} = {}

VARIABLES
  phase,        \* "signin", "probes" or "exited"
  args,         \* the parsed command line
  cookies,      \* signin_flow returned non-empty cookies
  sessionInfo,  \* signin_flow returned non-empty session_info
  step,         \* index in Order of the next probe block
  createdId,    \* created_user_id
  calls,        \* the probe RPCs sent, in order: [rpc, target]
  ran,          \* the probes whose test_*_api function was called
  exitCode      \* Running until the process exits

vars == <<phase, args, cookies, sessionInfo, step, createdId, calls, ran,
          exitCode>>

Call(rpc, target) == [rpc |-> rpc, target |-> target]

(* The user id a probe block uses: "created" becomes created_user_id when *)
(* one was set, otherwise the argument is used as given.                  *)
Target(p) ==
  IF args[p] = Created /\ createdId # None THEN createdId ELSE args[p]

(* Mutant of the guarded test: "and" written for "or".                    *)
RunsAnd(p) ==
  /\ args[p] # Off
  /\ cookies
  /\ p \in Guarded => (args[p] # Created /\ createdId # None)

(* The "if args.test_x and cookies" test, and for the guarded blocks the *)
(* "if test_user_id != 'created' or created_user_id" test.               *)
Runs(p) ==
  /\ args[p] # Off
  /\ cookies
  /\ p \in Guarded => (Target(p) # Created)

(* A probe block whose test is false is passed over.                      *)
SkipProbe ==
  /\ phase = "probes"
  /\ step <= Len(Order)
  /\ ~Runs(Order[step])
  /\ step' = step + 1
  /\ UNCHANGED <<phase, args, cookies, sessionInfo, createdId, calls, ran,
                 exitCode>>

(* Common frame of a probe block that runs and returns to main.           *)
Ran(p, sent) ==
  /\ phase = "probes"
  /\ step <= Len(Order)
  /\ Order[step] = p
  /\ Runs(p)
  /\ calls' = calls \o sent
  /\ ran' = ran \cup {p}
  /\ step' = step + 1

-----------------------------------------------------------------------------
Init ==
  /\ phase = "signin"
  /\ args \in CLIArgs
  /\ cookies = FALSE
  /\ sessionInfo = FALSE
  /\ step = 1
  /\ createdId = None
  /\ calls = << >>
  /\ ran = {}
  /\ exitCode = Running

(* main's "if cookies or session_info" on what signin_flow returned: the  *)
(* truth of cookies (c) and of session_info (s).                          *)
SignInReturns(c, s) ==
  /\ phase = "signin"
  /\ cookies' = c
  /\ sessionInfo' = s
  /\ IF c \/ s
       THEN /\ phase' = "probes"
            /\ UNCHANGED exitCode
       ELSE /\ phase' = "exited"
            /\ exitCode' = 1
  /\ UNCHANGED <<args, step, createdId, calls, ran>>

(* helper.signin_flow, whatever it returns, then the test in main.       *)
SignInFlow == \E c, s \in BOOLEAN : SignInReturns(c, s)

(* test_list_users_api: the pagination loop (ListUsersPager) catches its *)
(* own errors; main only prints the result.                               *)
ListUsers ==
  /\ Ran("ListUsers", <<Call("ListUsers", None)>>)
  /\ UNCHANGED <<phase, args, cookies, sessionInfo, createdId, exitCode>>

(* Mutant: created_user.get('id', 'N/A'), the default the probes use when *)
(* printing, so that a user without an id yields the id "N/A".           *)
CreateUserDefaultNA ==
  /\ Ran("CreateUser", <<Call("CreateUser", None)>>)
  /\ createdId' \in {None, NewId, "N/A"}
  /\ UNCHANGED <<phase, args, cookies, sessionInfo, exitCode>>

(* test_create_user_api, and main's "if created_user: created_user_id =  *)
(* created_user.get('id')": a failed call, a 2xx body without a user      *)
(* (data.get('user', {}) is falsy) or a user without an id leave it None. *)
CreateUser ==
  /\ Ran("CreateUser", <<Call("CreateUser", None)>>)
  /\ createdId' \in {None, NewId}
  /\ UNCHANGED <<phase, args, cookies, sessionInfo, exitCode>>

(* test_get_user_api with main's resolution of "created", which has no   *)
(* skip test: without a created user the literal "created" is sent.       *)
GetUser ==
  /\ Ran("GetUser", <<Call("GetUser", Target("GetUser"))>>)
  /\ UNCHANGED <<phase, args, cookies, sessionInfo, createdId, exitCode>>

(* test_get_current_user_api.                                             *)
GetCurrentUser ==
  /\ Ran("GetCurrentUser", <<Call("GetCurrentUser", None)>>)
  /\ UNCHANGED <<phase, args, cookies, sessionInfo, createdId, exitCode>>


(* A 2xx answer whose body has no "user": data.get('user') is None and   *)
(* the next updated_user.get(...) raises AttributeError, which nothing   *)
(* catches: the process dies with a traceback and exit status 1.         *)
Crash ==
  /\ phase' = "exited"
  /\ exitCode' = 1

(* test_update_user_api: a silent GetUser for the "before" view (its     *)
(* failure is ignored), then UpdateUser, which fails (return False),     *)
(* succeeds, or crashes.                                                  *)
UpdateUser ==
  LET t == Target("UpdateUser") IN
  /\ Ran("UpdateUser", <<Call("GetUser", t), Call("UpdateUser", t)>>)
  /\ \/ UNCHANGED <<phase, exitCode>>
     \/ Crash
  /\ UNCHANGED <<args, cookies, sessionInfo, createdId>>

(* test_update_current_user_api: a silent GetCurrentUser; without a user *)
(* or without its email it returns False before updating; otherwise it   *)
(* sends UpdateCurrentUser with the email forced to the current one.     *)
UpdateCurrentUser ==
  /\ \/ /\ Ran("UpdateCurrentUser", <<Call("GetCurrentUser", None)>>)
        /\ UNCHANGED <<phase, exitCode>>
     \/ /\ Ran("UpdateCurrentUser", <<Call("GetCurrentUser", None),
                                      Call("UpdateCurrentUser", None)>>)
        /\ \/ UNCHANGED <<phase, exitCode>>
           \/ Crash
  /\ UNCHANGED <<args, cookies, sessionInfo, createdId>>

(* A guarded block and its test_*_api function: one RPC on the resolved  *)
(* user id; errors are caught and printed.                                *)
IdProbe(p) ==
  /\ Ran(p, <<Call(p, Target(p))>>)
  /\ UNCHANGED <<phase, args, cookies, sessionInfo, createdId, exitCode>>

EnableUser == IdProbe("EnableUser")
DisableUser == IdProbe("DisableUser")
DeleteUser == IdProbe("DeleteUser")
ListUserGroups == IdProbe("ListUserGroups")
ListOrganizationsByUser == IdProbe("ListOrganizationsByUser")
ListProjectsByUser == IdProbe("ListProjectsByUser")

(* A block for the current user: one RPC, errors caught and printed.     *)
CurrentUserProbe(p) ==
  /\ Ran(p, <<Call(p, None)>>)
  /\ UNCHANGED <<phase, args, cookies, sessionInfo, createdId, exitCode>>

ListCurrentUserGroups == CurrentUserProbe("ListCurrentUserGroups")
ListOrganizationsByCurrentUser ==
  CurrentUserProbe("ListOrganizationsByCurrentUser")
ListProjectsByCurrentUser == CurrentUserProbe("ListProjectsByCurrentUser")

(* test_list_service_users_api on the org id given.                       *)
ListServiceUsers ==
  /\ Ran("ListServiceUsers",
         <<Call("ListServiceUsers", args["ListServiceUsers"])>>)
  /\ UNCHANGED <<phase, args, cookies, sessionInfo, createdId, exitCode>>

(* sys.exit(0) after the last probe block.                                *)
ExitSuccess ==
  /\ phase = "probes"
  /\ step = Len(Order) + 1
  /\ phase' = "exited"
  /\ exitCode' = 0
  /\ UNCHANGED <<args, cookies, sessionInfo, step, createdId, calls, ran>>

(* The process has exited.                                                *)
Terminated ==
  /\ phase = "exited"
  /\ UNCHANGED vars

Next ==
  \/ SignInFlow
  \/ SkipProbe
  \/ ListUsers
  \/ CreateUser
  \/ GetUser
  \/ GetCurrentUser
  \/ UpdateUser
  \/ UpdateCurrentUser
  \/ EnableUser
  \/ DisableUser
  \/ DeleteUser
  \/ ListUserGroups
  \/ ListCurrentUserGroups
  \/ ListOrganizationsByUser
  \/ ListOrganizationsByCurrentUser
  \/ ListProjectsByUser
  \/ ListProjectsByCurrentUser
  \/ ListServiceUsers
  \/ ExitSuccess
  \/ Terminated

Spec == Init /\ [][Next]_vars

-----------------------------------------------------------------------------
(***************************************************************************)
(* Properties                                                              *)
(***************************************************************************)
Rpcs == Probes
Targets == UserIds \cup OrgIds \cup {NewId, None, Created}

TypeOK ==
  /\ phase \in {"signin", "probes", "exited"}
  /\ args \in CLIArgs
  /\ cookies \in BOOLEAN
  /\ sessionInfo \in BOOLEAN
  /\ step \in 1..(Len(Order) + 1)
  /\ createdId \in {None, NewId}
  /\ calls \in Seq([rpc : Rpcs, target : Targets])
  /\ ran \subseteq Probes
  /\ exitCode \in {Running, 0, 1}

(* When main exits 0, exactly the requested probes ran whose test held at *)
(* their turn: cookies were obtained and, for the guarded blocks, a       *)
(* "created" id was resolved by the CreateUser block before them; no      *)
(* unrequested probe ran.                                                 *)
RequestedProbesRan ==
  exitCode = 0 =>
    ran = {p \in Probes :
             /\ args[p] # Off
             /\ cookies
             /\ (p \in Guarded /\ args[p] = Created) => createdId # None}

(* Spec sections 6 and 7: failures of optional probes are printed but do  *)
(* not change the exit code: after a successful sign-in the process exits *)
(* 0.                                                                     *)
ProbeFailureKeepsExitZero ==
  (exitCode # Running /\ (cookies \/ sessionInfo)) => exitCode = 0

(* The placeholder "created" never reaches the service as a user id: it   *)
(* is replaced by the created user's id or the probe is not run (the     *)
(* "Cannot use 'created' user ID" branch of main).                        *)
CreatedPlaceholderNeverSent ==
  \A i \in 1..Len(calls) : calls[i].target # Created

=============================================================================
