------------------------------ MODULE MC_Main -------------------------------
(* main() end to end on a small instance: the sign-in instance of         *)
(* MC_SignIn and two command lines, one requesting every probe on the     *)
(* "created" user and one requesting none.                                *)
EXTENDS Main

CONSTANTS f1, f2, n1, c1, c2, o1, new1

MCFlows == {f1, f2}
MCNonces == {n1}
MCCookies == {c1, c2}
MCStatusCodes == {200, 401, 500}
MCOrgIds == {o1}

(* The probe names and option values of main, from an instance that does *)
(* not depend on the command lines defined here.                          *)
Opt == INSTANCE ProbeDispatch WITH CLIArgs <- {}

AllOn(p) ==
  CASE p \in Opt!Flags         -> Opt!On
    [] p = "ListServiceUsers" -> o1
    [] OTHER                  -> Opt!Created

MCCLIArgs ==
  {[p \in Opt!Probes |-> AllOn(p)], [p \in Opt!Probes |-> Opt!Off]}

=============================================================================
