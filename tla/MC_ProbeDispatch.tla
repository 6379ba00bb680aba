-------------------------- MODULE MC_ProbeDispatch --------------------------
EXTENDS ProbeDispatch

CONSTANTS u1, o1, new1

MCUserIds == {u1}
MCOrgIds == {o1}

(* Command lines: every choice for the blocks that meet through "created" *)
(* (CreateUser, GetUser, UpdateUser, DeleteUser, ListUserGroups); every   *)
(* other probe requested, with the literal ids.                          *)
Varying == {"CreateUser", "GetUser", "UpdateUser", "DeleteUser",
            "ListUserGroups"}

Fixed(p) ==
  CASE p \in Flags            -> On
    [] p = "ListServiceUsers" -> o1
    [] OTHER                  -> u1

MCCLIArgs ==
  {[p \in Probes |-> IF p \in Varying THEN v[p] ELSE Fixed(p)] :
     v \in {w \in [Varying -> {Off, On, Created, u1}] :
              \A p \in Varying : w[p] \in ArgValues(p)}}

=============================================================================
