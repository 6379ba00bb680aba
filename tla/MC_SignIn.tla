----------------------------- MODULE MC_SignIn ------------------------------
(* Small instance of SignIn for TLC: two flow ids (one may be a row left   *)
(* by an earlier run), one nonce, two cookie names, a 2xx, a 4xx and a 5xx *)
(* status.                                                                 *)
EXTENDS SignIn

CONSTANTS f1, f2, n1, c1, c2

MCFlows == {f1, f2}
MCNonces == {n1}
MCCookies == {c1, c2}
MCStatusCodes == {200, 401, 500}

=============================================================================
