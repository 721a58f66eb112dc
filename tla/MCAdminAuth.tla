---------------------------- MODULE MCAdminAuth ----------------------------
(* AdminAuth with two logins and one owner. *)
EXTENDS AdminAuth, TLC

CONSTANTS l1, l2, r1
=============================================================================
