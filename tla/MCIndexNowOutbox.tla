-------------------------- MODULE MCIndexNowOutbox --------------------------
(* IndexNowOutbox on releases that each have an address of their own. *)
EXTENDS IndexNowOutbox, TLC

CONSTANTS r1, r2, u0, u1, u2, w1, w2

MCUrlsOf == [r \in Releases |->
  IF r = r1 THEN {u0, u1} ELSE {u0, u2}]
=============================================================================
