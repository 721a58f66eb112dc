---------------------------- MODULE MCOperations ----------------------------
(* The operations of the Mac, model-checked on a small instance: three     *)
(* commands, so that two run side by side and a third follows them, and    *)
(* three releases, the last of which knows one migration more.             *)
EXTENDS Operations

CONSTANT c1

MCSchemaOf == [r \in Releases |-> IF r < 3 THEN 1 ELSE 2]

=============================================================================
