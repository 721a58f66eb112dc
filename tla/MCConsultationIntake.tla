------------------------ MODULE MCConsultationIntake ------------------------
(* ConsultationIntake with one visitor. *)
EXTENDS ConsultationIntake, TLC

CONSTANTS v1, b1, b2, e1, e2
=============================================================================
