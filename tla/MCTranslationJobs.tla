-------------------------- MODULE MCTranslationJobs --------------------------
(* TranslationJobs on articles with a source and a translation. *)
EXTENDS TranslationJobs, TLC

CONSTANTS ko, en, w1, w2

MCSourceOf == [d \in Derived |-> ko]
=============================================================================
