------------------------ MODULE MCPublicationRelease ------------------------
(* PublicationRelease on one article in its source language and one        *)
(* translation, or on its source alone.                                    *)
EXTENDS PublicationRelease

CONSTANTS ko, en, r1, r2, r3, b1, b2

MCSourceOf == [d \in Derived |-> ko]
=============================================================================
