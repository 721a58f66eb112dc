--------------------------- MODULE ReleaseNotices ---------------------------
(***************************************************************************)
(* What a publication may rely on about the notices to the search engines: *)
(* an activation of a release makes its notice outstanding, and from then  *)
(* on it is outstanding until it is settled, once. Pruning keeps a release *)
(* for as long as its notice is outstanding (PublicationRelease).          *)
(***************************************************************************)
CONSTANTS Releases, NoRelease

VARIABLES
  active,   \* the active release
  notice    \* the notice of each release

vars == <<active, notice>>

Init ==
  /\ active = NoRelease
  /\ notice = [r \in Releases |-> "none"]

Activated(r) ==
  /\ active # r
  /\ active' = r
  /\ notice' = [notice EXCEPT ![r] = "live"]

SettleOutbox(r) ==
  /\ notice[r] = "live"
  /\ notice' = [notice EXCEPT ![r] = "settled"]
  /\ UNCHANGED active

Next == \E r \in Releases : Activated(r) \/ SettleOutbox(r)

\* Once no more releases are activated, every notice is settled.
Spec == Init /\ [][Next]_vars /\ \A r \in Releases : WF_vars(SettleOutbox(r))

=============================================================================
