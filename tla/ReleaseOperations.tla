-------------------------- MODULE ReleaseOperations --------------------------
(***************************************************************************)
(* Deployment and rollback of an application release under the lock of the *)
(* releases: a release is copied, built and sealed with a manifest, tried  *)
(* as a canary, made current by renaming a link over "current", and taken  *)
(* back when the services do not become healthy on it. Every step may      *)
(* fail, before or after what it does took effect.                         *)
(***************************************************************************)
EXTENDS PortalServices

CONSTANT KeepRetired    \* releases kept beside the active one

ASSUME KeepRetiredAssumption == KeepRetired \in Nat

VARIABLE release    \* the directories: absent, partial, or sealed by a manifest

Dest(c) == command[c].arg
Verified(r) == release[r] = "sealed"
\* What the link names, when it names anything, is a verified release.
Usable(r) == r # None => Verified(r)
Set(r, what) == release' = [release EXCEPT ![r] = what]

\* A link that is there must name a verified release, before the lock is asked for.
PathsValid(c, kind, r) ==
  /\ Usable(current)
  /\ kind = "deploy" => release[r] = "absent"
  /\ kind = "rollback" => release[r] # "absent"

BeginRelease(c) ==
  \E kind \in {"deploy", "rollback"}, r \in Releases :
    PathsValid(c, kind, r) /\ Begin(c, kind, r) /\ UNCHANGED <<release, current, services, file>>

\* The source is copied; a copy that fails is removed.
Copy(c) ==
  /\ At(c, "copy")
  /\ \/ release[Dest(c)] = "absent" /\ Set(Dest(c), "partial") /\ Go(c, "build")
     \/ Finish(c) /\ UNCHANGED release
  /\ UNCHANGED <<current, services, file>>

\* Dependencies are installed and the release is built.
Build(c) ==
  /\ At(c, "build")
  /\ Go(c, "migrate") \/ Go(c, "clean")
  /\ UNCHANGED <<release, current, services, file>>

\* The database the services run on is migrated, when a rollback to the
\* releases kept stays possible; a step after that may fail all the same.
Migrate(c) ==
  /\ At(c, "migrate")
  /\ \/ /\ RollbackCompatible(Dest(c)) /\ RunMigrations(Dest(c))
        /\ Go(c, "seal") \/ Go(c, "clean")
     \/ Go(c, "clean") /\ UNCHANGED file
  /\ UNCHANGED <<release, current, services>>

\* Pruning to the runtime, the manifest and its verification.
Seal(c) ==
  /\ At(c, "seal")
  /\ \/ Set(Dest(c), "sealed") /\ Go(c, "canary")
     \/ Go(c, "clean") /\ UNCHANGED release
  /\ UNCHANGED <<current, services, file>>

\* A rollback verifies the release it returns to.
Verify(c) ==
  /\ At(c, "verify")
  /\ \/ Verified(Dest(c)) /\ Go(c, "canary")
     \/ Finish(c)
  /\ UNCHANGED <<release, current, services, file>>

\* The canary starts on the database, as the services would, answers that it
\* is ready and is stopped; then the current release, which must verify, is
\* remembered.
Canary(c) ==
  /\ At(c, "canary")
  /\ \/ /\ RunMigrations(Dest(c)) /\ Usable(current)
        /\ command' = [command EXCEPT ![c].step = "switch", ![c].previous = current]
     \/ /\ RunMigrations(Dest(c)) \/ UNCHANGED file
        /\ Go(c, "clean")
  /\ UNCHANGED <<release, current, services>>

\* The link is renamed over "current" and its directory synced. A switch that
\* fails is looked at: it may have happened, and the look may fail too.
Switch(c) ==
  /\ At(c, "switch")
  /\ \/ /\ Verified(Dest(c))
        /\ current' = Dest(c)
        /\ \/ Go(c, "restart")
           \/ Go(c, "revert")
           \/ Go(c, "clean")
     \/ \* nothing was renamed; in a rollback the release may be current already
        /\ Go(c, "clean") \/ (current = Dest(c) /\ Go(c, "revert"))
        /\ UNCHANGED current
  /\ UNCHANGED <<release, services, file>>

Restart(c) ==
  /\ At(c, "restart")
  /\ \/ StartWorks(TRUE) /\ Go(c, "health")
     \/ StartFails(TRUE) /\ Go(c, "revert")
  /\ UNCHANGED <<release, current>>

Health(c) ==
  /\ At(c, "health")
  /\ \/ /\ services.up
        /\ IF command[c].kind = "deploy" THEN Go(c, "prune") ELSE Finish(c)
     \/ Go(c, "revert")
  /\ UNCHANGED <<release, current, services, file>>

\* The verified releases beside the active one that are not among the newest
\* to be kept.
Excess(active) ==
  {r \in Releases \ {active} : /\ Verified(r)
                               /\ Cardinality({s \in Releases \ {active} : Verified(s) /\ s > r})
                                    >= KeepRetired}

\* They are removed; one that cannot be is left, and so are those after it.
\* What is left of the release a failing removal stopped at is no release.
Prune(c) ==
  /\ At(c, "prune")
  /\ LET excess == Excess(Dest(c)) IN
     \E last \in Releases \cup {None}, left \in {"sealed", "partial", "absent"} :
       release' = [r \in Releases |->
         IF r \in excess /\ r > last THEN "absent"
         ELSE IF r \in excess /\ r = last THEN left
         ELSE release[r]]
  /\ Finish(c)
  /\ UNCHANGED <<current, services, file>>

\* A deployment or rollback that failed after its switch puts the previous
\* release back, if that verifies, or removes the link when there was none.
Revert(c) ==
  /\ At(c, "revert")
  /\ \/ /\ Usable(command[c].previous)
        /\ current' = command[c].previous
        /\ \/ Go(c, "recover")
           \/ Finish(c)
     \/ Finish(c) /\ UNCHANGED current
  /\ UNCHANGED <<release, services, file>>

\* The services are started on it and checked; whether that works or not, the
\* release that failed is removed.
Recover(c) ==
  /\ At(c, "recover")
  /\ StartFails(TRUE)
  /\ Go(c, "clean")
  /\ UNCHANGED <<release, current>>

\* Mutant: the link is not looked at.
RemovableAlways(c) == command[c].kind = "deploy"

\* Only a deployment's own release is removed, and never the current one.
Removable(c) == command[c].kind = "deploy" /\ current # Dest(c)

Clean(c) ==
  /\ At(c, "clean")
  /\ \/ /\ Removable(c)
        /\ \E left \in {"absent", "partial"} : Set(Dest(c), left)
     \/ UNCHANGED release
  /\ Finish(c)
  /\ UNCHANGED <<current, services, file>>

ReleaseStep(c) ==
  \/ Copy(c) \/ Build(c) \/ Migrate(c) \/ Seal(c) \/ Verify(c) \/ Canary(c)
  \/ Switch(c) \/ Restart(c) \/ Health(c) \/ Prune(c) \/ Revert(c) \/ Recover(c) \/ Clean(c)

-----------------------------------------------------------------------------
(* Properties.                                                             *)

\* The link names a whole, verified release or nothing: whatever step of a
\* deployment or rollback failed or was cut short, what is removed or half
\* built is never what the portal would be started from.
PointerStands == Usable(current)

\* Every release there is to run or to return to runs on the database as it
\* is, whatever was deployed, rolled back or restored meanwhile.
SchemaFits == \A r \in Releases : Verified(r) => SchemaOf[r] = file.schema

=============================================================================
