----------------------------- MODULE Operations -----------------------------
(***************************************************************************)
(* The operations of the Mac together: release operations, backups and     *)
(* restores as commands that run side by side under two locks, are killed, *)
(* leave their locks behind and have them recovered, around one database   *)
(* and one set of services.                                                *)
(***************************************************************************)
EXTENDS ReleaseOperations, DatabaseOperations

CONSTANT MaxKills    \* bound: commands killed

VARIABLE kills    \* commands killed so far

lockVars == <<command, lock, moving>>
vars == <<command, lock, moving, services, current, release, file, accepted, exposed,
          backup, aside, kills>>

\* A machine set up and not yet deployed to, or one that runs its first release.
Init ==
  /\ InitLock /\ InitDatabase /\ kills = 0
  /\ \/ /\ release = [r \in Releases |-> "absent"]
        /\ current = None /\ services = Down /\ file = Empty
     \/ /\ release = [r \in Releases |-> IF r = 1 THEN "sealed" ELSE "absent"]
        /\ current = 1 /\ file = [Empty EXCEPT !.schema = SchemaOf[1]]
        /\ services = [up |-> TRUE, running |-> 1, byRelease |-> FALSE, orphaned |-> FALSE]

LockStep(c) ==
  (NameOwner(c) \/ Unlock(c)) /\ UNCHANGED <<services, current, release, file, kills>> /\ UNCHANGED dbVars

Killed(c) ==
  /\ kills < MaxKills /\ kills' = kills + 1 /\ Kill(c)
  /\ UNCHANGED <<services, current, release, file>> /\ UNCHANGED dbVars

RecoverLock(l) ==
  (Inspect(l) \/ Quarantine(l)) /\ UNCHANGED <<services, current, release, file, kills>> /\ UNCHANGED dbVars

Operator ==
  (OperatorStops \/ OperatorStarts)
    /\ UNCHANGED lockVars /\ UNCHANGED <<current, release, kills>> /\ UNCHANGED dbVars

Release(c) ==
  (BeginRelease(c) \/ (ReleaseStep(c) /\ UNCHANGED <<lock, moving>>))
    /\ UNCHANGED kills /\ UNCHANGED dbVars

Database(c) ==
  (BeginDatabase(c) \/ (DatabaseStep(c) /\ UNCHANGED <<lock, moving>>))
    /\ UNCHANGED <<release, kills>>

Portal == (\E r \in Records : Accept(r)) /\ UNCHANGED <<release, kills>>

Calendar == NextDay /\ UNCHANGED <<release, kills>>

Next ==
  \/ \E c \in Commands : LockStep(c) \/ Killed(c) \/ Release(c) \/ Database(c)
  \/ \E l \in Locks : RecoverLock(l)
  \/ Operator \/ Portal \/ Calendar

Spec == Init /\ [][Next]_vars

-----------------------------------------------------------------------------
(* Properties.                                                             *)

\* The type of the state; and every operation at work holds the lock of its
\* kind, named as its own: however commands die and locks are recovered, no
\* two work on the releases, or on the database, at the same time.
TypeOK ==
  /\ command \in [Commands -> Command]
  /\ lock \in [Locks -> Lock]
  /\ moving \subseteq Locks
  /\ services \in Services
  /\ current \in Releases \cup {None}
  /\ release \in [Releases -> {"absent", "partial", "sealed"}]
  /\ file \in Content /\ file.rows \subseteq accepted /\ exposed \subseteq accepted /\ accepted \subseteq Records
  /\ backup \in [Backups -> Backup]
  /\ aside \in [Commands -> Aside]
  /\ kills \in Nat
  /\ \A c \in Commands : HoldsItsLock(c)

=============================================================================
