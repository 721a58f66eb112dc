--------------------------- MODULE PortalServices ---------------------------
(***************************************************************************)
(* The portal's services as launchd runs them (control server and          *)
(* workers), taken as one: up or down, from which release they were        *)
(* started, whether a release operation started them, and whether the      *)
(* database file they hold open has been replaced since. Whatever opens    *)
(* the database first brings it to its own release's schema, or refuses    *)
(* it: a release knows the migrations up to its own, and no later one.     *)
(***************************************************************************)
EXTENDS OperationLock

CONSTANT SchemaOf    \* the last migration a release knows

ASSUME SchemaAssumption == SchemaOf \in [Releases -> Nat \ {0}]

VARIABLES
  services,  \* the services
  current,   \* the release the link "current" names, or None
  file       \* the database

Down == [up |-> FALSE, running |-> None, byRelease |-> FALSE, orphaned |-> FALSE]
Services == [up : BOOLEAN, running : Releases \cup {None}, byRelease : BOOLEAN,
             orphaned : BOOLEAN]

\* The history must be a known prefix; all that is missing of it is applied,
\* in one transaction.
KnownPrefix(r) == file.schema <= SchemaOf[r]
RunMigrations(r) == KnownPrefix(r) /\ file' = [file EXCEPT !.schema = SchemaOf[r]]

\* Mutant: a release may bring any older database to its schema.
RollbackIgnored(r) == TRUE

\* A deployment may only migrate a new database: the releases kept for
\* rollback need exactly the schema the database has.
RollbackCompatible(r) == file.schema \in {0, SchemaOf[r]}

Started(byRelease) ==
  [up |-> TRUE, running |-> current, byRelease |-> byRelease, orphaned |-> FALSE]

\* Services start anew from the current release and become ready on the
\* database. There are several: when one cannot be started, those before it
\* were, and the rest stay as they are.
StartWorks(byRelease) ==
  current # None /\ RunMigrations(current) /\ services' = Started(byRelease)
StartFails(byRelease) ==
  \/ UNCHANGED <<services, file>>
  \/ StartWorks(byRelease)

\* The operator stops the services before a restore, and starts them when no
\* restore runs.
OperatorStops == services.up /\ services' = Down /\ UNCHANGED file
OperatorStarts ==
  /\ ~services.up
  /\ \A c \in Commands : command[c].kind # "restore"
  /\ StartWorks(FALSE)

=============================================================================
