------------------------- MODULE DatabaseOperations -------------------------
(***************************************************************************)
(* Backup and restore of the database under its maintenance lock. A backup *)
(* publishes a verified artifact and then the status that vouches for it,  *)
(* once for the hour and once for the day. A restore stages a verified     *)
(* backup, copies the database into quarantine, renames the staged file    *)
(* over it and puts the old one back when the services do not become       *)
(* ready. The release operations take another lock: they may start the     *)
(* services at any point of a restore.                                     *)
(*                                                                         *)
(* A backup is named by the command that made it, and 0 is the backup of   *)
(* the day. Consultations whose retention ended, which a restore clears,   *)
(* are not among the records.                                              *)
(***************************************************************************)
EXTENDS PortalServices

CONSTANT KeepHourly    \* hourly backups kept

ASSUME KeepHourlyAssumption == KeepHourly \in Nat \ {0}

VARIABLES
  accepted,  \* the consultations a visitor was told were accepted
  exposed,   \* those accepted while a release operation ran the services under a restore
  backup,    \* the backup directory
  aside      \* what restores put aside: quarantined, and failed, databases

dbVars == <<accepted, exposed, backup, aside>>

Day == 0
Backups == {Day} \cup Commands

\* An artifact, what it holds, and whether its status is there.
Nothing == [artifact |-> FALSE, status |-> FALSE, holds |-> Empty]
Backup == [artifact : BOOLEAN, status : BOOLEAN, holds : Content]
Pair(b) == backup[b].artifact /\ backup[b].status
NoCopy == [here |-> FALSE, holds |-> Empty]
CopyOf(content) == [here |-> TRUE, holds |-> content]
Aside == [quarantine : [here : BOOLEAN, holds : Content],
          failed : [here : BOOLEAN, holds : Content]]

InitDatabase ==
  /\ accepted = {} /\ exposed = {}
  /\ backup = [b \in Backups |-> Nothing]
  /\ aside = [c \in Commands |-> [quarantine |-> NoCopy, failed |-> NoCopy]]

-----------------------------------------------------------------------------
(* The portal.                                                             *)

\* A restore has copied the database and is about to rename a file over it.
BetweenCopyAndRename == \E c \in Commands : command[c].step \in {"replace", "putBack"}

\* A consultation is accepted into the file the services hold open.
Accept(r) ==
  /\ services.up /\ r \notin accepted
  /\ accepted' = accepted \cup {r}
  /\ file' = IF services.orphaned THEN file ELSE [file EXCEPT !.rows = @ \cup {r}]
  /\ exposed' = IF services.byRelease /\ (services.orphaned \/ BetweenCopyAndRename)
                THEN exposed \cup {r} ELSE exposed
  /\ UNCHANGED <<command, lock, moving, backup, aside, services, current>>

-----------------------------------------------------------------------------
(* Backup.                                                                 *)

BeginDatabase(c) ==
  /\ \E kind \in {"backup", "restore"}, b \in Backups :
       /\ kind = "backup" => b = c
       /\ kind = "restore" => backup[b].artifact
       /\ Begin(c, kind, b)
  /\ UNCHANGED <<services, current, file>> /\ UNCHANGED dbVars

Publish(b, part) == backup' = [backup EXCEPT ![b] = part]

\* An online snapshot is taken, encrypted, decrypted again and compared.
Snapshot(c) ==
  /\ At(c, "snapshot")
  /\ \/ command' = [command EXCEPT ![c].step = "hourly", ![c].copy = file]
     \/ Finish(c)
  /\ UNCHANGED <<services, current, file>> /\ UNCHANGED dbVars

\* The artifact is renamed into place, then its status; a failure of either
\* removes both.
PublishArtifact(c, step, b, next) ==
  /\ At(c, step)
  /\ \/ Publish(b, [artifact |-> TRUE, status |-> FALSE, holds |-> command[c].copy])
          /\ Go(c, next)
     \/ Finish(c) /\ UNCHANGED backup
  /\ UNCHANGED <<services, current, file, accepted, exposed, aside>>

PublishStatus(c, step, b, next) ==
  /\ At(c, step)
  /\ \/ Publish(b, [backup[b] EXCEPT !.status = TRUE]) /\ Go(c, next)
     \/ Publish(b, Nothing) /\ Finish(c)
  /\ UNCHANGED <<services, current, file, accepted, exposed, aside>>

Hourly(c) == PublishArtifact(c, "hourly", c, "hourlyStatus")
HourlyStatus(c) == PublishStatus(c, "hourlyStatus", c, "daily")

\* The day's first backup is its daily one. A whole pair that is there is
\* left; half a one, which a command that died leaves, fails every further
\* backup of that day.
Daily(c) ==
  \/ /\ backup[Day] = Nothing
     /\ PublishArtifact(c, "daily", Day, "dailyStatus")
  \/ /\ At(c, "daily") /\ backup[Day] # Nothing
     /\ IF Pair(Day) THEN Go(c, "retain") ELSE Finish(c)
     /\ UNCHANGED <<services, current, file>> /\ UNCHANGED dbVars

DailyStatus(c) == PublishStatus(c, "dailyStatus", Day, "retain")

\* The next day.
NextDay ==
  /\ backup[Day] # Nothing
  /\ \A c \in Commands : ~Alive(c)
  /\ backup' = [backup EXCEPT ![Day] = Nothing]
  /\ UNCHANGED <<command, lock, moving, services, current, file, accepted, exposed, aside>>

\* Of the hourly pairs beyond those to be kept the oldest go first, each
\* artifact before its status.
Surplus == {b \in Commands : /\ Pair(b)
                             /\ Cardinality({n \in Commands : Pair(n) /\ n > b}) >= KeepHourly}

Retain(c) ==
  /\ At(c, "retain")
  /\ \/ \E b \in Surplus :
          /\ \A older \in Surplus : b <= older
          /\ \E left \in {Nothing, [Nothing EXCEPT !.status = TRUE]} : Publish(b, left)
          /\ UNCHANGED command
     \/ Finish(c) /\ UNCHANGED backup
  /\ UNCHANGED <<services, current, file, accepted, exposed, aside>>

-----------------------------------------------------------------------------
(* Restore.                                                                *)

\* The operator must have stopped the services.
AssertStopped(c) ==
  /\ At(c, "assert")
  /\ IF services.up THEN Finish(c) ELSE Go(c, "stop")
  /\ UNCHANGED <<services, current, file>> /\ UNCHANGED dbVars

\* They are stopped all the same. From here on a failure starts them again.
Stop(c) ==
  /\ At(c, "stop")
  /\ \/ services' = Down /\ Go(c, "load")
     \/ UNCHANGED services /\ Go(c, "startBack")
  /\ UNCHANGED <<current, file>> /\ UNCHANGED dbVars

\* The tools know the schema of the release they come with, the current one.
SchemaCompatible(content) == current # None /\ content.schema = SchemaOf[current]

\* No sidecar of open services lies beside the database, the artifact is the
\* one its status vouches for, and what it holds decrypts, is whole, is of
\* the schema of this release and is cleared of what retention ended for.
Load(c) ==
  /\ At(c, "load")
  /\ \/ /\ ~services.up /\ Pair(command[c].arg) /\ SchemaCompatible(backup[command[c].arg].holds)
        /\ command' = [command EXCEPT ![c].step = "quarantine",
                                      ![c].copy = backup[command[c].arg].holds]
     \/ Go(c, "startBack")
  /\ UNCHANGED <<services, current, file>> /\ UNCHANGED dbVars

PutAside(c, what) == aside' = [aside EXCEPT ![c] = what]

\* The services must still be stopped; the database is copied into quarantine.
QuarantineFile(c) ==
  /\ At(c, "quarantine")
  /\ \/ /\ ~services.up
        /\ PutAside(c, [aside[c] EXCEPT !.quarantine = CopyOf(file)])
        /\ Go(c, "replace")
     \/ Go(c, "startBack") /\ UNCHANGED aside
  /\ UNCHANGED <<services, current, file, accepted, exposed, backup>>

\* Services that are up keep the file that was renamed over.
Renamed(content) ==
  /\ file' = content
  /\ services' = [services EXCEPT !.orphaned = services.up]

\* The staged file is renamed over the database and the directory synced. The
\* database counts as replaced only once the sync returned.
Replace(c) ==
  /\ At(c, "replace")
  /\ \/ /\ Renamed(command[c].copy)
        /\ \/ Go(c, "start")
           \/ Go(c, "startBack")
     \/ Go(c, "startBack") /\ UNCHANGED <<services, file>>
  /\ UNCHANGED <<current, accepted, exposed, backup, aside>>

Start(c) ==
  /\ At(c, "start")
  /\ \/ StartWorks(FALSE) /\ Finish(c)
     \/ StartFails(FALSE) /\ Go(c, "undo")
  /\ UNCHANGED current /\ UNCHANGED dbVars

\* Mutant: the restored database is not copied aside.
UndoDropping(c) ==
  /\ At(c, "undo") /\ services' = Down /\ Go(c, "putBack")
  /\ UNCHANGED <<current, file, accepted, exposed, backup, aside>>

\* The services are stopped again, and the restored database, with what was
\* accepted into it, is copied aside.
Undo(c) ==
  /\ At(c, "undo")
  /\ \/ /\ services' = Down
        /\ PutAside(c, [aside[c] EXCEPT !.failed = CopyOf(file)])
        /\ Go(c, "putBack")
     \/ /\ services' \in {services, Down}
        /\ Finish(c) /\ UNCHANGED aside
  /\ UNCHANGED <<current, file, accepted, exposed, backup>>

\* The quarantined database is renamed back.
PutBack(c) ==
  /\ At(c, "putBack")
  /\ \/ /\ Renamed(aside[c].quarantine.holds)
        /\ PutAside(c, [aside[c] EXCEPT !.quarantine = NoCopy])
        /\ \/ Go(c, "startBack")
           \/ Finish(c)
     \/ Finish(c) /\ UNCHANGED <<services, file, aside>>
  /\ UNCHANGED <<current, accepted, exposed, backup>>

StartBack(c) ==
  /\ At(c, "startBack")
  /\ StartFails(FALSE)
  /\ Finish(c)
  /\ UNCHANGED current /\ UNCHANGED dbVars

DatabaseStep(c) ==
  \/ Snapshot(c) \/ Hourly(c) \/ HourlyStatus(c) \/ Daily(c) \/ DailyStatus(c) \/ Retain(c)
  \/ AssertStopped(c) \/ Stop(c) \/ Load(c) \/ QuarantineFile(c) \/ Replace(c)
  \/ Start(c) \/ Undo(c) \/ PutBack(c) \/ StartBack(c)

-----------------------------------------------------------------------------
(* Properties.                                                             *)

Kept == file.rows \cup
  UNION {aside[c].quarantine.holds.rows \cup aside[c].failed.holds.rows : c \in Commands}

\* No consultation a visitor was told was accepted disappears from the
\* database and from every copy restores put aside, wherever a restore fails
\* or dies; except for one window, which two locks leave open: a release
\* operation starts the services while a restore, past its last look at them,
\* is about to rename a file over the database.
NothingLost == accepted \subseteq Kept \cup exposed

=============================================================================
